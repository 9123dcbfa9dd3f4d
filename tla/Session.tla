------------------------------ MODULE Session ------------------------------
(***************************************************************************)
(* Who is signed in: the uid in UserDefaults, the current user of Firebase *)
(* Auth (kept in the keychain) and the root view controller.               *)
(*                                                                         *)
(* The login button stays enabled while a sign-in is in flight, so several *)
(* may be.  Auth answers each on a queue of its own: there it changes its  *)
(* current user, and then posts the completion to the main queue, where    *)
(* LoginViewController stores the uid and replaces the root.  Screens read *)
(* the stored uid when they are loaded, not the one they are made with.    *)
(***************************************************************************)
EXTENDS Naturals, Sequences, SequencesExt

CONSTANTS
    User,
    nobody,        \* no user
    MaxRequests,   \* bound: sign-ins in a behaviour
    MaxRelaunches  \* bound: ends of the process

ASSUME NobodyAssumption == nobody \notin User

VARIABLES
    stored,        \* "uid" in UserDefaults
    currentUser,   \* FIRAuth._currentUser
    root,          \* the root view controller
    competitions,  \* whose competitions CompetitionsViewController shows
    profile,       \* whose profile ProfileViewController shows, once loaded
    screen,        \* how many login screens there have been
    loading,       \* the present one shows its animation
    flight,        \* sign-ins Auth has not answered
    main,          \* completions on the main queue
    requests, relaunches,
    parted         \* the process ended between a sign-in and its completion

shown == <<root, competitions, profile>>
vars == <<stored, currentUser, shown, screen, loading, flight, main,
          requests, relaunches, parted>>

Request == [nr : Nat, user : User, screen : Nat]
Completion == [user : User \cup {nobody}, screen : Nat]  \* nobody: an error

TypeOK ==
    /\ stored \in User \cup {nobody} /\ currentUser \in User \cup {nobody}
    /\ root \in {"start", "login", "tabs"}
    /\ competitions \in User \cup {nobody} /\ profile \in User \cup {nobody}
    /\ screen \in Nat /\ loading \in BOOLEAN
    /\ flight \subseteq Request /\ main \in Seq(Completion)
    /\ requests \in Nat /\ relaunches \in Nat /\ parted \in BOOLEAN

Init ==
    /\ stored = nobody /\ currentUser = nobody
    /\ root = "start" /\ competitions = nobody /\ profile = nobody
    /\ screen = 0 /\ loading = FALSE
    /\ flight = {} /\ main = <<>>
    /\ requests = 0 /\ relaunches = 0 /\ parted = FALSE

-----------------------------------------------------------------------------
\* Completions of sign-ins that have succeeded, by their place.
Successes == {i \in DOMAIN main : main[i].user # nobody}

\* A new CustomTabBarController, whose first screen reads the stored uid.
ShowTabs(uid) ==
    /\ root' = "tabs"
    /\ competitions' = uid
    /\ profile' = nobody
    /\ loading' = FALSE
    /\ screen' = screen

\* A new LoginViewController.
ShowLogin ==
    /\ root' = "login"
    /\ competitions' = nobody /\ profile' = nobody
    /\ loading' = FALSE
    /\ screen' = screen + 1

\* The timer of StartAnimationViewController.
StartTimer ==
    /\ root = "start"
    /\ IF stored = nobody THEN ShowLogin ELSE ShowTabs(stored)
    /\ UNCHANGED <<stored, currentUser, flight, main, requests, relaunches, parted>>

TapLoginButton(u) ==
    /\ root = "login"
    /\ requests < MaxRequests
    /\ requests' = requests + 1
    /\ flight' = flight \cup {[nr |-> requests, user |-> u, screen |-> screen]}
    /\ loading' = TRUE
    /\ UNCHANGED <<stored, currentUser, shown, screen, main, relaunches, parted>>

\* The sign-in succeeds: Auth saves its user, then posts the completion.
SignedIn(r) ==
    /\ flight' = flight \ {r}
    /\ currentUser' = r.user
    /\ main' = Append(main, [user |-> r.user, screen |-> r.screen])
    /\ UNCHANGED <<stored, shown, screen, loading, requests, relaunches, parted>>

SignInFails(r) ==
    /\ flight' = flight \ {r}
    /\ main' = Append(main, [user |-> nobody, screen |-> r.screen])
    /\ UNCHANGED <<stored, currentUser, shown, screen, loading, requests, relaunches, parted>>

\* Wrong: the animation goes on behind the alert.
Complete_Loading ==
    /\ main # <<>>
    /\ main' = Tail(main)
    /\ IF Head(main).user = nobody
       THEN UNCHANGED <<stored, shown, loading, screen>>
       ELSE stored' = Head(main).user /\ ShowTabs(Head(main).user)
    /\ UNCHANGED <<currentUser, flight, requests, relaunches, parted>>

\* Wrong: whoever has signed in stays signed in.
Complete_Once ==
    /\ main # <<>>
    /\ main' = Tail(main)
    /\ IF Head(main).user = nobody \/ stored # nobody
       THEN /\ loading' = (loading /\ Head(main).screen # screen)
            /\ UNCHANGED <<stored, shown, screen>>
       ELSE stored' = Head(main).user /\ ShowTabs(Head(main).user)
    /\ UNCHANGED <<currentUser, flight, requests, relaunches, parted>>

\* The closure of tapLoginButton.  An error takes the animation off its own
\* screen; a user replaces the root, whatever that has become.
Complete ==
    /\ main # <<>>
    /\ main' = Tail(main)
    /\ IF Head(main).user = nobody
       THEN /\ loading' = (loading /\ Head(main).screen # screen)
            /\ UNCHANGED <<stored, shown, screen>>
       ELSE stored' = Head(main).user /\ ShowTabs(Head(main).user)
    /\ UNCHANGED <<currentUser, flight, requests, relaunches, parted>>

\* The profile is loaded when its tab is first selected.
LoadProfile ==
    /\ root = "tabs" /\ profile = nobody
    /\ profile' = stored
    /\ UNCHANGED <<stored, currentUser, root, competitions, screen, loading,
                   flight, main, requests, relaunches, parted>>

\* Wrong: the uid stays stored.
TapExitButton_Keeps ==
    /\ root = "tabs" /\ profile # nobody
    /\ stored' = stored
    /\ ShowLogin
    /\ UNCHANGED <<currentUser, flight, main, requests, relaunches, parted>>

\* In the settings, behind the profile.  Auth is not told.
TapExitButton ==
    /\ root = "tabs" /\ profile # nobody
    /\ stored' = nobody
    /\ ShowLogin
    /\ UNCHANGED <<currentUser, flight, main, requests, relaunches, parted>>

\* The process ends, and starts again; Auth loads its user from the keychain.
Relaunch ==
    /\ relaunches < MaxRelaunches
    /\ relaunches' = relaunches + 1
    /\ root' = "start" /\ competitions' = nobody /\ profile' = nobody
    /\ loading' = FALSE
    /\ flight' = {} /\ main' = <<>>
    /\ parted' = (parted \/ Successes # {})
    /\ UNCHANGED <<stored, currentUser, screen, requests>>

-----------------------------------------------------------------------------
Auth == \E r \in flight : SignedIn(r) \/ SignInFails(r)

Next ==
    \/ StartTimer \/ LoadProfile \/ TapExitButton
    \/ \E u \in User : TapLoginButton(u)
    \/ Auth \/ Complete \/ Relaunch

Spec == Init /\ [][Next]_vars

\* Requests have a timeout, and the main queue runs.
FairSpec == Spec /\ WF_vars(Auth) /\ WF_vars(Complete)

-----------------------------------------------------------------------------
(***************************************************************************)
(* Properties.                                                             *)
(***************************************************************************)

\* All that is on screen belongs to the stored user, whatever order sign-ins
\* are answered in and however late, and the login screen is there exactly if
\* there is none (tapLoginButton, tapExitButton, setupMainViewController).
ShownIsStored ==
    /\ root # "start" => (root = "tabs" <=> stored # nobody)
    /\ root = "tabs" => competitions = stored /\ profile \in {stored, nobody}

\* Firestore is asked with the credentials of the user on screen, or of the one
\* who is just about to be: never with those of an earlier sign-in.  Except if
\* the process has ended between a sign-in and its completion, which leaves the
\* two apart for good.
CredentialsOfStored ==
    stored # nobody /\ ~ parted =>
        currentUser = IF Successes = {} THEN stored ELSE main[Max(Successes)].user

\* The login screen's animation ends: an error takes it off the screen the
\* sign-in was made on, a user replaces that screen (setupLoading).
LoadingEnds == loading ~> ~ loading

=============================================================================
