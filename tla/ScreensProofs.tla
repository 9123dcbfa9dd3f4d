---------------------------- MODULE ScreensProofs ----------------------------
(***************************************************************************)
(* For any number of users, sign-ins and launches: what is on screen is    *)
(* that of the stored user, Firebase Auth has the user of the last sign-in *)
(* that is about to be shown, and the bar is where the flags say.          *)
(*                                                                         *)
(* The stored uid lags behind Auth's user by the completions on the main   *)
(* queue; so the last of them that succeeded says who Auth's user is, and  *)
(* only when there is none the stored uid does.  The bar moves only by one *)
(* flag at a time, because an item that is being animated was tapped with  *)
(* the bar up: unless the app was hasty, no flag is up until it is done.   *)
(***************************************************************************)
EXTENDS Screens, SequenceTheorems, FiniteSetTheorems, WellFoundedInduction, TLAPS

SessionTypeOK ==
    /\ stored \in User \cup {nobody} /\ currentUser \in User \cup {nobody}
    /\ root \in {"start", "login", "tabs"}
    /\ \A r \in flight : r.user \in User /\ r.screen \in Nat
    /\ main \in Seq(Completion)
    /\ screen \in Nat /\ parted \in BOOLEAN

\* Auth's user is that of the last sign-in on the main queue.
AuthIsAhead == Successes # {} => currentUser = main[Max(Successes)].user

SessionInv ==
    /\ SessionTypeOK
    /\ ShownIsStored
    /\ AuthIsAhead
    /\ stored # nobody /\ ~ parted /\ Successes = {} => currentUser = stored

BarTypeOK ==
    /\ selectedIndex \in Bar!Tab
    /\ offset \in Int
    /\ isCustomBarHiden \in [Bar!Tab -> BOOLEAN]
    /\ depth \in [Bar!Tab -> Nat]
    /\ clicked \subseteq Bar!Tab
    /\ hasty \in BOOLEAN

IndicatorOnItem == moved = selectedIndex /\ selectedItemIndex = selectedIndex

\* A flag is up only below a screen that covers the bar ...
FlagsBelowScreens == \A t \in Bar!Tab : isCustomBarHiden[t] => depth[t] # 0

\* ... and, but in haste, only in the tab that is selected, and never while an
\* item is animated.
FlagsOfSelected ==
    ~ hasty => \A t \in Bar!Tab : isCustomBarHiden[t] => t = selectedIndex /\ clicked = {}

BarInv ==
    /\ BarTypeOK
    /\ DownOncePerFlag
    /\ IndicatorOnItem
    /\ FlagsBelowScreens /\ FlagsOfSelected

ScreensInv == SessionInv /\ BarInv

-----------------------------------------------------------------------------
(***************************************************************************)
(* The session.                                                            *)
(***************************************************************************)

\* A bounded set of naturals has a largest element, and Max is it.
LEMMA LargestIs ==
    ASSUME NEW S \in SUBSET Nat, NEW b \in Nat, \A x \in S : x <= b
    PROVE  /\ S # {} => Max(S) \in S /\ \A y \in S : y <= Max(S)
           /\ \A m \in S : (\A y \in S : y <= m) => Max(S) = m
<1>1. ASSUME NEW m \in S, \A y \in S : y <= m PROVE Max(S) = m
  <2>1. Max(S) \in S /\ \A y \in S : y <= Max(S)
    BY <1>1 DEF Max
  <2>2. Max(S) \in Nat /\ m \in Nat /\ Max(S) <= m /\ m <= Max(S)
    BY <1>1, <2>1
  <2>. QED
    BY <2>2
<1>2. ASSUME S # {} PROVE Max(S) \in S /\ \A y \in S : y <= Max(S)
  <2>. DEFINE Below == {k \in Nat : \E x \in S : k = b - x}
  <2>1. Below \in SUBSET Nat /\ Below # {}
    <3>1. PICK x \in S : TRUE
      BY <1>2
    <3>2. b - x \in Nat
      OBVIOUS
    <3>. QED
      BY <3>2
  <2>2. PICK z \in Below : \A y \in Below : <<y, z>> \notin OpToRel(<, Nat)
    BY <2>1, WFMin, NatLessThanWellFounded
  <2>3. PICK x \in S : z = b - x
    OBVIOUS
  <2>4. ASSUME NEW y \in S PROVE y <= x
    <3>1. b - y \in Below /\ b - y \in Nat /\ z \in Nat
      BY <2>1
    <3>2. ~ (b - y < z)
      BY <2>2, <3>1 DEF OpToRel
    <3>. QED
      BY <2>3, <3>1, <3>2
  <2>. QED
    BY <2>4 DEF Max
<1>. QED
  BY <1>1, <1>2

\* The completions on the main queue, by their place.
LEMMA MainQueue ==
    ASSUME SessionTypeOK
    PROVE  /\ Len(main) \in Nat /\ DOMAIN main = 1..Len(main)
           /\ \A i \in DOMAIN main : main[i].user \in User \cup {nobody}
           /\ Successes \in SUBSET Nat /\ \A x \in Successes : x <= Len(main)
           /\ Successes # {} =>
                 Max(Successes) \in Successes /\ \A y \in Successes : y <= Max(Successes)
<1>1. Len(main) \in Nat /\ DOMAIN main = 1..Len(main)
  BY LenProperties DEF SessionTypeOK
<1>2. \A i \in DOMAIN main : main[i] \in Completion
  BY <1>1, ElementOfSeq DEF SessionTypeOK
<1>3. Successes \in SUBSET Nat /\ \A x \in Successes : x <= Len(main)
  BY <1>1 DEF Successes
<1>. QED
  BY <1>1, <1>2, <1>3, LargestIs DEF Completion

\* A completion is posted behind the others.
LEMMA Posted ==
    ASSUME SessionTypeOK, NEW c \in Completion, main' = Append(main, c)
    PROVE  /\ main' \in Seq(Completion)
           /\ \A i \in DOMAIN main : main'[i] = main[i]
           /\ c.user = nobody => Successes' = Successes
           /\ c.user # nobody =>
                 Successes' # {} /\ main'[Max(Successes')].user = c.user
<1>1. /\ main' \in Seq(Completion) /\ Len(main') = Len(main) + 1
      /\ \A i \in 1..Len(main) : main'[i] = main[i]
      /\ main'[Len(main) + 1] = c
  BY AppendProperties DEF SessionTypeOK
<1>2. /\ Len(main) \in Nat /\ DOMAIN main = 1..Len(main)
      /\ DOMAIN main' = 1..(Len(main) + 1)
  BY <1>1, MainQueue, LenProperties
<1>3. Successes' = {i \in DOMAIN main' : main'[i].user # nobody}
  BY DEF Successes
<1>4. ASSUME c.user = nobody PROVE Successes' = Successes
  BY <1>1, <1>2, <1>3, <1>4 DEF Successes
<1>5. ASSUME c.user # nobody
      PROVE  Successes' # {} /\ main'[Max(Successes')].user = c.user
  <2>1. Len(main) + 1 \in Successes' /\ \A y \in Successes' : y <= Len(main) + 1
    BY <1>1, <1>2, <1>3, <1>5
  <2>2. Successes' \in SUBSET Nat
    BY <1>2, <1>3
  <2>3. Max(Successes') = Len(main) + 1
    BY <1>2, <2>1, <2>2, LargestIs
  <2>. QED
    BY <1>1, <2>1, <2>3
<1>. QED
  BY <1>1, <1>2, <1>4, <1>5

\* The first completion is handled, and the others move up.
LEMMA Handled ==
    ASSUME SessionTypeOK, main # <<>>, main' = Tail(main)
    PROVE  /\ main' \in Seq(Completion) /\ Head(main) \in Completion
           /\ Successes' # {} =>
                 Successes # {} /\ main'[Max(Successes')] = main[Max(Successes)]
           /\ Successes' = {} => Successes \subseteq {1}
           /\ (1 \in Successes) <=> (Head(main).user # nobody)
           /\ Head(main) = main[1]
<1>1. /\ Len(main) \in Nat \ {0} /\ DOMAIN main = 1..Len(main)
      /\ main' \in Seq(Completion) /\ Head(main) \in Completion /\ Head(main) = main[1]
      /\ Len(main') = Len(main) - 1
      /\ \A i \in 1..Len(main') : main'[i] = main[i + 1]
  BY MainQueue, EmptySeq, HeadTailProperties DEF SessionTypeOK
<1>2. DOMAIN main' = 1..(Len(main) - 1)
  BY <1>1, LenProperties
<1>3. ASSUME NEW i \in 1..(Len(main) - 1) PROVE (i \in Successes') <=> (i + 1 \in Successes)
  <2>1. i + 1 \in 1..Len(main) /\ main'[i] = main[i + 1]
    BY <1>1
  <2>. QED
    BY <1>1, <1>2, <2>1 DEF Successes
<1>4. Successes' \subseteq 1..(Len(main) - 1) /\ Successes \subseteq 1..Len(main)
  BY <1>1, <1>2 DEF Successes
<1>5. ASSUME Successes' # {}
      PROVE  Successes # {} /\ main'[Max(Successes')] = main[Max(Successes)]
  <2>1. PICK m : m = Max(Successes')
    OBVIOUS
  <2>2. m \in Successes' /\ \A y \in Successes' : y <= m
    <3>1. Successes' \in SUBSET Nat /\ Len(main) - 1 \in Nat
          /\ \A y \in Successes' : y <= Len(main) - 1
      BY <1>1, <1>4
    <3>. QED
      BY <1>5, <2>1, <3>1, LargestIs
  <2>3. m \in 1..(Len(main) - 1) /\ m + 1 \in Successes
    BY <1>3, <1>4, <2>2
  <2>4. ASSUME NEW y \in Successes PROVE y <= m + 1
    <3>1. CASE y = 1
      BY <1>4, <2>3, <3>1
    <3>2. CASE y # 1
      <4>1. y - 1 \in 1..(Len(main) - 1) /\ (y - 1) + 1 = y
        BY <1>1, <1>4, <3>2
      <4>2. y - 1 \in Successes'
        BY <1>3, <4>1
      <4>. QED
        BY <1>4, <2>2, <2>3, <4>2
    <3>. QED
      BY <3>1, <3>2
  <2>5. Max(Successes) = m + 1
    <3>1. Successes \in SUBSET Nat /\ \A y \in Successes : y <= Len(main)
      BY <1>1, <1>4
    <3>. QED
      BY <1>1, <2>3, <2>4, <3>1, LargestIs
  <2>. QED
    BY <1>1, <2>1, <2>3, <2>5
<1>6. ASSUME Successes' = {} PROVE Successes \subseteq {1}
  <2>. SUFFICES ASSUME NEW y \in Successes, y # 1 PROVE FALSE
    OBVIOUS
  <2>1. y - 1 \in 1..(Len(main) - 1) /\ (y - 1) + 1 = y
    BY <1>1, <1>4
  <2>. QED
    BY <1>3, <1>6, <2>1
<1>7. (1 \in Successes) <=> (Head(main).user # nobody)
  BY <1>1 DEF Successes
<1>. QED
  BY <1>1, <1>5, <1>6, <1>7

\* Nobody is signed in at the start.
LEMMA SessionInvInit == Init => SessionInv
<1>. SUFFICES ASSUME Init PROVE SessionInv
  OBVIOUS
<1>1. <<>> \in Seq(Completion) /\ Len(<<>>) = 0 /\ DOMAIN <<>> = {}
  BY EmptySeq, LenProperties
<1>2. Successes = {}
  BY <1>1 DEF Init, Successes
<1>. QED
  BY <1>1, <1>2 DEF Init, SessionInv, SessionTypeOK, ShownIsStored, AuthIsAhead

\* Auth changes its user and posts the completion in one step, so the last
\* success on the main queue is Auth's user (signInWithEmail).
LEMMA SignInsAnswered ==
    ASSUME SessionInv, Auth
    PROVE  SessionInv'
<1>1. PICK r \in flight : SignedIn(r) \/ SignInFails(r)
  BY DEF Auth
<1>2. SessionTypeOK /\ r.user \in User /\ r.screen \in Nat
  BY DEF SessionInv, SessionTypeOK
<1>3. r.user # nobody /\ r.user \in User \cup {nobody}
  BY <1>2, NobodyAssumption
<1>4. /\ flight' = flight \ {r}
      /\ UNCHANGED <<stored, shown, screen, parted>>
  BY <1>1 DEF SignedIn, SignInFails
<1>5. ShownIsStored'
  BY <1>4 DEF SessionInv, ShownIsStored, shown
<1>6. CASE SignedIn(r)
  <2>. DEFINE c == [user |-> r.user, screen |-> r.screen]
  <2>1. c \in Completion /\ main' = Append(main, c) /\ currentUser' = r.user
        /\ c.user = r.user
    BY <1>2, <1>6 DEF Completion, SignedIn
  <2>. HIDE DEF c
  <2>2. main' \in Seq(Completion) /\ Successes' # {}
        /\ main'[Max(Successes')].user = r.user
    BY <1>2, <1>3, <2>1, Posted
  <2>3. SessionTypeOK'
    BY <1>2, <1>3, <1>4, <2>1, <2>2 DEF SessionTypeOK, shown
  <2>4. AuthIsAhead'
    BY <2>1, <2>2 DEF AuthIsAhead
  <2>. QED
    BY <1>5, <2>2, <2>3, <2>4 DEF SessionInv
<1>7. CASE SignInFails(r)
  <2>. DEFINE c == [user |-> nobody, screen |-> r.screen]
  <2>1. c \in Completion /\ main' = Append(main, c) /\ currentUser' = currentUser
        /\ c.user = nobody
    BY <1>2, <1>7 DEF Completion, SignInFails
  <2>. HIDE DEF c
  <2>2. main' \in Seq(Completion) /\ Successes' = Successes
        /\ \A i \in DOMAIN main : main'[i] = main[i]
    BY <1>2, <2>1, Posted
  <2>3. SessionTypeOK'
    BY <1>2, <1>4, <2>1, <2>2 DEF SessionTypeOK, shown
  <2>4. AuthIsAhead'
    <3>1. Successes # {} => Max(Successes) \in DOMAIN main
      BY <1>2, MainQueue DEF Successes
    <3>. QED
      BY <2>1, <2>2, <3>1 DEF SessionInv, AuthIsAhead
  <2>. QED
    BY <1>4, <1>5, <2>1, <2>2, <2>3, <2>4 DEF SessionInv
<1>. QED
  BY <1>1, <1>6, <1>7

\* The closure of tapLoginButton stores a user; if no success waits behind his,
\* he is the one Auth has.
LEMMA SignInCompletes ==
    ASSUME SessionInv, Complete
    PROVE  SessionInv'
<1>1. SessionTypeOK /\ main # <<>> /\ main' = Tail(main)
      /\ UNCHANGED <<currentUser, flight, parted>>
  BY DEF SessionInv, Complete
<1>2. /\ main' \in Seq(Completion) /\ Head(main) \in Completion
      /\ Successes' # {} => Successes # {} /\ main'[Max(Successes')] = main[Max(Successes)]
      /\ Successes' = {} => Successes \subseteq {1}
      /\ (1 \in Successes) <=> (Head(main).user # nobody)
      /\ Head(main) = main[1]
  BY <1>1, Handled
<1>3. Head(main).user \in User \cup {nobody}
  BY <1>2 DEF Completion
<1>4. AuthIsAhead'
  BY <1>1, <1>2 DEF SessionInv, AuthIsAhead
<1>5. CASE Head(main).user = nobody
  <2>1. UNCHANGED <<stored, shown, screen>>
    BY <1>5 DEF Complete
  <2>2. SessionTypeOK' /\ ShownIsStored'
    BY <1>1, <1>2, <2>1 DEF SessionInv, SessionTypeOK, ShownIsStored, shown
  <2>3. Successes' = {} => Successes = {}
    BY <1>2, <1>5
  <2>. QED
    BY <1>1, <1>4, <2>1, <2>2, <2>3 DEF SessionInv
<1>6. CASE Head(main).user # nobody
  <2>1. stored' = Head(main).user /\ ShowTabs(Head(main).user)
    BY <1>6 DEF Complete
  <2>2. SessionTypeOK' /\ ShownIsStored'
    BY <1>1, <1>2, <1>3, <1>6, <2>1 DEF SessionTypeOK, ShownIsStored, ShowTabs
  <2>3. Successes' = {} => currentUser' = stored'
    <3>. SUFFICES ASSUME Successes' = {} PROVE currentUser = Head(main).user
      BY <1>1, <2>1
    <3>1. Successes = {1}
      BY <1>2, <1>6
    <3>2. Max(Successes) \in Successes
      BY <1>1, <3>1, MainQueue
    <3>. QED
      BY <1>2, <3>1, <3>2 DEF SessionInv, AuthIsAhead
  <2>. QED
    BY <1>4, <2>2, <2>3 DEF SessionInv
<1>. QED
  BY <1>5, <1>6

\* Every step of the session keeps the invariant.
LEMMA SessionInvNext == SessionInv /\ [Next]_vars => SessionInv'
<1>. SUFFICES ASSUME SessionInv, [Next]_vars PROVE SessionInv'
  OBVIOUS
<1>1. SessionTypeOK /\ ShownIsStored /\ AuthIsAhead
  BY DEF SessionInv
<1>2. ASSUME UNCHANGED <<main, currentUser>> PROVE Successes' = Successes /\ AuthIsAhead'
  BY <1>1, <1>2 DEF Successes, AuthIsAhead
<1>3. CASE StartTimer
  <2>1. SessionTypeOK' /\ ShownIsStored'
    BY <1>1, <1>3 DEF StartTimer, SessionTypeOK, ShownIsStored, ShowLogin, ShowTabs
  <2>. QED
    BY <1>2, <1>3, <2>1 DEF StartTimer, SessionInv
<1>4. CASE LoadProfile
  <2>1. SessionTypeOK' /\ ShownIsStored'
    BY <1>1, <1>4 DEF LoadProfile, SessionTypeOK, ShownIsStored
  <2>. QED
    BY <1>2, <1>4, <2>1 DEF LoadProfile, SessionInv
<1>5. CASE TapExitButton
  <2>1. SessionTypeOK' /\ ShownIsStored'
    BY <1>1, <1>5 DEF TapExitButton, SessionTypeOK, ShownIsStored, ShowLogin
  <2>. QED
    BY <1>2, <1>5, <2>1 DEF TapExitButton, SessionInv
<1>6. ASSUME NEW u \in User, TapLoginButton(u) PROVE SessionInv'
  <2>1. SessionTypeOK' /\ ShownIsStored'
    BY <1>1, <1>6 DEF TapLoginButton, SessionTypeOK, ShownIsStored, shown
  <2>. QED
    BY <1>2, <1>6, <2>1 DEF TapLoginButton, SessionInv
<1>7. CASE Auth
  BY <1>7, SignInsAnswered
<1>8. CASE Complete
  BY <1>8, SignInCompletes
<1>9. CASE Relaunch
  <2>1. Successes' = {} /\ main' = <<>>
    BY <1>9, EmptySeq, LenProperties DEF Relaunch, Successes
  <2>2. SessionTypeOK' /\ ShownIsStored'
    BY <1>1, <1>9, EmptySeq DEF Relaunch, SessionTypeOK, ShownIsStored
  <2>3. AuthIsAhead' /\ (stored' # nobody /\ ~ parted' => currentUser' = stored')
    BY <1>9, <2>1 DEF Relaunch, AuthIsAhead, SessionInv
  <2>. QED
    BY <2>2, <2>3 DEF SessionInv
<1>10. CASE UNCHANGED vars
  <2>1. SessionTypeOK' /\ ShownIsStored'
    BY <1>1, <1>10 DEF vars, shown, SessionTypeOK, ShownIsStored
  <2>. QED
    BY <1>2, <1>10, <2>1 DEF vars, SessionInv
<1>. QED
  BY <1>3, <1>4, <1>5, <1>6, <1>7, <1>8, <1>9, <1>10 DEF Next

\* What the invariant says of the screens and the credentials.
LEMMA SessionInvMeans == SessionInv => ShownIsStored /\ CredentialsOfStored
BY DEF SessionInv, AuthIsAhead, CredentialsOfStored

-----------------------------------------------------------------------------
(***************************************************************************)
(* The bar.                                                                *)
(***************************************************************************)

One(b) == IF b THEN 1 ELSE 0

\* The flags that are up, counted one by one.
LEMMA TwoFlags ==
    ASSUME NEW f \in [Bar!Tab -> BOOLEAN]
    PROVE  Cardinality({t \in Bar!Tab : f[t]}) = One(f[0]) + One(f[1])
<1>. DEFINE S == {t \in Bar!Tab : f[t]}
<1>1. Bar!Tab = {0, 1}
  BY DEF Bar!Tab, Bar!Competitions, Bar!Profile
<1>2. Cardinality({}) = 0 /\ Cardinality({0}) = 1 /\ Cardinality({1}) = 1
  BY FS_EmptySet, FS_Singleton
<1>3. Cardinality({0, 1}) = 2
  <2>1. IsFiniteSet({0})
    BY FS_Singleton
  <2>2. 1 \notin {0} /\ {0} \cup {1} = {0, 1}
    OBVIOUS
  <2>3. Cardinality({0} \cup {1}) = Cardinality({0}) + 1
    BY <2>1, <2>2, FS_AddElement
  <2>. QED
    BY <1>2, <2>2, <2>3
<1>4. S = (IF f[0] THEN {0} ELSE {}) \cup (IF f[1] THEN {1} ELSE {})
  BY <1>1
<1>. HIDE DEF S
<1>5. CASE f[0] /\ f[1]
  <2>1. S = {0, 1}
    BY <1>4, <1>5
  <2>. QED
    BY <1>3, <1>5, <2>1 DEF One, S
<1>6. CASE f[0] /\ ~ f[1]
  <2>1. S = {0}
    BY <1>4, <1>6
  <2>. QED
    BY <1>2, <1>6, <2>1 DEF One, S
<1>7. CASE ~ f[0] /\ f[1]
  <2>1. S = {1}
    BY <1>4, <1>7
  <2>. QED
    BY <1>2, <1>7, <2>1 DEF One, S
<1>8. CASE ~ f[0] /\ ~ f[1]
  <2>1. S = {}
    BY <1>4, <1>8
  <2>. QED
    BY <1>2, <1>8, <2>1 DEF One, S
<1>. QED
  BY <1>5, <1>6, <1>7, <1>8

\* TabBar's number of elements is the library's.
LEMMA SameCardinality == ASSUME NEW S PROVE Bar!Cardinality(S) = Cardinality(S)
BY Zenon DEF Bar!Cardinality, Cardinality

\* How far the bar is down, flag by flag.
BarDown == offset = One(isCustomBarHiden[0]) + One(isCustomBarHiden[1])

\* DownOncePerFlag says so.
LEMMA BarIsDown ==
    ASSUME BarTypeOK
    PROVE  DownOncePerFlag <=> BarDown
<1>1. isCustomBarHiden \in [Bar!Tab -> BOOLEAN]
  BY DEF BarTypeOK
<1>2. Bar!Cardinality({t \in Bar!Tab : isCustomBarHiden[t]})
         = One(isCustomBarHiden[0]) + One(isCustomBarHiden[1])
  BY <1>1, TwoFlags, SameCardinality
<1>. QED
  BY <1>2 DEF BarDown, DownOncePerFlag, Bar!DownOncePerFlag

\* The invariant of the bar in these terms.
LEMMA BarInvFacts ==
    BarInv <=> BarTypeOK /\ BarDown /\ IndicatorOnItem /\ FlagsBelowScreens /\ FlagsOfSelected
BY BarIsDown DEF BarInv

\* There are two tabs.
LEMMA Tabs == Bar!Tab = {0, 1} /\ Bar!Competitions = 0 /\ Bar!Profile = 1
BY DEF Bar!Tab, Bar!Competitions, Bar!Profile

\* A first screen that appears takes its own flag down, and the bar up for it.
LEMMA Appears ==
    ASSUME BarTypeOK, BarDown, NEW t \in Bar!Tab, Bar!ViewWillAppear(t)
    PROVE  /\ offset' \in Int /\ isCustomBarHiden' \in [Bar!Tab -> BOOLEAN]
           /\ BarDown'
           /\ \A s \in Bar!Tab : isCustomBarHiden'[s] => isCustomBarHiden[s] /\ s # t
<1>1. isCustomBarHiden' = [isCustomBarHiden EXCEPT ![t] = FALSE]
      /\ offset' = IF isCustomBarHiden[t] THEN offset - 1 ELSE offset
  BY DEF Bar!ViewWillAppear
<1>2. t = 0 \/ t = 1
  BY Tabs
<1>3. /\ isCustomBarHiden' \in [Bar!Tab -> BOOLEAN] /\ offset' \in Int
      /\ isCustomBarHiden'[t] = FALSE
      /\ \A s \in Bar!Tab \ {t} : isCustomBarHiden'[s] = isCustomBarHiden[s]
  BY <1>1 DEF BarTypeOK
<1>4. BarDown'
  <2>1. CASE t = 0
    <3>1. isCustomBarHiden'[0] = FALSE /\ isCustomBarHiden'[1] = isCustomBarHiden[1]
      BY <1>3, <2>1, Tabs
    <3>. QED
      BY <1>1, <2>1, <3>1 DEF BarDown, BarTypeOK, One
  <2>2. CASE t = 1
    <3>1. isCustomBarHiden'[1] = FALSE /\ isCustomBarHiden'[0] = isCustomBarHiden[0]
      BY <1>3, <2>2, Tabs
    <3>. QED
      BY <1>1, <2>2, <3>1 DEF BarDown, BarTypeOK, One
  <2>. QED
    BY <1>2, <2>1, <2>2
<1>. QED
  BY <1>3, <1>4

\* A bar that is up has no flag up.
LEMMA UpWithoutFlags ==
    ASSUME BarTypeOK, BarDown
    PROVE  offset = 0 <=> \A t \in Bar!Tab : ~ isCustomBarHiden[t]
BY Tabs DEF BarTypeOK, BarDown, One

\* The same of the next state, for the steps below.
LEMMA BarInvAfter ==
    ASSUME BarTypeOK', BarDown', IndicatorOnItem', FlagsBelowScreens', FlagsOfSelected'
    PROVE  BarInv'
<1>1. isCustomBarHiden' \in [Bar!Tab -> BOOLEAN]
  BY DEF BarTypeOK
<1>2. Bar!Cardinality({t \in Bar!Tab : isCustomBarHiden'[t]})
         = One(isCustomBarHiden'[0]) + One(isCustomBarHiden'[1])
  BY <1>1, TwoFlags, SameCardinality
<1>3. DownOncePerFlag'
  BY <1>2 DEF BarDown, DownOncePerFlag, Bar!DownOncePerFlag
<1>. QED
  BY <1>3 DEF BarInv

\* A new CustomTabBarController has its bar up.
LEMMA NewBarIsSound ==
    ASSUME NewBar
    PROVE  BarInv'
<1>1. /\ isCustomBarHiden' = [t \in Bar!Tab |-> FALSE] /\ depth' = [t \in Bar!Tab |-> 0]
      /\ selectedIndex' = 0 /\ selectedItemIndex' = 0 /\ moved' = 0 /\ offset' = 0
      /\ clicked' = {} /\ hasty' = FALSE
  BY Tabs DEF NewBar
<1>2. /\ isCustomBarHiden' \in [Bar!Tab -> BOOLEAN]
      /\ \A t \in Bar!Tab : isCustomBarHiden'[t] = FALSE
      /\ depth' \in [Bar!Tab -> Nat]
  BY <1>1
<1>3. BarTypeOK'
  <2>1. selectedIndex' \in Bar!Tab
    BY <1>1, Tabs
  <2>2. offset' \in Int
    BY <1>1
  <2>3. hasty' \in BOOLEAN /\ clicked' \subseteq Bar!Tab
    BY <1>1
  <2>. QED
    BY <1>2, <2>1, <2>2, <2>3 DEF BarTypeOK
<1>4. BarDown'
  BY <1>1, <1>2, Tabs DEF BarDown, One
<1>5. IndicatorOnItem' /\ FlagsBelowScreens' /\ FlagsOfSelected'
  BY <1>1, <1>2 DEF IndicatorOnItem, FlagsBelowScreens, FlagsOfSelected
<1>. QED
  BY <1>3, <1>4, <1>5, BarInvAfter

\* An item is tapped only when the bar is up, hence when no flag is.
LEMMA ItemIsTapped ==
    ASSUME BarInv, NEW t \in Bar!Tab, Bar!TapItem(t)
    PROVE  BarInv'
<1>1. BarTypeOK /\ BarDown /\ IndicatorOnItem /\ FlagsBelowScreens
  BY BarInvFacts
<1>2. offset = 0 /\ clicked' = clicked \cup {t}
      /\ UNCHANGED <<selectedIndex, selectedItemIndex, moved, offset, isCustomBarHiden, depth, hasty>>
  BY DEF Bar!TapItem
<1>3. \A s \in Bar!Tab : ~ isCustomBarHiden[s]
  BY <1>1, <1>2, UpWithoutFlags
<1>4. BarTypeOK'
  BY <1>1, <1>2 DEF BarTypeOK
<1>5. BarDown' /\ IndicatorOnItem' /\ FlagsBelowScreens'
  BY <1>1, <1>2 DEF BarDown, IndicatorOnItem, FlagsBelowScreens
<1>6. FlagsOfSelected'
  BY <1>2, <1>3 DEF FlagsOfSelected
<1>. QED
  BY <1>4, <1>5, <1>6, BarInvAfter

\* No flag is up when a tab is selected, unless in haste.
LEMMA TabIsSelected ==
    ASSUME BarInv, NEW t \in Bar!Tab, Bar!ItemClicked(t)
    PROVE  BarInv'
<1>1. BarTypeOK /\ BarDown /\ IndicatorOnItem /\ FlagsBelowScreens /\ FlagsOfSelected
  BY BarInvFacts
<1>2. /\ t \in clicked /\ clicked' = clicked \ {t}
      /\ moved' = IF selectedItemIndex = t THEN moved
                  ELSE moved + (IF t = 1 THEN 1 ELSE -1)
      /\ selectedItemIndex' = t /\ selectedIndex' = t
      /\ UNCHANGED <<depth, hasty>>
  BY Tabs DEF Bar!ItemClicked
<1>3. /\ offset' \in Int /\ isCustomBarHiden' \in [Bar!Tab -> BOOLEAN]
      /\ BarDown'
      /\ \A s \in Bar!Tab : isCustomBarHiden'[s] => isCustomBarHiden[s]
  <2>1. CASE t # selectedIndex /\ depth[t] = 0
    <3>1. Bar!ViewWillAppear(t)
      BY <2>1 DEF Bar!ItemClicked
    <3>. QED
      BY <1>1, <3>1, Appears
  <2>2. CASE ~ (t # selectedIndex /\ depth[t] = 0)
    <3>1. UNCHANGED <<offset, isCustomBarHiden>>
      BY <2>2 DEF Bar!ItemClicked
    <3>. QED
      BY <1>1, <3>1 DEF BarTypeOK, BarDown
  <2>. QED
    BY <2>1, <2>2
<1>4. BarTypeOK'
  BY <1>1, <1>2, <1>3 DEF BarTypeOK
<1>5. IndicatorOnItem'
  <2>1. (t = 0 \/ t = 1) /\ (selectedIndex = 0 \/ selectedIndex = 1)
    BY <1>1, Tabs DEF BarTypeOK
  <2>2. moved = selectedIndex /\ selectedItemIndex = selectedIndex
    BY <1>1 DEF IndicatorOnItem
  <2>3. moved' = t
    BY <1>2, <2>1, <2>2
  <2>. QED
    BY <1>2, <2>3 DEF IndicatorOnItem
<1>6. FlagsBelowScreens'
  BY <1>1, <1>2, <1>3 DEF FlagsBelowScreens
<1>7. FlagsOfSelected'
  <2>1. ~ hasty => \A s \in Bar!Tab : ~ isCustomBarHiden[s]
    BY <1>1, <1>2 DEF FlagsOfSelected
  <2>. QED
    BY <1>2, <1>3, <2>1 DEF FlagsOfSelected
<1>. QED
  BY <1>3, <1>4, <1>5, <1>6, <1>7, BarInvAfter

\* The bar goes down, and the flag up.
LEMMA CoveringIsOpened ==
    ASSUME BarInv, Bar!OpenCovering
    PROVE  BarInv'
<1>1. BarTypeOK /\ BarDown /\ IndicatorOnItem /\ FlagsBelowScreens /\ FlagsOfSelected
  BY BarInvFacts
<1>2. /\ hasty' = (hasty \/ clicked # {})
      /\ ~ isCustomBarHiden[selectedIndex]
      /\ offset' = offset + 1
      /\ isCustomBarHiden' = [isCustomBarHiden EXCEPT ![selectedIndex] = TRUE]
      /\ depth' = [depth EXCEPT ![selectedIndex] = 1]
      /\ UNCHANGED <<selectedIndex, selectedItemIndex, moved, clicked>>
  BY DEF Bar!OpenCovering, Bar!Opens, Bar!bar
<1>3. /\ isCustomBarHiden' \in [Bar!Tab -> BOOLEAN] /\ depth' \in [Bar!Tab -> Nat]
      /\ isCustomBarHiden'[selectedIndex] = TRUE /\ depth'[selectedIndex] = 1
      /\ \A s \in Bar!Tab \ {selectedIndex} :
            isCustomBarHiden'[s] = isCustomBarHiden[s] /\ depth'[s] = depth[s]
  BY <1>1, <1>2 DEF BarTypeOK
<1>4. BarTypeOK'
  <2>1. offset' \in Int /\ hasty' \in BOOLEAN
    BY <1>1, <1>2 DEF BarTypeOK
  <2>. QED
    BY <1>1, <1>2, <1>3, <2>1 DEF BarTypeOK
<1>5. BarDown'
  <2>1. CASE selectedIndex = 0
    <3>1. isCustomBarHiden'[0] = TRUE /\ isCustomBarHiden'[1] = isCustomBarHiden[1]
          /\ ~ isCustomBarHiden[0]
      BY <1>2, <1>3, <2>1, Tabs
    <3>. QED
      BY <1>1, <1>2, <3>1 DEF BarDown, BarTypeOK, One
  <2>2. CASE selectedIndex = 1
    <3>1. isCustomBarHiden'[1] = TRUE /\ isCustomBarHiden'[0] = isCustomBarHiden[0]
          /\ ~ isCustomBarHiden[1]
      BY <1>2, <1>3, <2>2, Tabs
    <3>. QED
      BY <1>1, <1>2, <3>1 DEF BarDown, BarTypeOK, One
  <2>. QED
    BY <1>1, <2>1, <2>2, Tabs DEF BarTypeOK
<1>6. IndicatorOnItem'
  BY <1>1, <1>2 DEF IndicatorOnItem
<1>7. FlagsBelowScreens'
  BY <1>1, <1>3 DEF FlagsBelowScreens
<1>8. FlagsOfSelected'
  BY <1>1, <1>2, <1>3 DEF FlagsOfSelected
<1>. QED
  BY <1>4, <1>5, <1>6, <1>7, <1>8, BarInvAfter

\* A screen that leaves the bar where it is.
LEMMA PlainIsOpened ==
    ASSUME BarInv, Bar!OpenPlain
    PROVE  BarInv'
<1>1. BarTypeOK /\ BarDown /\ IndicatorOnItem /\ FlagsBelowScreens /\ FlagsOfSelected
  BY BarInvFacts
<1>2. /\ hasty' = (hasty \/ clicked # {})
      /\ depth' = [depth EXCEPT ![1] = @ + 1]
      /\ UNCHANGED <<selectedIndex, selectedItemIndex, moved, clicked, offset, isCustomBarHiden>>
  BY Tabs DEF Bar!OpenPlain, Bar!Opens, Bar!bar
<1>3. /\ depth' \in [Bar!Tab -> Nat] /\ depth'[1] # 0
      /\ \A s \in Bar!Tab \ {1} : depth'[s] = depth[s]
  BY <1>1, <1>2, Tabs DEF BarTypeOK
<1>4. BarTypeOK'
  <2>1. hasty' \in BOOLEAN
    BY <1>1, <1>2 DEF BarTypeOK
  <2>. QED
    BY <1>1, <1>2, <1>3, <2>1 DEF BarTypeOK
<1>5. BarDown' /\ IndicatorOnItem'
  BY <1>1, <1>2 DEF BarDown, IndicatorOnItem
<1>6. FlagsBelowScreens'
  BY <1>1, <1>2, <1>3 DEF FlagsBelowScreens
<1>7. FlagsOfSelected'
  BY <1>1, <1>2 DEF FlagsOfSelected
<1>. QED
  BY <1>4, <1>5, <1>6, <1>7, BarInvAfter

\* Back to the first screen takes its flag down.
LEMMA IsBack ==
    ASSUME BarInv, NEW d \in Nat, Bar!Back(d)
    PROVE  BarInv'
<1>1. BarTypeOK /\ BarDown /\ IndicatorOnItem /\ FlagsBelowScreens /\ FlagsOfSelected
  BY BarInvFacts
<1>2. /\ depth' = [depth EXCEPT ![selectedIndex] = d]
      /\ UNCHANGED <<selectedIndex, selectedItemIndex, moved, clicked, hasty>>
  BY DEF Bar!Back, Bar!bar
<1>3. /\ depth' \in [Bar!Tab -> Nat] /\ depth'[selectedIndex] = d
      /\ \A s \in Bar!Tab \ {selectedIndex} : depth'[s] = depth[s]
  BY <1>1, <1>2 DEF BarTypeOK
<1>4. /\ offset' \in Int /\ isCustomBarHiden' \in [Bar!Tab -> BOOLEAN]
      /\ BarDown'
      /\ \A s \in Bar!Tab : isCustomBarHiden'[s] =>
            isCustomBarHiden[s] /\ (d = 0 => s # selectedIndex)
  <2>1. CASE d = 0
    <3>1. Bar!ViewWillAppear(selectedIndex) /\ selectedIndex \in Bar!Tab
      BY <1>1, <2>1 DEF Bar!Back, BarTypeOK
    <3>. QED
      BY <1>1, <3>1, Appears
  <2>2. CASE d # 0
    <3>1. UNCHANGED <<offset, isCustomBarHiden>>
      BY <2>2 DEF Bar!Back
    <3>. QED
      BY <1>1, <2>2, <3>1 DEF BarTypeOK, BarDown
  <2>. QED
    BY <2>1, <2>2
<1>5. BarTypeOK'
  BY <1>1, <1>2, <1>3, <1>4 DEF BarTypeOK
<1>6. IndicatorOnItem'
  BY <1>1, <1>2 DEF IndicatorOnItem
<1>7. FlagsBelowScreens'
  BY <1>1, <1>3, <1>4 DEF FlagsBelowScreens
<1>8. FlagsOfSelected'
  BY <1>1, <1>2, <1>4 DEF FlagsOfSelected
<1>. QED
  BY <1>4, <1>5, <1>6, <1>7, <1>8, BarInvAfter

\* viewWillAppear without going back: the flag goes down early.
LEMMA BackIsGivenUp ==
    ASSUME BarInv, Bar!BackGivenUp
    PROVE  BarInv'
<1>1. BarTypeOK /\ BarDown /\ IndicatorOnItem /\ FlagsBelowScreens /\ FlagsOfSelected
  BY BarInvFacts
<1>2. /\ Bar!ViewWillAppear(selectedIndex)
      /\ UNCHANGED <<selectedIndex, selectedItemIndex, moved, clicked, depth, hasty>>
  BY DEF Bar!BackGivenUp, Bar!bar
<1>3. /\ offset' \in Int /\ isCustomBarHiden' \in [Bar!Tab -> BOOLEAN]
      /\ BarDown'
      /\ \A s \in Bar!Tab : isCustomBarHiden'[s] => isCustomBarHiden[s]
  <2>1. selectedIndex \in Bar!Tab
    BY <1>1 DEF BarTypeOK
  <2>. QED
    BY <1>1, <1>2, <2>1, Appears
<1>4. BarTypeOK'
  BY <1>1, <1>2, <1>3 DEF BarTypeOK
<1>5. IndicatorOnItem' /\ FlagsBelowScreens' /\ FlagsOfSelected'
  BY <1>1, <1>2, <1>3 DEF IndicatorOnItem, FlagsBelowScreens, FlagsOfSelected
<1>. QED
  BY <1>3, <1>4, <1>5, BarInvAfter

\* Steps of the session behind the screens leave the bar alone.
LEMMA BarStays ==
    ASSUME BarInv, UNCHANGED barVars
    PROVE  BarInv'
<1>1. BarTypeOK /\ BarDown /\ IndicatorOnItem /\ FlagsBelowScreens /\ FlagsOfSelected
  BY BarInvFacts
<1>2. UNCHANGED <<selectedIndex, selectedItemIndex, moved, offset, isCustomBarHiden,
                  depth, clicked, hasty>>
  BY DEF barVars
<1>3. BarTypeOK' /\ BarDown' /\ IndicatorOnItem' /\ FlagsBelowScreens' /\ FlagsOfSelected'
  BY <1>1, <1>2 DEF BarTypeOK, BarDown, IndicatorOnItem, FlagsBelowScreens, FlagsOfSelected
<1>. QED
  BY <1>3, BarInvAfter

\* What the invariant says of the bar.
LEMMA BarInvMeans == BarInv => DownOncePerFlag /\ BarOnFirstScreens
<1>. SUFFICES ASSUME BarInv PROVE BarOnFirstScreens
  BY DEF BarInv
<1>1. BarTypeOK /\ BarDown /\ IndicatorOnItem /\ FlagsBelowScreens /\ FlagsOfSelected
  BY BarInvFacts
<1>2. ASSUME ~ hasty, depth[selectedIndex] = 0
      PROVE  offset = 0 /\ \A t \in Bar!Tab : ~ isCustomBarHiden[t]
  <2>1. \A t \in Bar!Tab : ~ isCustomBarHiden[t]
    BY <1>1, <1>2 DEF FlagsBelowScreens, FlagsOfSelected
  <2>. QED
    BY <1>1, <2>1, UpWithoutFlags
<1>3. selectedIndex \in Bar!Tab
  BY <1>1 DEF BarTypeOK
<1>. QED
  BY <1>1, <1>2, <1>3 DEF BarOnFirstScreens, Bar!BarOnFirstScreens, IndicatorOnItem

-----------------------------------------------------------------------------
(***************************************************************************)
(* The screens.                                                            *)
(***************************************************************************)

\* The invariant holds at the start.
LEMMA ScreensInvInit == ScreensInit => ScreensInv
<1>. SUFFICES ASSUME ScreensInit PROVE ScreensInv
  OBVIOUS
<1>1. SessionInv
  BY SessionInvInit DEF ScreensInit
<1>2. /\ isCustomBarHiden = [t \in Bar!Tab |-> FALSE] /\ depth = [t \in Bar!Tab |-> 0]
      /\ selectedIndex = 0 /\ selectedItemIndex = 0 /\ moved = 0 /\ offset = 0
      /\ clicked = {} /\ hasty = FALSE
  BY Tabs DEF ScreensInit, Bar!Init
<1>3. \A t \in Bar!Tab : isCustomBarHiden[t] = FALSE
  BY <1>2
<1>4. BarTypeOK
  <2>1. isCustomBarHiden \in [Bar!Tab -> BOOLEAN] /\ depth \in [Bar!Tab -> Nat]
    BY <1>2
  <2>2. selectedIndex \in Bar!Tab
    BY <1>2, Tabs
  <2>3. offset \in Int
    BY <1>2
  <2>. QED
    BY <1>2, <2>1, <2>2, <2>3 DEF BarTypeOK
<1>5. BarDown
  BY <1>2, <1>3, Tabs DEF BarDown, One
<1>6. IndicatorOnItem /\ FlagsBelowScreens /\ FlagsOfSelected
  BY <1>2, <1>3 DEF IndicatorOnItem, FlagsBelowScreens, FlagsOfSelected
<1>. QED
  BY <1>1, <1>4, <1>5, <1>6, BarInvFacts DEF ScreensInv

\* Behind every step of the screens is one of the session, or none.
LEMMA ScreensStepIsSessionStep == [ScreensNext]_screensVars => [Next]_vars
<1>. SUFFICES ASSUME [ScreensNext]_screensVars PROVE [Next]_vars
  OBVIOUS
<1>1. CASE UNCHANGED screensVars
  BY <1>1 DEF screensVars
<1>2. CASE (Replaces \/ Exit) /\ NewBar
  BY <1>2 DEF Replaces, Exit, Next
<1>3. CASE Stays /\ UNCHANGED barVars
  BY <1>3 DEF Stays, Next
<1>4. CASE root = "tabs" /\ SelectTab
  BY <1>4 DEF SelectTab, Next
<1>5. CASE root = "tabs" /\ InTabs /\ UNCHANGED vars
  BY <1>5
<1>. QED
  BY <1>1, <1>2, <1>3, <1>4, <1>5 DEF ScreensNext

\* Every step of the screens keeps the invariant of the bar.
LEMMA BarInvNext == BarInv /\ [ScreensNext]_screensVars => BarInv'
<1>. SUFFICES ASSUME BarInv, [ScreensNext]_screensVars PROVE BarInv'
  OBVIOUS
<1>1. CASE UNCHANGED screensVars
  BY <1>1, BarStays DEF screensVars
<1>2. CASE (Replaces \/ Exit) /\ NewBar
  BY <1>2, NewBarIsSound
<1>3. CASE Stays /\ UNCHANGED barVars
  BY <1>3, BarStays
<1>4. CASE root = "tabs" /\ SelectTab
  BY <1>4, TabIsSelected DEF SelectTab
<1>5. CASE root = "tabs" /\ InTabs /\ UNCHANGED vars
  <2>1. CASE \E t \in Bar!Tab : Bar!TapItem(t)
    BY <2>1, ItemIsTapped
  <2>2. CASE \E d \in 0..MaxDepth : Bar!Back(d)
    <3>1. PICK d \in 0..MaxDepth : Bar!Back(d)
      BY <2>2
    <3>2. d \in Nat
      OBVIOUS
    <3>. QED
      BY <3>1, <3>2, IsBack
  <2>. QED
    BY <1>5, <2>1, <2>2, CoveringIsOpened, PlainIsOpened, BackIsGivenUp DEF InTabs
<1>. QED
  BY <1>1, <1>2, <1>3, <1>4, <1>5 DEF ScreensNext

\* Every step of the screens keeps both invariants.
LEMMA ScreensInvNext == ScreensInv /\ [ScreensNext]_screensVars => ScreensInv'
BY SessionInvNext, BarInvNext, ScreensStepIsSessionStep DEF ScreensInv

\* A sign-in's completions and the taps on the screens, in whatever order, keep
\* what the session and the bar rest on: who Auth's user is while completions are
\* on the main queue (tapLoginButton), and that every flag that is up has taken
\* the bar down once, below a screen that covers it (hideCustomBarFromProfile).
THEOREM ScreensInvariant == ScreensSpec => []ScreensInv
<1>1. ScreensSpec => ScreensInit /\ [][ScreensNext]_screensVars
  BY PTL DEF ScreensSpec
<1>. QED
  BY <1>1, ScreensInvInit, ScreensInvNext, PTL

\* The screens do to the session nothing that Session does not allow: taps, tabs
\* and navigation only choose among its steps (setupMainViewController,
\* tapExitButton), so that all it keeps by itself it keeps behind the screens.
THEOREM ScreensImplementSession == ScreensSpec => Spec
<1>1. ScreensSpec => Init /\ [][ScreensNext]_screensVars
  BY PTL DEF ScreensSpec, ScreensInit
<1>. QED
  BY <1>1, ScreensStepIsSessionStep, PTL DEF Spec

\* For any number of users, sign-ins and launches, all that is on screen belongs
\* to the stored user, and the login screen is there exactly if there is none
\* (tapLoginButton, tapExitButton, setupMainViewController).
THEOREM ScreensShowTheStored == ScreensSpec => []ShownIsStored
BY ScreensInvariant, SessionInvMeans, PTL DEF ScreensInv

\* For any number of users, sign-ins and launches, Auth's user is the one on
\* screen or the last of those who are about to be, until the process ends
\* between a sign-in and its completion (signInWithEmail, tapLoginButton).
THEOREM CredentialsAreOfTheStored == ScreensSpec => []CredentialsOfStored
BY ScreensInvariant, SessionInvMeans, PTL DEF ScreensInv

\* For stacks of any depth, the bar is down once for every flag that is up
\* (hideCustomBarFromProfile, showCustomBarFromCompetitions).
THEOREM BarIsDownOncePerFlag == ScreensSpec => []DownOncePerFlag
BY ScreensInvariant, BarInvMeans, PTL DEF ScreensInv

\* For stacks of any depth, a first screen has its bar and its indicator, unless
\* a screen was opened while an item was animated (viewWillAppear, itemClicked).
THEOREM FirstScreensHaveTheirBar == ScreensSpec => []BarOnFirstScreens
BY ScreensInvariant, BarInvMeans, PTL DEF ScreensInv

=============================================================================
