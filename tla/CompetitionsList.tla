-------------------------- MODULE CompetitionsList --------------------------
(***************************************************************************)
(* The list of a user's competitions: the collection listener of Database, *)
(* the relay competitionsDatabase and CompetitionsViewController.          *)
(*                                                                         *)
(* Firestore calls the listener with the documents it has in its cache, if *)
(* there are any, and then with every result it gets from the server; what *)
(* it skips and repeats is not of interest here.  Other devices create and *)
(* change competitions; nothing in the app takes one away from a user.     *)
(* getUserData is left out: its answer goes to an empty completion.        *)
(***************************************************************************)
EXTENDS Naturals, Sequences, FiniteSets, SequencesExt

CONSTANTS
    Id,            \* competitions
    Unreadable,    \* those JSONDecoder cannot decode
    MaxDay,        \* bound: days on which competitions are made
    MaxChanges,    \* bound: competitions made, and changes of one
    MaxRelaunches, \* bound: ends of the process
    nothing        \* no snapshot

ASSUME ListAssumption == Unreadable \subseteq Id /\ MaxDay \in Nat

VARIABLES
    server,     \* the user's competitions in the collection
    cache,      \* those Firestore keeps on the device
    raised,     \* the result the listener was called with last
    posted,     \* calls of the listener that wait in the main queue
    list,       \* CompetitionsViewController.competitions
    loading,    \* the animation runs
    changes, relaunches

listVars == <<server, cache, raised, posted, list, loading, changes, relaunches>>

Document == [id : Id, date : Nat, results : Nat]

ListTypeOK ==
    /\ server \subseteq Document /\ cache \subseteq Document
    /\ raised = nothing \/ raised \subseteq Document
    /\ posted \in Seq(SUBSET Document)
    /\ list \in Seq(Document)
    /\ loading \in BOOLEAN
    /\ changes \in Nat /\ relaunches \in Nat

ListInit ==
    /\ server = {} /\ cache = {}
    /\ raised = nothing /\ posted = <<>>
    /\ list = <<>> /\ loading = TRUE
    /\ changes = 0 /\ relaunches = 0

-----------------------------------------------------------------------------
\* Any order by date, the newest first: sorted does not promise to be stable.
Sorted(docs) ==
    {s \in SetToSeqs(docs) :
        \A i, j \in DOMAIN s : i < j => s[i].date >= s[j].date}

Readable(docs) == {d \in docs : d.id \notin Unreadable}

app == <<list, loading, relaunches>>

\* Another device makes a competition with this user, or changes one.
Create(i, date) ==
    /\ changes < MaxChanges
    /\ \A d \in server : d.id # i
    /\ server' = server \cup {[id |-> i, date |-> date, results |-> 0]}
    /\ changes' = changes + 1
    /\ UNCHANGED <<cache, raised, posted, app>>

Change(d) ==
    /\ changes < MaxChanges
    /\ server' = (server \ {d}) \cup {[d EXCEPT !.results = @ + 1]}
    /\ changes' = changes + 1
    /\ UNCHANGED <<cache, raised, posted, app>>

\* The first call is made with what is in the cache (also with nothing, if the
\* device is offline), or with the first result of the server.
RaiseInitial ==
    /\ raised = nothing
    /\ raised' \in {cache, server}
    /\ cache' = raised'
    /\ posted' = Append(posted, raised')
    /\ UNCHANGED <<server, changes, app>>

RaiseChanges ==
    /\ raised \notin {nothing, server}
    /\ raised' = server
    /\ cache' = server
    /\ posted' = Append(posted, server)
    /\ UNCHANGED <<server, changes, app>>

\* Wrong: the competitions of the snapshot before are still in the array.
SnapshotListener_Appends ==
    /\ posted # <<>>
    /\ posted' = Tail(posted)
    /\ IF Head(posted) = {} THEN UNCHANGED <<list, loading>>
       ELSE list' \in Sorted(Readable(Head(posted)) \cup ToSet(list)) /\ loading' = FALSE
    /\ UNCHANGED <<server, cache, raised, changes, relaunches>>

\* Wrong: the result is read once, as getDocuments does.
SnapshotListener_Once ==
    /\ posted # <<>>
    /\ posted' = Tail(posted)
    /\ IF Head(posted) = {} \/ ~ loading THEN UNCHANGED <<list, loading>>
       ELSE list' \in Sorted(Readable(Head(posted))) /\ loading' = FALSE
    /\ UNCHANGED <<server, cache, raised, changes, relaunches>>

\* The closure of addListenerToCompetitionCollection and the observer of the
\* relay.  A result without documents is not handed on; one whose documents
\* cannot be decoded is, as an empty list.
SnapshotListener ==
    /\ posted # <<>>
    /\ posted' = Tail(posted)
    /\ IF Head(posted) = {} THEN UNCHANGED <<list, loading>>
       ELSE list' \in Sorted(Readable(Head(posted))) /\ loading' = FALSE
    /\ UNCHANGED <<server, cache, raised, changes, relaunches>>

\* The process ends, and the screen is loaded again.
RelaunchList ==
    /\ relaunches < MaxRelaunches
    /\ relaunches' = relaunches + 1
    /\ raised' = nothing /\ posted' = <<>>
    /\ list' = <<>> /\ loading' = TRUE
    /\ UNCHANGED <<server, cache, changes>>

-----------------------------------------------------------------------------
Raise == RaiseInitial \/ RaiseChanges

ListNext ==
    \/ \E i \in Id, date \in 1..MaxDay : Create(i, date)
    \/ \E d \in server : Change(d)
    \/ Raise \/ SnapshotListener \/ RelaunchList

ListSpec == ListInit /\ [][ListNext]_listVars

\* Firestore raises what it has got, and the main queue runs.
ListFairSpec ==
    /\ ListSpec
    /\ WF_listVars(Raise) /\ WF_listVars(SnapshotListener)

-----------------------------------------------------------------------------
(***************************************************************************)
(* Properties.                                                             *)
(***************************************************************************)

\* When nothing waits in the main queue, the list is the last result, each
\* competition once, the newest first, though the closure reuses one array for
\* all results and leaves out empty ones (addListenerToCompetitionCollection).
ListIsLastResult ==
    posted = <<>> /\ raised # nothing => list \in Sorted(Readable(raised))

\* The list gets to what the server has, whatever the cache had and however
\* often the app was started, and the animation ends if there is anything.
CatchesUp ==
    <>[](/\ list \in Sorted(Readable(server))
         /\ server # {} => ~ loading)

=============================================================================
