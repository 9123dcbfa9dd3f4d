----------------------------- MODULE WriteQueue -----------------------------
(***************************************************************************)
(* What the app may rely on when it calls setData, updateData or           *)
(* deleteDocument: the queue of writes that every user of a device has in  *)
(* the Firestore SDK, seen from outside.  WritePipeline implements it.     *)
(*                                                                         *)
(* The server works ahead of the answers: `ahead' is how many of the first *)
(* writes of a queue it has applied on the present connection.  When the   *)
(* connection ends it starts again with the first write of the queue.      *)
(***************************************************************************)
EXTENDS Naturals, Sequences

CONSTANTS
    User,        \* who signs in on the device
    MaxWrites    \* bound: writes in a behaviour

VARIABLES
    made,      \* how many writes have been made
    queue,     \* user -> the writes not yet answered, the oldest first
    ahead,     \* user -> how many of them are applied, on this connection
    applied,   \* the history of the server
    accepted,  \* writes that left their queue because the server took them
    refused,   \* writes that left their queue because of an error
    awaited,   \* writes with a completion handler of the running process
    told       \* what completion handlers have been told

vars == <<made, queue, ahead, applied, accepted, refused, awaited, told>>

\* Writes are numbered as they are made.
Write == [by : User, n : Nat \ {0}]

TypeOK ==
    /\ made \in Nat
    /\ queue \in [User -> Seq(Write)]
    /\ ahead \in [User -> Nat]
    /\ applied \in Seq(Write)
    /\ accepted \subseteq Write
    /\ refused \subseteq Write
    /\ awaited \subseteq Write
    /\ told \subseteq Write \X {"ok", "error"}

Init ==
    /\ made = 0
    /\ queue = [u \in User |-> <<>>]
    /\ ahead = [u \in User |-> 0]
    /\ applied = <<>>
    /\ accepted = {} /\ refused = {}
    /\ awaited = {} /\ told = {}

\* A write of u; its completion handler waits for the answer.
Enqueue(u) ==
    LET w == [by |-> u, n |-> made + 1]
    IN  /\ made < MaxWrites
        /\ made' = made + 1
        /\ queue' = [queue EXCEPT ![u] = Append(@, w)]
        /\ awaited' = awaited \cup {w}
        /\ UNCHANGED <<ahead, applied, accepted, refused, told>>

\* The server applies the next write of u.
Apply(u) ==
    /\ ahead[u] < Len(queue[u])
    /\ applied' = Append(applied, queue[u][ahead[u] + 1])
    /\ ahead' = [ahead EXCEPT ![u] = @ + 1]
    /\ UNCHANGED <<made, queue, accepted, refused, awaited, told>>

\* The first write of u leaves the queue; its handler, if there is one, is told.
Answer(u, answer) ==
    LET w == Head(queue[u])
    IN  /\ queue' = [queue EXCEPT ![u] = Tail(@)]
        /\ told' = IF w \in awaited THEN told \cup {<<w, answer>>} ELSE told
        /\ awaited' = awaited \ {w}

\* The server's answer to the first write.
Accept(u) ==
    /\ ahead[u] > 0
    /\ Answer(u, "ok")
    /\ ahead' = [ahead EXCEPT ![u] = @ - 1]
    /\ accepted' = accepted \cup {Head(queue[u])}
    /\ UNCHANGED <<made, applied, refused>>

\* An error that sending again does not mend ends the connection, too.
Refuse(u) ==
    /\ queue[u] # <<>>
    /\ Answer(u, "error")
    /\ ahead' = [ahead EXCEPT ![u] = 0]
    /\ refused' = refused \cup {Head(queue[u])}
    /\ UNCHANGED <<made, applied, accepted>>

\* The connection ends, for whatever reason.
Reconnect(u) ==
    /\ ahead' = [ahead EXCEPT ![u] = 0]
    /\ UNCHANGED <<made, queue, applied, accepted, refused, awaited, told>>

\* So does the process, and its handlers with it.
Restart ==
    /\ ahead' = [u \in User |-> 0]
    /\ awaited' = {}
    /\ UNCHANGED <<made, queue, applied, accepted, refused, told>>

Next ==
    \/ \E u \in User :
          \/ Enqueue(u) \/ Apply(u)
          \/ Accept(u) \/ Refuse(u) \/ Reconnect(u)
    \/ Restart

Spec == Init /\ [][Next]_vars

-----------------------------------------------------------------------------
(***************************************************************************)
(* Properties.                                                             *)
(***************************************************************************)

InQueue(w) == \E i \in DOMAIN queue[w.by] : queue[w.by][i] = w

\* A write is applied only when every earlier write of its user has been
\* applied before it, or refused.
FirstsInOrder ==
    \A j \in DOMAIN applied : \A m \in 1..applied[j].n :
        LET w == [by |-> applied[j].by, n |-> m]
        IN  InQueue(w) => \E i \in 1..j : applied[i] = w

\* The last word is in the order of the writes: one that was applied after a
\* later one of its user has the later one repeated behind it, or still waiting
\* to be, unless that was refused.
LastsInOrder ==
    \A i, j \in DOMAIN applied :
        /\ i < j
        /\ applied[i].by = applied[j].by
        /\ applied[i].n > applied[j].n
        => \/ \E k \in j..Len(applied) : applied[k] = applied[i]
           \/ InQueue(applied[i])
           \/ applied[i] \in refused

\* Every write is waiting, taken by the server or refused, and just one of them;
\* one that was taken has been applied.
NothingLost ==
    /\ accepted \cap refused = {}
    /\ \A w \in accepted \cup refused : ~ InQueue(w)
    /\ \A n \in 1..made : \E u \in User :
          LET w == [by |-> u, n |-> n]
          IN  InQueue(w) \/ w \in accepted \cup refused
    /\ \A w \in accepted : \E i \in DOMAIN applied : applied[i] = w

\* A completion handler hears what became of its own write, and once.
ToldTheTruth ==
    /\ \A t \in told : t[1] \in (IF t[2] = "ok" THEN accepted ELSE refused)
    /\ \A t \in told : t[1] \notin awaited

=============================================================================
