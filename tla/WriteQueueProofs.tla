-------------------------- MODULE WriteQueueProofs --------------------------
(***************************************************************************)
(* The queue of writes for any number of users and writes.                 *)
(*                                                                         *)
(* The order of the history rests on two facts that no single step sees: a *)
(* queue is in the order of the writes and behind everything answered, and *)
(* what the server has done on this connection is the front of the queue.  *)
(***************************************************************************)
EXTENDS WriteQueue, SequenceTheorems, TLAPS

IsApplied(w) == \E k \in DOMAIN applied : applied[k] = w

\* A queue is its user's, in the order of the writes.
QueuesOrdered ==
    \A u \in User :
        /\ \A i \in DOMAIN queue[u] : queue[u][i].by = u /\ queue[u][i].n <= made
        /\ \A i, j \in DOMAIN queue[u] : i < j => queue[u][i].n < queue[u][j].n

\* What has been answered comes before all that waits.
AnsweredFirst ==
    \A w \in accepted \cup refused :
        /\ w.n <= made
        /\ \A i \in DOMAIN queue[w.by] : w.n < queue[w.by][i].n

\* The server has done the front of the queue.
FrontApplied ==
    \A u \in User :
        /\ ahead[u] <= Len(queue[u])
        /\ \A i \in 1..ahead[u] : IsApplied(queue[u][i])

AppliedKnown ==
    \A k \in DOMAIN applied :
        /\ applied[k].n <= made
        /\ InQueue(applied[k]) \/ applied[k] \in accepted \cup refused

\* The server has yet to come to w on this connection.
StillToCome(w) ==
    \E i \in DOMAIN queue[w.by] : queue[w.by][i] = w /\ i > ahead[w.by]

\* Of two writes in the wrong order the later one is repeated.
Repeated(i, j) ==
    \/ \E k \in DOMAIN applied : k >= j /\ applied[k] = applied[i]
    \/ StillToCome(applied[i])
    \/ applied[i] \in refused

InversionsMended ==
    \A i, j \in DOMAIN applied :
        i < j /\ applied[i].by = applied[j].by /\ applied[i].n > applied[j].n
            => Repeated(i, j)

HandlersWait == \A w \in awaited : InQueue(w)

AnswersTold ==
    \A t \in told : t[1] \in (IF t[2] = "ok" THEN accepted ELSE refused)

Orders == QueuesOrdered /\ AnsweredFirst /\ FrontApplied /\ AppliedKnown

WriteQueueInv ==
    /\ TypeOK /\ Orders
    /\ FirstsInOrder /\ InversionsMended
    /\ NothingLost
    /\ HandlersWait /\ AnswersTold

-----------------------------------------------------------------------------
\* A write that is longer or shorter than it should be is none.
LEMMA WriteFields ==
    ASSUME NEW w \in Write
    PROVE  w.by \in User /\ w.n \in Nat \ {0} /\ w = [by |-> w.by, n |-> w.n]
BY DEF Write

\* The elements of a queue.
LEMMA QueueFacts ==
    ASSUME TypeOK, NEW u \in User
    PROVE  /\ queue[u] \in Seq(Write) /\ Len(queue[u]) \in Nat
           /\ DOMAIN queue[u] = 1..Len(queue[u])
           /\ \A i \in DOMAIN queue[u] : queue[u][i] \in Write
           /\ ahead[u] \in Nat /\ made \in Nat
BY LenProperties, ElementOfSeq DEF TypeOK

\* The elements of the history.
LEMMA AppliedFacts ==
    ASSUME TypeOK
    PROVE  /\ Len(applied) \in Nat /\ DOMAIN applied = 1..Len(applied)
           /\ \A k \in DOMAIN applied : applied[k] \in Write
BY LenProperties, ElementOfSeq DEF TypeOK

\* The first write leaves its queue: the others move up by one.
LEMMA FirstLeaves ==
    ASSUME TypeOK, NEW u \in User, queue[u] # <<>>,
           queue' = [queue EXCEPT ![u] = Tail(@)]
    PROVE  /\ queue' \in [User -> Seq(Write)]
           /\ Len(queue[u]) > 0 /\ Head(queue[u]) = queue[u][1] /\ 1 \in DOMAIN queue[u]
           /\ Len(queue'[u]) = Len(queue[u]) - 1
           /\ DOMAIN queue'[u] = 1..(Len(queue[u]) - 1)
           /\ \A i \in DOMAIN queue'[u] : i + 1 \in DOMAIN queue[u]
                                          /\ queue'[u][i] = queue[u][i + 1]
           /\ \A i \in DOMAIN queue[u] : i # 1 => i - 1 \in DOMAIN queue'[u]
                                          /\ queue'[u][i - 1] = queue[u][i]
           /\ \A v \in User \ {u} : queue'[v] = queue[v]
<1>1. queue[u] \in Seq(Write) /\ queue'[u] = Tail(queue[u])
  BY DEF TypeOK
<1>2. /\ Tail(queue[u]) \in Seq(Write)
      /\ Len(Tail(queue[u])) = Len(queue[u]) - 1
      /\ \A i \in 1..(Len(queue[u]) - 1) : Tail(queue[u])[i] = queue[u][i + 1]
      /\ Len(queue[u]) > 0 /\ Head(queue[u]) = queue[u][1]
  BY <1>1, HeadTailProperties, EmptySeq, LenProperties
<1>3. Len(queue[u]) \in Nat /\ DOMAIN queue[u] = 1..Len(queue[u])
  BY QueueFacts
<1>4. DOMAIN queue'[u] = 1..(Len(queue[u]) - 1)
  BY <1>1, <1>2, LenProperties
<1>5. queue' \in [User -> Seq(Write)]
  BY <1>2 DEF TypeOK
<1>6. \A v \in User \ {u} : queue'[v] = queue[v]
  BY DEF TypeOK
<1>. HIDE DEF TypeOK
<1>7. \A i \in DOMAIN queue'[u] : i + 1 \in DOMAIN queue[u] /\ queue'[u][i] = queue[u][i + 1]
  BY <1>1, <1>2, <1>3, <1>4
<1>8. \A i \in DOMAIN queue[u] : i # 1 => i - 1 \in DOMAIN queue'[u]
                                          /\ queue'[u][i - 1] = queue[u][i]
  <2>. SUFFICES ASSUME NEW i \in DOMAIN queue[u], i # 1
                PROVE  i - 1 \in DOMAIN queue'[u] /\ queue'[u][i - 1] = queue[u][i]
    OBVIOUS
  <2>1. i - 1 \in 1..(Len(queue[u]) - 1) /\ (i - 1) + 1 = i
    BY <1>3
  <2>. QED
    BY <1>1, <1>2, <1>4, <2>1
<1>. QED
  BY <1>1, <1>2, <1>3, <1>4, <1>5, <1>6, <1>7, <1>8

\* One write more waits, behind the others.
LEMMA OneMoreWaits ==
    ASSUME TypeOK, NEW u \in User, Enqueue(u)
    PROVE  LET w == [by |-> u, n |-> made + 1]
           IN  /\ w \in Write
               /\ queue' \in [User -> Seq(Write)]
               /\ DOMAIN queue'[u] = 1..(Len(queue[u]) + 1)
               /\ Len(queue'[u]) = Len(queue[u]) + 1
               /\ \A i \in DOMAIN queue[u] : queue'[u][i] = queue[u][i]
               /\ queue'[u][Len(queue[u]) + 1] = w
               /\ \A v \in User \ {u} : queue'[v] = queue[v]
<1>. DEFINE w == [by |-> u, n |-> made + 1]
<1>1. w \in Write
  BY DEF TypeOK, Write
<1>2. queue' = [queue EXCEPT ![u] = Append(queue[u], w)] /\ queue[u] \in Seq(Write)
  BY DEF Enqueue, TypeOK
<1>. HIDE DEF w
<1>3. /\ Append(queue[u], w) \in Seq(Write)
      /\ Len(Append(queue[u], w)) = Len(queue[u]) + 1
      /\ \A i \in 1..Len(queue[u]) : Append(queue[u], w)[i] = queue[u][i]
      /\ Append(queue[u], w)[Len(queue[u]) + 1] = w
  BY <1>1, <1>2, AppendProperties
<1>4. queue'[u] = Append(queue[u], w) /\ queue' \in [User -> Seq(Write)]
      /\ \A v \in User \ {u} : queue'[v] = queue[v]
  BY <1>2, <1>3 DEF TypeOK
<1>5. DOMAIN queue'[u] = 1..(Len(queue[u]) + 1)
  BY <1>3, <1>4, LenProperties
<1>. QED
  BY <1>1, <1>3, <1>4, <1>5, QueueFacts DEF w

\* What the server does goes behind the history.
LEMMA OneMoreApplied ==
    ASSUME TypeOK, NEW u \in User, Apply(u)
    PROVE  LET w == queue[u][ahead[u] + 1]
           IN  /\ ahead[u] + 1 \in DOMAIN queue[u]
               /\ w \in Write
               /\ applied' \in Seq(Write)
               /\ DOMAIN applied' = 1..(Len(applied) + 1)
               /\ Len(applied') = Len(applied) + 1
               /\ \A k \in DOMAIN applied : applied'[k] = applied[k]
               /\ applied'[Len(applied) + 1] = w
<1>. DEFINE w == queue[u][ahead[u] + 1]
<1>1. ahead[u] + 1 \in DOMAIN queue[u] /\ w \in Write
  <2>1. ahead[u] < Len(queue[u])
    BY DEF Apply
  <2>2. ahead[u] + 1 \in DOMAIN queue[u]
    BY <2>1, QueueFacts
  <2>. QED
    BY <2>2, QueueFacts
<1>2. applied' = Append(applied, w) /\ applied \in Seq(Write)
  BY DEF Apply, TypeOK
<1>. HIDE DEF w
<1>3. /\ Append(applied, w) \in Seq(Write)
      /\ Len(Append(applied, w)) = Len(applied) + 1
      /\ \A i \in 1..Len(applied) : Append(applied, w)[i] = applied[i]
      /\ Append(applied, w)[Len(applied) + 1] = w
  BY <1>1, <1>2, AppendProperties
<1>4. DOMAIN applied' = 1..(Len(applied) + 1)
  BY <1>2, <1>3, LenProperties
<1>. QED
  BY <1>1, <1>2, <1>3, <1>4, AppliedFacts DEF w

-----------------------------------------------------------------------------
\* A write that waits goes on waiting when another is made.
LEMMA StaysInQueue ==
    ASSUME TypeOK, NEW u \in User, Enqueue(u), NEW x, x.by \in User
    PROVE  /\ InQueue(x) => InQueue(x)'
           /\ InQueue(x)' => InQueue(x) \/ x = [by |-> u, n |-> made + 1]
<1>. DEFINE w == [by |-> u, n |-> made + 1]
<1>1. Len(queue[u]) \in Nat /\ DOMAIN queue[u] = 1..Len(queue[u])
      /\ DOMAIN queue'[u] = 1..(Len(queue[u]) + 1)
  BY OneMoreWaits, QueueFacts
<1>2. /\ \A i \in DOMAIN queue[u] : i \in DOMAIN queue'[u] /\ queue'[u][i] = queue[u][i]
      /\ \A i \in DOMAIN queue'[u] : i \in DOMAIN queue[u] \/ queue'[u][i] = w
  BY <1>1, OneMoreWaits
<1>3. \A v \in User \ {u} : queue'[v] = queue[v]
  BY OneMoreWaits
<1>. HIDE DEF w
<1>4. CASE x.by # u
  BY <1>3, <1>4 DEF InQueue
<1>5. CASE x.by = u
  BY <1>2, <1>5 DEF InQueue, w
<1>. QED
  BY <1>4, <1>5

\* The server is ahead of the answers only while a write waits.
LEMMA FirstAsked ==
    ASSUME TypeOK, FrontApplied, NEW u \in User, ahead[u] > 0
    PROVE  queue[u] # <<>>
<1>1. Len(queue[u]) > 0
  BY QueueFacts DEF FrontApplied
<1>. QED
  BY <1>1, LenProperties, QueueFacts, EmptySeq

\* Every step keeps the types.
LEMMA TypeStep ==
    ASSUME TypeOK, FrontApplied, [Next]_vars
    PROVE  TypeOK'
<1>1. ASSUME NEW u \in User, Enqueue(u) PROVE TypeOK'
  <2>1. queue' \in [User -> Seq(Write)] /\ [by |-> u, n |-> made + 1] \in Write
    BY <1>1, OneMoreWaits
  <2>. QED
    BY <1>1, <2>1 DEF TypeOK, Enqueue
<1>2. ASSUME NEW u \in User, Apply(u) PROVE TypeOK'
  <2>1. applied' \in Seq(Write)
    BY <1>2, OneMoreApplied
  <2>2. ahead' \in [User -> Nat]
    BY <1>2 DEF Apply, TypeOK
  <2>. QED
    BY <1>2, <2>1, <2>2 DEF TypeOK, Apply
<1>3. ASSUME NEW u \in User, NEW a \in {"ok", "error"}, queue[u] # <<>>, Answer(u, a)
      PROVE  /\ queue' \in [User -> Seq(Write)] /\ awaited' \subseteq Write
             /\ told' \subseteq Write \X {"ok", "error"} /\ Head(queue[u]) \in Write
  <2>1. queue' \in [User -> Seq(Write)] /\ Head(queue[u]) = queue[u][1]
        /\ 1 \in DOMAIN queue[u]
    BY <1>3, FirstLeaves DEF Answer
  <2>2. Head(queue[u]) \in Write
    BY <2>1, QueueFacts
  <2>. QED
    BY <1>3, <2>1, <2>2 DEF Answer, TypeOK
<1>4. ASSUME NEW u \in User, Accept(u) PROVE TypeOK'
  <2>1. queue[u] # <<>>
    BY <1>4, FirstAsked DEF Accept
  <2>2. Answer(u, "ok")
    BY <1>4 DEF Accept
  <2>3. /\ queue' \in [User -> Seq(Write)] /\ awaited' \subseteq Write
        /\ told' \subseteq Write \X {"ok", "error"} /\ Head(queue[u]) \in Write
    BY <1>3, <2>1, <2>2
  <2>4. ahead' \in [User -> Nat]
    <3>1. ahead' = [ahead EXCEPT ![u] = ahead[u] - 1] /\ ahead[u] > 0
      BY <1>4 DEF Accept
    <3>2. ahead[u] - 1 \in Nat
      BY <3>1, QueueFacts
    <3>. QED
      BY <3>1, <3>2 DEF TypeOK
  <2>. QED
    BY <1>4, <2>3, <2>4 DEF Accept, TypeOK
<1>5. ASSUME NEW u \in User, Refuse(u) PROVE TypeOK'
  <2>1. /\ queue' \in [User -> Seq(Write)] /\ awaited' \subseteq Write
        /\ told' \subseteq Write \X {"ok", "error"} /\ Head(queue[u]) \in Write
    BY <1>3, <1>5 DEF Refuse
  <2>2. ahead' \in [User -> Nat]
    BY <1>5 DEF Refuse, TypeOK
  <2>. QED
    BY <1>5, <2>1, <2>2 DEF Refuse, TypeOK
<1>6. ASSUME NEW u \in User, Reconnect(u) PROVE TypeOK'
  BY <1>6 DEF TypeOK, Reconnect
<1>7. CASE Restart
  BY <1>7 DEF TypeOK, Restart
<1>8. CASE UNCHANGED vars
  BY <1>8 DEF TypeOK, vars
<1>. QED
  BY <1>1, <1>2, <1>4, <1>5, <1>6, <1>7, <1>8 DEF Next

-----------------------------------------------------------------------------
(***************************************************************************)
(* A new write.                                                            *)
(***************************************************************************)

\* A new write is the newest of all, at the end of its queue.
LEMMA EnqueueOrders ==
    ASSUME TypeOK, Orders, NEW u \in User, Enqueue(u)
    PROVE  Orders'
<1>. DEFINE w == [by |-> u, n |-> made + 1]
<1>1. made' = made + 1 /\ UNCHANGED <<ahead, applied, accepted, refused, told>>
  BY DEF Enqueue
<1>2. /\ \A i \in DOMAIN queue[u] : i \in DOMAIN queue'[u] /\ queue'[u][i] = queue[u][i]
      /\ \A i \in DOMAIN queue'[u] : \/ i \in DOMAIN queue[u] /\ queue'[u][i] = queue[u][i]
                                     \/ i = Len(queue[u]) + 1 /\ queue'[u][i] = w
      /\ Len(queue'[u]) = Len(queue[u]) + 1
  BY OneMoreWaits, QueueFacts
<1>3. \A v \in User \ {u} : queue'[v] = queue[v]
  BY OneMoreWaits
<1>4. w.by = u /\ w.n = made + 1 /\ made \in Nat
  BY QueueFacts
<1>. HIDE DEF w
<1>5. QueuesOrdered'
  <2>. SUFFICES ASSUME NEW v \in User
       PROVE /\ \A i \in DOMAIN queue'[v] : queue'[v][i].by = v /\ queue'[v][i].n <= made + 1
             /\ \A i, j \in DOMAIN queue'[v] : i < j => queue'[v][i].n < queue'[v][j].n
    BY <1>1 DEF QueuesOrdered
  <2>1. \A i \in DOMAIN queue[v] :
           /\ queue[v][i].by = v /\ queue[v][i].n <= made /\ queue[v][i].n \in Nat
           /\ \A j \in DOMAIN queue[v] : i < j => queue[v][i].n < queue[v][j].n
    BY QueueFacts, WriteFields DEF Orders, QueuesOrdered
  <2>2. CASE v # u
    BY <1>3, <1>4, <2>1, <2>2
  <2>3. CASE v = u
    <3>1. DOMAIN queue[u] = 1..Len(queue[u]) /\ Len(queue[u]) \in Nat
      BY QueueFacts
    <3>2. \A i \in DOMAIN queue'[u] : queue'[u][i].by = u /\ queue'[u][i].n <= made + 1
      BY <1>2, <1>4, <2>1, <2>3
    <3>3. ASSUME NEW i \in DOMAIN queue'[u], NEW j \in DOMAIN queue'[u], i < j
          PROVE  queue'[u][i].n < queue'[u][j].n
      <4>1. i \in DOMAIN queue[u] /\ queue'[u][i] = queue[u][i]
        BY <1>2, <3>1, <3>3
      <4>2. CASE j \in DOMAIN queue[u]
        BY <2>1, <2>3, <1>2, <3>3, <4>1, <4>2
      <4>3. CASE j \notin DOMAIN queue[u]
        BY <1>2, <1>4, <2>1, <2>3, <4>1, <4>3
      <4>. QED
        BY <4>2, <4>3
    <3>. QED
      BY <2>3, <3>2, <3>3
  <2>. QED
    BY <2>2, <2>3
<1>6. AnsweredFirst'
  <2>. SUFFICES ASSUME NEW x \in accepted \cup refused
       PROVE x.n <= made + 1 /\ \A i \in DOMAIN queue'[x.by] : x.n < queue'[x.by][i].n
    BY <1>1 DEF AnsweredFirst
  <2>1. /\ x.by \in User /\ x.n \in Nat /\ x.n <= made
        /\ \A i \in DOMAIN queue[x.by] : x.n < queue[x.by][i].n
    BY WriteFields DEF Orders, AnsweredFirst, TypeOK
  <2>2. CASE x.by # u
    BY <1>3, <1>4, <2>1, <2>2
  <2>3. CASE x.by = u
    BY <1>2, <1>4, <2>1, <2>3
  <2>. QED
    BY <2>2, <2>3
<1>7. FrontApplied'
  <2>. SUFFICES ASSUME NEW v \in User
       PROVE ahead[v] <= Len(queue'[v])
             /\ \A i \in 1..ahead[v] : IsApplied(queue'[v][i])
    BY <1>1 DEF FrontApplied, IsApplied
  <2>1. ahead[v] <= Len(queue[v]) /\ \A i \in 1..ahead[v] : IsApplied(queue[v][i])
    BY DEF Orders, FrontApplied
  <2>2. Len(queue[v]) \in Nat /\ ahead[v] \in Nat /\ DOMAIN queue[v] = 1..Len(queue[v])
    BY QueueFacts
  <2>3. CASE v # u
    BY <1>3, <2>1, <2>3
  <2>4. CASE v = u
    <3>1. \A i \in 1..ahead[v] : queue'[v][i] = queue[v][i]
      BY <1>2, <2>1, <2>2, <2>4
    <3>2. ahead[v] <= Len(queue'[v])
      BY <1>2, <2>1, <2>2, <2>4
    <3>. QED
      BY <2>1, <3>1, <3>2
  <2>. QED
    BY <2>3, <2>4
<1>8. AppliedKnown'
  <2>. SUFFICES ASSUME NEW k \in DOMAIN applied
       PROVE  /\ applied[k].n <= made + 1
              /\ InQueue(applied[k])' \/ applied[k] \in accepted \cup refused
    BY <1>1 DEF AppliedKnown, InQueue
  <2>1. /\ applied[k] \in Write /\ applied[k].n <= made
        /\ InQueue(applied[k]) \/ applied[k] \in accepted \cup refused
    BY AppliedFacts DEF Orders, AppliedKnown
  <2>2. applied[k].by \in User /\ applied[k].n \in Nat
    BY <2>1, WriteFields
  <2>3. PICK x : x = applied[k]
    OBVIOUS
  <2>4. InQueue(x) => InQueue(x)'
    BY <2>2, <2>3, StaysInQueue
  <2>. QED
    BY <1>1, <1>4, <2>1, <2>2, <2>3, <2>4 DEF InQueue
<1>. QED
  BY <1>5, <1>6, <1>7, <1>8 DEF Orders

\* Parts of the invariant that a new write does not disturb.
LEMMA EnqueueStep ==
    ASSUME WriteQueueInv, NEW u \in User, Enqueue(u)
    PROVE  WriteQueueInv'
<1>0. PICK w : w = [by |-> u, n |-> made + 1]
  OBVIOUS
<1>1. /\ made' = made + 1 /\ awaited' = awaited \cup {w}
      /\ UNCHANGED <<ahead, applied, accepted, refused, told>>
  BY <1>0 DEF Enqueue
<1>2. TypeOK /\ Orders /\ made \in Nat
  BY QueueFacts DEF WriteQueueInv
<1>3. TypeOK'
  BY <1>2, TypeStep DEF Orders, Next
<1>4. Orders'
  BY <1>2, EnqueueOrders
<1>5. \A x : x.by \in User =>
         (InQueue(x) => InQueue(x)') /\ (InQueue(x)' => InQueue(x) \/ x = w)
  BY <1>0, <1>2, StaysInQueue
<1>6. InQueue(w)'
  <2>1. queue'[u][Len(queue[u]) + 1] = w /\ Len(queue[u]) + 1 \in DOMAIN queue'[u]
    BY <1>0, <1>2, OneMoreWaits, QueueFacts
  <2>. QED
    BY <1>0, <2>1 DEF InQueue
<1>7. w.by = u /\ w.n = made + 1
  BY <1>0
<1>8. FirstsInOrder'
  <2>. SUFFICES ASSUME NEW j \in DOMAIN applied, NEW m \in 1..applied[j].n,
                       InQueue([by |-> applied[j].by, n |-> m])'
                PROVE  \E i \in 1..j : applied[i] = [by |-> applied[j].by, n |-> m]
    BY <1>1 DEF FirstsInOrder, InQueue
  <2>. DEFINE x == [by |-> applied[j].by, n |-> m]
  <2>0. x.by = applied[j].by /\ x.n = m
    OBVIOUS
  <2>1. applied[j].by \in User /\ applied[j].n \in Nat /\ applied[j].n <= made
    BY <1>2, AppliedFacts, WriteFields DEF Orders, AppliedKnown
  <2>2. x # w
    BY <1>2, <1>7, <2>0, <2>1
  <2>3. InQueue(x)
    <3>1. PICK y : y = x
      OBVIOUS
    <3>2. InQueue(y)'
      BY <1>1, <3>1 DEF InQueue
    <3>. QED
      BY <1>5, <2>0, <2>1, <2>2, <3>1, <3>2
  <2>. QED
    BY <2>3 DEF WriteQueueInv, FirstsInOrder
<1>9. InversionsMended'
  <2>. SUFFICES ASSUME NEW i \in DOMAIN applied, StillToCome(applied[i])
                PROVE  StillToCome(applied[i])'
    BY <1>1 DEF WriteQueueInv, InversionsMended, Repeated
  <2>1. applied[i].by \in User
    BY <1>2, AppliedFacts, WriteFields
  <2>2. Len(queue[u]) \in Nat /\ DOMAIN queue[u] = 1..Len(queue[u])
        /\ DOMAIN queue'[u] = 1..(Len(queue[u]) + 1)
        /\ \A k \in DOMAIN queue[u] : queue'[u][k] = queue[u][k]
    BY <1>2, OneMoreWaits, QueueFacts
  <2>3. \A v \in User \ {u} : queue'[v] = queue[v]
    BY <1>2, OneMoreWaits
  <2>4. \A k \in DOMAIN queue[u] : k \in DOMAIN queue'[u]
    BY <2>2
  <2>. QED
    BY <1>1, <2>1, <2>2, <2>3, <2>4 DEF StillToCome
<1>10. NothingLost'
  <2>1. \A x \in accepted \cup refused : ~ InQueue(x)'
    <3>. SUFFICES ASSUME NEW x \in accepted \cup refused PROVE ~ InQueue(x)'
      OBVIOUS
    <3>1. x.by \in User /\ x.n <= made /\ x.n \in Nat /\ ~ InQueue(x)
      BY <1>2, WriteFields DEF TypeOK, Orders, AnsweredFirst, WriteQueueInv, NothingLost
    <3>. QED
      BY <1>2, <1>5, <1>7, <3>1
  <2>2. ASSUME NEW n \in 1..(made + 1)
        PROVE  \E v \in User : LET x == [by |-> v, n |-> n]
                               IN  InQueue(x)' \/ x \in accepted \cup refused
    <3>1. CASE n = made + 1
      BY <1>0, <1>6, <3>1
    <3>2. CASE n # made + 1
      <4>1. n \in 1..made
        BY <1>2, <3>2
      <4>2. PICK v \in User : \/ InQueue([by |-> v, n |-> n])
                              \/ [by |-> v, n |-> n] \in accepted \cup refused
        BY <4>1 DEF WriteQueueInv, NothingLost
      <4>3. [by |-> v, n |-> n].by \in User
        OBVIOUS
      <4>4. InQueue([by |-> v, n |-> n]) => InQueue([by |-> v, n |-> n])'
        BY <1>5, <4>3
      <4>. QED
        BY <4>2, <4>4
    <3>. QED
      BY <3>1, <3>2
  <2>. QED
    <3>1. /\ accepted \cap refused = {}
          /\ \A x \in accepted : \E i \in DOMAIN applied : applied[i] = x
      BY DEF WriteQueueInv, NothingLost
    <3>2. UNCHANGED <<accepted, refused, applied>> /\ made' = made + 1
      BY <1>1
    <3>. QED
      BY <2>1, <2>2, <3>1, <3>2 DEF NothingLost
<1>11. HandlersWait'
  <2>. SUFFICES ASSUME NEW x \in awaited \cup {w} PROVE InQueue(x)'
    BY <1>1 DEF HandlersWait
  <2>1. CASE x = w
    BY <1>6, <2>1
  <2>2. CASE x \in awaited
    BY <1>2, <1>5, <2>2, WriteFields DEF TypeOK, WriteQueueInv, HandlersWait
  <2>. QED
    BY <2>1, <2>2
<1>12. AnswersTold'
  BY <1>1 DEF WriteQueueInv, AnswersTold
<1>. QED
  BY <1>3, <1>4, <1>8, <1>9, <1>10, <1>11, <1>12 DEF WriteQueueInv

-----------------------------------------------------------------------------
(***************************************************************************)
(* The server applies a write.                                             *)
(***************************************************************************)

\* The server applies the next write of a queue.
LEMMA ApplyStep ==
    ASSUME WriteQueueInv, NEW u \in User, Apply(u)
    PROVE  WriteQueueInv'
<1>. DEFINE p == ahead[u] + 1
            w == queue[u][p]
            l == Len(applied)
<1>1. /\ ahead' = [ahead EXCEPT ![u] = ahead[u] + 1]
      /\ UNCHANGED <<made, queue, accepted, refused, awaited, told>>
  BY DEF Apply
<1>2. TypeOK /\ Orders /\ made \in Nat /\ l \in Nat /\ DOMAIN applied = 1..l
      /\ ahead[u] \in Nat /\ Len(queue[u]) \in Nat /\ DOMAIN queue[u] = 1..Len(queue[u])
  BY QueueFacts, AppliedFacts DEF WriteQueueInv
<1>3. TypeOK'
  BY <1>2, TypeStep DEF Orders, Next
<1>4. /\ p \in DOMAIN queue[u] /\ w \in Write
      /\ DOMAIN applied' = 1..(l + 1)
      /\ \A k \in DOMAIN applied : applied'[k] = applied[k]
      /\ applied'[l + 1] = w
  BY <1>2, OneMoreApplied
<1>5. w.by = u /\ w.n <= made /\ w.n \in Nat /\ InQueue(w)
  BY <1>2, <1>4, WriteFields DEF Orders, QueuesOrdered, InQueue
<1>6. ahead'[u] = p /\ \A v \in User \ {u} : ahead'[v] = ahead[v]
  BY <1>1 DEF WriteQueueInv, TypeOK
<1>7. \A k \in DOMAIN applied : k \in DOMAIN applied' /\ applied'[k] = applied[k]
  BY <1>2, <1>4
<1>8. \A k \in DOMAIN applied' : k \in DOMAIN applied \/ k = l + 1
  BY <1>2, <1>4
<1>9. l + 1 \in DOMAIN applied'
  BY <1>2, <1>4
<1>10. \A x : InQueue(x)' <=> InQueue(x)
  BY <1>1 DEF InQueue
<1>11. \A i \in DOMAIN queue[u] : queue[u][i] \in Write /\ queue[u][i].n \in Nat
  BY <1>2, QueueFacts, WriteFields
<1>. HIDE DEF p, w, l
<1>12. Orders'
  <2>1. QueuesOrdered' /\ AnsweredFirst'
    BY <1>1, <1>2 DEF Orders, QueuesOrdered, AnsweredFirst
  <2>3. FrontApplied'
    <3>. DEFINE Done(x) == \E k \in DOMAIN applied' : applied'[k] = x
    <3>. SUFFICES ASSUME NEW v \in User
         PROVE ahead'[v] <= Len(queue[v]) /\ \A i \in 1..ahead'[v] : Done(queue[v][i])
      BY <1>1 DEF FrontApplied, IsApplied
    <3>1. ahead[v] <= Len(queue[v]) /\ \A i \in 1..ahead[v] : IsApplied(queue[v][i])
      BY <1>2 DEF Orders, FrontApplied
    <3>2. \A i \in 1..ahead[v] : Done(queue[v][i])
      BY <1>7, <3>1 DEF IsApplied
    <3>3. CASE v # u
      BY <1>6, <3>1, <3>2, <3>3
    <3>4. CASE v = u
      <4>1. Done(queue[u][p])
        BY <1>4, <1>9 DEF w
      <4>2. p <= Len(queue[u]) /\ \A i \in 1..p : i \in 1..ahead[u] \/ i = p
        BY <1>2, <1>4 DEF p
      <4>. HIDE DEF Done
      <4>. QED
        BY <1>6, <3>2, <3>4, <4>1, <4>2
    <3>. QED
      BY <3>3, <3>4
  <2>4. AppliedKnown'
    <3>. SUFFICES ASSUME NEW k \in DOMAIN applied'
                  PROVE  /\ applied'[k].n <= made
                         /\ InQueue(applied'[k]) \/ applied'[k] \in accepted \cup refused
      BY <1>1 DEF AppliedKnown, InQueue
    <3>1. CASE k \in DOMAIN applied
      BY <1>2, <1>7, <3>1 DEF Orders, AppliedKnown
    <3>2. CASE k = l + 1
      BY <1>4, <1>5, <3>2
    <3>. QED
      BY <1>8, <3>1, <3>2
  <2>. QED
    BY <2>1, <2>3, <2>4 DEF Orders
\* A write in the queue that is not behind w is w, or has been applied.
<1>13. FirstsInOrder'
  <2>. SUFFICES ASSUME NEW j \in DOMAIN applied', NEW m \in 1..applied'[j].n,
                       InQueue([by |-> applied'[j].by, n |-> m])
                PROVE  \E i \in 1..j : applied'[i] = [by |-> applied'[j].by, n |-> m]
    BY <1>1 DEF FirstsInOrder, InQueue
  <2>1. CASE j \in DOMAIN applied
    <3>1. PICK i \in 1..j : applied[i] = [by |-> applied[j].by, n |-> m]
      BY <1>7, <2>1 DEF WriteQueueInv, FirstsInOrder
    <3>2. i \in DOMAIN applied
      BY <1>2, <2>1 DEF l
    <3>. QED
      BY <1>7, <2>1, <3>1, <3>2
  <2>2. CASE j = l + 1
    <3>. DEFINE x == [by |-> u, n |-> m]
    <3>1. x = [by |-> applied'[j].by, n |-> m] /\ m \in 1..w.n /\ InQueue(x)
      BY <1>4, <1>5, <2>2
    <3>2. PICK i \in DOMAIN queue[u] : queue[u][i] = x
      BY <3>1 DEF InQueue
    <3>3. i <= p
      <4>1. queue[u][i].n <= w.n /\ queue[u][i].n \in Nat
        BY <1>5, <3>1, <3>2, <1>11
      <4>. QED
        BY <1>2, <1>4, <1>5, <4>1 DEF Orders, QueuesOrdered, w
    <3>4. CASE i = p
      <4>1. applied'[l + 1] = x
        BY <1>4, <3>2, <3>4 DEF w
      <4>2. l + 1 \in 1..j
        BY <1>2, <2>2
      <4>. QED
        BY <3>1, <4>1, <4>2
    <3>5. CASE i # p
      <4>1. i \in 1..ahead[u]
        BY <1>2, <3>3, <3>5 DEF p
      <4>2. PICK k \in DOMAIN applied : applied[k] = x
        BY <1>2, <3>2, <4>1 DEF Orders, FrontApplied, IsApplied
      <4>3. k \in 1..j
        BY <1>2, <2>2 DEF l
      <4>. QED
        BY <1>7, <3>1, <4>2, <4>3
    <3>. QED
      BY <3>4, <3>5
  <2>. QED
    BY <1>8, <2>1, <2>2
<1>14. InversionsMended'
  <2>. SUFFICES ASSUME NEW i \in DOMAIN applied', NEW j \in DOMAIN applied', i < j,
                       applied'[i].by = applied'[j].by, applied'[i].n > applied'[j].n
                PROVE  Repeated(i, j)'
    BY DEF InversionsMended
  <2>1. i \in DOMAIN applied /\ applied'[i] = applied[i] /\ applied[i] \in Write
    BY <1>2, <1>4, <1>7, AppliedFacts DEF l
  <2>2. applied[i].by \in User /\ applied[i].n \in Nat
    BY <2>1, WriteFields
  <2>3. CASE j \in DOMAIN applied
    <3>1. Repeated(i, j)
      BY <1>7, <2>1, <2>3 DEF WriteQueueInv, InversionsMended
    <3>2. CASE \E k \in DOMAIN applied : k >= j /\ applied[k] = applied[i]
      BY <1>7, <2>1, <3>2 DEF Repeated
    <3>3. CASE applied[i] \in refused
      BY <1>1, <2>1, <3>3 DEF Repeated
    <3>4. CASE StillToCome(applied[i])
      <4>1. PICK q \in DOMAIN queue[applied[i].by] :
                    queue[applied[i].by][q] = applied[i] /\ q > ahead[applied[i].by]
        BY <3>4 DEF StillToCome
      <4>2. CASE applied[i].by = u /\ q = p
        <5>1. applied'[l + 1] = applied'[i]
          BY <1>4, <2>1, <4>1, <4>2 DEF w
        <5>2. l + 1 >= j
          BY <1>2, <2>3
        <5>. QED
          BY <1>9, <5>1, <5>2 DEF Repeated
      <4>3. CASE applied[i].by = u /\ q # p
        <5>1. q > p
          BY <1>2, <4>1, <4>3 DEF p
        <5>. QED
          BY <1>1, <1>6, <2>1, <4>1, <4>3, <5>1 DEF Repeated, StillToCome
      <4>4. CASE applied[i].by # u
        BY <1>1, <1>6, <2>1, <2>2, <4>1, <4>4 DEF Repeated, StillToCome
      <4>. QED
        BY <4>2, <4>3, <4>4
    <3>. QED
      BY <3>1, <3>2, <3>3, <3>4 DEF Repeated
  <2>4. CASE j = l + 1
    <3>1. applied[i].by = u /\ applied[i].n > w.n
      BY <1>4, <1>5, <2>1, <2>4
    <3>2. InQueue(applied[i]) \/ applied[i] \in accepted \cup refused
      BY <1>2, <2>1 DEF Orders, AppliedKnown
    <3>3. applied[i] \notin accepted \cup refused
      <4>. SUFFICES ASSUME applied[i] \in accepted \cup refused PROVE FALSE
        OBVIOUS
      <4>1. applied[i].n < queue[u][p].n
        BY <1>2, <1>4, <3>1 DEF Orders, AnsweredFirst
      <4>. QED
        BY <1>5, <2>2, <3>1, <4>1 DEF w
    <3>4. PICK q \in DOMAIN queue[u] : queue[u][q] = applied[i]
      BY <3>1, <3>2, <3>3 DEF InQueue
    <3>5. q > p
      <4>. SUFFICES ASSUME q <= p PROVE FALSE
        BY <1>2, <1>4 DEF p
      <4>1. q = p \/ q < p
        BY <1>2, <1>4
      <4>2. q < p => queue[u][q].n < queue[u][p].n
        BY <1>2, <1>4 DEF Orders, QueuesOrdered
      <4>3. applied[i].n <= w.n
        BY <1>5, <1>11, <3>4, <4>1, <4>2 DEF w
      <4>. QED
        BY <1>5, <2>2, <3>1, <4>3
    <3>. QED
      BY <1>1, <1>6, <2>1, <3>1, <3>4, <3>5 DEF Repeated, StillToCome
  <2>. QED
    BY <1>8, <2>3, <2>4
<1>15. NothingLost'
  <2>1. \A x \in accepted : \E i \in DOMAIN applied' : applied'[i] = x
    BY <1>7 DEF WriteQueueInv, NothingLost
  <2>2. UNCHANGED <<made, accepted, refused, queue>>
    BY <1>1
  <2>. QED
    BY <2>1, <2>2 DEF WriteQueueInv, NothingLost, InQueue
<1>16. HandlersWait' /\ AnswersTold'
  BY <1>1 DEF WriteQueueInv, HandlersWait, AnswersTold, InQueue
<1>. QED
  BY <1>3, <1>12, <1>13, <1>14, <1>15, <1>16 DEF WriteQueueInv

-----------------------------------------------------------------------------
(***************************************************************************)
(* The first write leaves its queue.                                       *)
(***************************************************************************)

\* What Accept and Refuse have in common.
Left(u, w) ==
    /\ queue[u] # <<>> /\ w = Head(queue[u])
    /\ queue' = [queue EXCEPT ![u] = Tail(@)]
    /\ accepted' \cup refused' = accepted \cup refused \cup {w}
    /\ accepted \subseteq accepted' /\ refused \subseteq refused'
    /\ awaited' = awaited \ {w}
    /\ \A v \in User \ {u} : ahead'[v] = ahead[v]
    /\ UNCHANGED <<made, applied>>

\* A queue without its first write.
LEMMA LeftFacts ==
    ASSUME TypeOK, Orders, NEW u \in User, NEW w, Left(u, w)
    PROVE  /\ w \in Write /\ w.by = u /\ w.n \in Nat /\ w.n <= made
           /\ queue[u][1] = w /\ InQueue(w)
           /\ \A i \in DOMAIN queue[u] : i # 1 => w.n < queue[u][i].n
           /\ \A x : x.by \in User => (InQueue(x)' <=> InQueue(x) /\ x # w)
<1>1. /\ Head(queue[u]) = queue[u][1] /\ 1 \in DOMAIN queue[u]
      /\ \A i \in DOMAIN queue'[u] : i + 1 \in DOMAIN queue[u]
                                     /\ queue'[u][i] = queue[u][i + 1]
      /\ \A i \in DOMAIN queue[u] : i # 1 => i - 1 \in DOMAIN queue'[u]
                                     /\ queue'[u][i - 1] = queue[u][i]
      /\ \A v \in User \ {u} : queue'[v] = queue[v]
      /\ DOMAIN queue'[u] = 1..(Len(queue[u]) - 1)
  BY FirstLeaves DEF Left
<1>2. Len(queue[u]) \in Nat /\ DOMAIN queue[u] = 1..Len(queue[u])
  BY QueueFacts
<1>3. w \in Write /\ w.by = u /\ w.n \in Nat /\ w.n <= made /\ queue[u][1] = w /\ InQueue(w)
  BY <1>1, QueueFacts, WriteFields DEF Left, Orders, QueuesOrdered, InQueue
<1>4. \A i \in DOMAIN queue[u] : i # 1 => w.n < queue[u][i].n
  <2>. SUFFICES ASSUME NEW i \in DOMAIN queue[u], i # 1 PROVE w.n < queue[u][i].n
    OBVIOUS
  <2>1. 1 < i
    BY <1>2
  <2>. QED
    BY <1>1, <1>3, <2>1 DEF Orders, QueuesOrdered
<1>5. ASSUME NEW x, x.by \in User
      PROVE  InQueue(x)' <=> InQueue(x) /\ x # w
  <2>1. CASE x.by # u
    BY <1>1, <1>3, <1>5, <2>1 DEF InQueue
  <2>2. CASE x.by = u
    <3>1. ASSUME InQueue(x), x # w PROVE InQueue(x)'
      BY <1>1, <1>3, <2>2, <3>1 DEF InQueue
    <3>2. ASSUME InQueue(x)' PROVE InQueue(x) /\ x # w
      <4>1. PICK i \in DOMAIN queue'[u] : queue'[u][i] = x
        BY <2>2, <3>2 DEF InQueue
      <4>2. i + 1 \in DOMAIN queue[u] /\ queue[u][i + 1] = x /\ i + 1 # 1
        BY <1>1, <1>2, <4>1
      <4>3. w.n < x.n
        BY <1>4, <4>2
      <4>. QED
        BY <1>3, <2>2, <4>2, <4>3 DEF InQueue
    <3>. QED
      BY <3>1, <3>2
  <2>. QED
    BY <2>1, <2>2
<1>. QED
  BY <1>3, <1>4, <1>5

\* Neither order nor history is disturbed, and the write is accounted for.
LEMMA LeftKeeps ==
    ASSUME WriteQueueInv, NEW u \in User, NEW w, Left(u, w)
    PROVE  /\ QueuesOrdered' /\ AnsweredFirst' /\ AppliedKnown'
           /\ FirstsInOrder' /\ HandlersWait'
           /\ \A x \in (accepted \cup refused)' : ~ InQueue(x)'
           /\ \A n \in 1..made' : \E v \in User :
                 LET x == [by |-> v, n |-> n]
                 IN  InQueue(x)' \/ x \in (accepted \cup refused)'
<1>1. TypeOK /\ Orders
  BY DEF WriteQueueInv
<1>2. /\ UNCHANGED <<made, applied>> /\ awaited' = awaited \ {w}
      /\ accepted' \cup refused' = accepted \cup refused \cup {w}
  BY DEF Left
<1>3. /\ w.by = u /\ w.n \in Nat /\ w.n <= made
      /\ \A i \in DOMAIN queue[u] : i # 1 => w.n < queue[u][i].n
      /\ \A x : x.by \in User => (InQueue(x)' <=> InQueue(x) /\ x # w)
  BY <1>1, LeftFacts
<1>4. /\ \A i \in DOMAIN queue'[u] : /\ i \in Nat /\ i + 1 \in DOMAIN queue[u] /\ i + 1 # 1
                                    /\ queue'[u][i] = queue[u][i + 1]
      /\ \A v \in User \ {u} : queue'[v] = queue[v]
  <2>1. DOMAIN queue'[u] = 1..(Len(queue[u]) - 1) /\ Len(queue[u]) \in Nat
    BY <1>1, FirstLeaves, QueueFacts DEF Left
  <2>. QED
    BY <1>1, <2>1, FirstLeaves DEF Left
<1>5. \A x \in accepted \cup refused : x.by \in User /\ x.n \in Nat
  BY <1>1, WriteFields DEF TypeOK
<1>6. QueuesOrdered'
  <2>. SUFFICES ASSUME NEW v \in User
       PROVE /\ \A i \in DOMAIN queue'[v] : queue'[v][i].by = v /\ queue'[v][i].n <= made
             /\ \A i, j \in DOMAIN queue'[v] : i < j => queue'[v][i].n < queue'[v][j].n
    BY <1>2 DEF QueuesOrdered
  <2>1. /\ \A i \in DOMAIN queue[v] : queue[v][i].by = v /\ queue[v][i].n <= made
        /\ \A i, j \in DOMAIN queue[v] : i < j => queue[v][i].n < queue[v][j].n
    BY <1>1 DEF Orders, QueuesOrdered
  <2>2. CASE v # u
    BY <1>4, <2>1, <2>2
  <2>3. CASE v = u
    BY <1>4, <2>1, <2>3
  <2>. QED
    BY <2>2, <2>3
<1>7. AnsweredFirst'
  <2>. SUFFICES ASSUME NEW x \in accepted \cup refused \cup {w}
       PROVE x.n <= made /\ \A i \in DOMAIN queue'[x.by] : x.n < queue'[x.by][i].n
    BY <1>2 DEF AnsweredFirst
  <2>1. CASE x = w
    BY <1>3, <1>4, <2>1
  <2>2. CASE x \in accepted \cup refused
    <3>1. x.n <= made /\ \A i \in DOMAIN queue[x.by] : x.n < queue[x.by][i].n
      BY <1>1, <2>2 DEF Orders, AnsweredFirst
    <3>. QED
      BY <1>4, <1>5, <2>2, <3>1
  <2>. QED
    BY <2>1, <2>2
<1>8. \A k \in DOMAIN applied : applied[k].by \in User
  BY <1>1, AppliedFacts, WriteFields
<1>9. AppliedKnown'
  <2>. SUFFICES ASSUME NEW k \in DOMAIN applied
       PROVE applied[k].n <= made
             /\ (InQueue(applied[k])' \/ applied[k] \in accepted \cup refused \cup {w})
    BY <1>2 DEF AppliedKnown, InQueue
  <2>1. applied[k].n <= made /\ (InQueue(applied[k]) \/ applied[k] \in accepted \cup refused)
    BY <1>1 DEF Orders, AppliedKnown
  <2>2. PICK x : x = applied[k]
    OBVIOUS
  <2>3. InQueue(x)' <=> InQueue(x) /\ x # w
    BY <1>3, <1>8, <2>2
  <2>4. InQueue(x)' <=> InQueue(applied[k])'
    BY <1>2, <2>2 DEF InQueue
  <2>. QED
    BY <2>1, <2>2, <2>3, <2>4
<1>10. FirstsInOrder'
  <2>. SUFFICES ASSUME NEW j \in DOMAIN applied, NEW m \in 1..applied[j].n,
                       NEW x, x = [by |-> applied[j].by, n |-> m], InQueue(x)'
                PROVE  InQueue(x)
    BY <1>2 DEF WriteQueueInv, FirstsInOrder, InQueue
  <2>. QED
    BY <1>3, <1>8
<1>11. HandlersWait'
  <2>. SUFFICES ASSUME NEW x \in awaited \ {w} PROVE InQueue(x)'
    BY <1>2 DEF HandlersWait
  <2>1. x.by \in User /\ InQueue(x)
    BY <1>1, WriteFields DEF TypeOK, WriteQueueInv, HandlersWait
  <2>. QED
    BY <1>3, <2>1
<1>12. \A x \in (accepted \cup refused)' : ~ InQueue(x)'
  <2>. SUFFICES ASSUME NEW x \in accepted \cup refused \cup {w} PROVE ~ InQueue(x)'
    BY <1>2
  <2>1. x # w => x.by \in User /\ ~ InQueue(x)
    BY <1>5 DEF WriteQueueInv, NothingLost
  <2>. QED
    BY <1>3, <2>1
<1>13. ASSUME NEW n \in 1..made
       PROVE  \E v \in User : LET x == [by |-> v, n |-> n]
                              IN  InQueue(x)' \/ x \in (accepted \cup refused)'
  <2>1. PICK v \in User : InQueue([by |-> v, n |-> n])
                          \/ [by |-> v, n |-> n] \in accepted \cup refused
    BY DEF WriteQueueInv, NothingLost
  <2>2. PICK x : x = [by |-> v, n |-> n]
    OBVIOUS
  <2>3. x.by \in User
    BY <2>2
  <2>4. InQueue(x)' \/ x \in accepted \cup refused \cup {w}
    BY <1>3, <2>1, <2>2, <2>3
  <2>. QED
    BY <1>2, <2>2, <2>4
<1>. QED
  BY <1>2, <1>6, <1>7, <1>9, <1>10, <1>11, <1>12, <1>13

\* Of two writes in the wrong order the later one stays repeated.
LEMMA LeftMends ==
    ASSUME WriteQueueInv, NEW u \in User, NEW w, Left(u, w),
           \/ w \in refused' /\ ahead'[u] = 0
           \/ ahead[u] > 0 /\ ahead'[u] = ahead[u] - 1
    PROVE  InversionsMended'
<1>1. TypeOK /\ Orders
  BY DEF WriteQueueInv
<1>2. UNCHANGED applied /\ refused \subseteq refused'
      /\ \A v \in User \ {u} : ahead'[v] = ahead[v]
  BY DEF Left
<1>3. w.by = u /\ queue[u][1] = w /\ ahead[u] \in Nat
  BY <1>1, LeftFacts, QueueFacts
<1>4. /\ \A i \in DOMAIN queue[u] : i # 1 => i - 1 \in DOMAIN queue'[u]
                                     /\ queue'[u][i - 1] = queue[u][i]
      /\ \A i \in DOMAIN queue[u] : i \in Nat /\ i >= 1
      /\ \A v \in User \ {u} : queue'[v] = queue[v]
  <2>1. \A i \in DOMAIN queue[u] : i \in Nat /\ i >= 1
    BY <1>1, QueueFacts
  <2>2. queue[u] # <<>> /\ queue' = [queue EXCEPT ![u] = Tail(@)]
    BY DEF Left
  <2>. QED
    BY <1>1, <2>1, <2>2, FirstLeaves
<1>. SUFFICES ASSUME NEW i \in DOMAIN applied, NEW j \in DOMAIN applied,
                     Repeated(i, j)
              PROVE  Repeated(i, j)'
  BY <1>2 DEF WriteQueueInv, InversionsMended
<1>5. CASE \E k \in DOMAIN applied : k >= j /\ applied[k] = applied[i]
  BY <1>2, <1>5 DEF Repeated
<1>6. CASE applied[i] \in refused
  BY <1>2, <1>6 DEF Repeated
<1>7. CASE StillToCome(applied[i])
  <2>1. PICK q \in DOMAIN queue[applied[i].by] :
                queue[applied[i].by][q] = applied[i] /\ q > ahead[applied[i].by]
    BY <1>7 DEF StillToCome
  <2>2. CASE applied[i].by # u
    <3>1. applied[i].by \in User
      BY <1>1, AppliedFacts, WriteFields
    <3>. QED
      BY <1>2, <1>4, <2>1, <2>2, <3>1 DEF Repeated, StillToCome
  <2>3. CASE applied[i].by = u /\ q = 1
    <3>1. applied[i] = w /\ ~ (ahead[u] > 0)
      BY <1>3, <2>1, <2>3
    <3>2. applied'[i] \in refused'
      BY <1>2, <3>1
    <3>. QED
      BY <3>2 DEF Repeated
  <2>4. CASE applied[i].by = u /\ q # 1
    <3>1. q - 1 \in DOMAIN queue'[u] /\ queue'[u][q - 1] = applied[i]
          /\ q - 1 > ahead'[u]
      BY <1>3, <1>4, <2>1, <2>4
    <3>. QED
      BY <1>2, <2>4, <3>1 DEF Repeated, StillToCome
  <2>. QED
    BY <2>2, <2>3, <2>4
<1>. QED
  BY <1>5, <1>6, <1>7 DEF Repeated

\* The first write is accepted, and leaves its queue.
LEMMA AcceptStep ==
    ASSUME WriteQueueInv, NEW u \in User, Accept(u)
    PROVE  WriteQueueInv'
<1>1. TypeOK /\ Orders /\ ahead[u] > 0 /\ ahead[u] \in Nat /\ Len(queue[u]) \in Nat
      /\ DOMAIN queue[u] = 1..Len(queue[u])
  BY QueueFacts DEF WriteQueueInv, Accept
<1>2. queue[u] # <<>>
  BY <1>1, FirstAsked DEF Orders
<1>3. PICK w : w = Head(queue[u])
  OBVIOUS
<1>4. /\ ahead' = [ahead EXCEPT ![u] = ahead[u] - 1] /\ accepted' = accepted \cup {w}
      /\ queue' = [queue EXCEPT ![u] = Tail(@)]
      /\ told' = (IF w \in awaited THEN told \cup {<<w, "ok">>} ELSE told)
      /\ awaited' = awaited \ {w}
      /\ UNCHANGED <<made, applied, refused>>
  BY <1>3 DEF Accept, Answer
<1>5. ahead'[u] = ahead[u] - 1 /\ \A v \in User \ {u} : ahead'[v] = ahead[v]
  BY <1>4 DEF WriteQueueInv, TypeOK
<1>6. Left(u, w)
  BY <1>1, <1>2, <1>3, <1>4, <1>5 DEF Left
<1>7. TypeOK'
  BY <1>1, TypeStep DEF Orders, Next
<1>8. w.by = u /\ InQueue(w) /\ queue[u][1] = w
  BY <1>1, <1>6, LeftFacts
<1>9. FrontApplied'
  <2>. SUFFICES ASSUME NEW v \in User
       PROVE ahead'[v] <= Len(queue'[v]) /\ \A i \in 1..ahead'[v] : IsApplied(queue'[v][i])
    BY <1>4 DEF FrontApplied, IsApplied
  <2>1. ahead[v] <= Len(queue[v]) /\ \A i \in 1..ahead[v] : IsApplied(queue[v][i])
    BY <1>1 DEF Orders, FrontApplied
  <2>2. CASE v # u
    BY <1>1, <1>2, <1>4, <1>5, <2>1, <2>2, FirstLeaves
  <2>3. CASE v = u
    <3>1. /\ Len(queue'[u]) = Len(queue[u]) - 1
          /\ \A i \in DOMAIN queue[u] : i # 1 => queue'[u][i - 1] = queue[u][i]
      BY <1>1, <1>2, <1>4, FirstLeaves
    <3>2. ASSUME NEW i \in 1..ahead'[u] PROVE IsApplied(queue'[u][i])
      <4>1. i \in Nat /\ i >= 1 /\ i + 1 <= ahead[u] /\ i + 1 # 1 /\ (i + 1) - 1 = i
        BY <1>1, <1>5
      <4>2. i + 1 \in 1..ahead[u] /\ i + 1 \in DOMAIN queue[u]
        BY <1>1, <2>1, <2>3, <4>1
      <4>3. queue'[u][i] = queue[u][i + 1]
        BY <3>1, <4>1, <4>2
      <4>. QED
        BY <2>1, <2>3, <4>2, <4>3
    <3>. QED
      BY <1>1, <1>5, <2>1, <2>3, <3>1, <3>2
  <2>. QED
    BY <2>2, <2>3
<1>10. NothingLost'
  <2>1. w \notin refused /\ accepted \cap refused = {}
        /\ \A x \in accepted : \E i \in DOMAIN applied : applied[i] = x
    BY <1>8 DEF WriteQueueInv, NothingLost
  <2>2. \E i \in DOMAIN applied : applied[i] = w
    <3>1. 1 \in 1..ahead[u]
      BY <1>1
    <3>. QED
      BY <1>1, <1>8, <3>1 DEF Orders, FrontApplied, IsApplied
  <2>3. accepted' \cap refused' = {}
        /\ \A x \in accepted' : \E i \in DOMAIN applied' : applied'[i] = x
    BY <1>4, <2>1, <2>2
  <2>. QED
    BY <1>6, <2>3, LeftKeeps DEF NothingLost
<1>11. AnswersTold'
  <2>. SUFFICES ASSUME NEW t \in told \cup {<<w, "ok">>}
                PROVE  t[1] \in (IF t[2] = "ok" THEN accepted \cup {w} ELSE refused)
    BY <1>4 DEF AnswersTold
  <2>. QED
    BY DEF WriteQueueInv, AnswersTold
<1>12. InversionsMended'
  BY <1>1, <1>5, <1>6, LeftMends
<1>. QED
  BY <1>6, <1>7, <1>9, <1>10, <1>11, <1>12, LeftKeeps DEF WriteQueueInv, Orders

\* The first write is refused, and leaves its queue.
LEMMA RefuseStep ==
    ASSUME WriteQueueInv, NEW u \in User, Refuse(u)
    PROVE  WriteQueueInv'
<1>1. TypeOK /\ Orders /\ queue[u] # <<>>
  BY DEF WriteQueueInv, Refuse
<1>2. PICK w : w = Head(queue[u])
  OBVIOUS
<1>3. /\ ahead' = [ahead EXCEPT ![u] = 0] /\ refused' = refused \cup {w}
      /\ queue' = [queue EXCEPT ![u] = Tail(@)]
      /\ told' = (IF w \in awaited THEN told \cup {<<w, "error">>} ELSE told)
      /\ awaited' = awaited \ {w}
      /\ UNCHANGED <<made, applied, accepted>>
  BY <1>2 DEF Refuse, Answer
<1>4. ahead'[u] = 0 /\ \A v \in User \ {u} : ahead'[v] = ahead[v]
  BY <1>3 DEF WriteQueueInv, TypeOK
<1>5. Left(u, w)
  BY <1>1, <1>2, <1>3, <1>4 DEF Left
<1>6. TypeOK'
  BY <1>1, TypeStep DEF Orders, Next
<1>7. w.by = u /\ InQueue(w)
  BY <1>1, <1>5, LeftFacts
<1>8. FrontApplied'
  <2>. SUFFICES ASSUME NEW v \in User
       PROVE ahead'[v] <= Len(queue'[v]) /\ \A i \in 1..ahead'[v] : IsApplied(queue'[v][i])
    BY <1>3 DEF FrontApplied, IsApplied
  <2>1. CASE v # u
    <3>1. queue'[v] = queue[v]
      BY <1>1, <1>3, <2>1, FirstLeaves
    <3>. QED
      BY <1>1, <1>4, <2>1, <3>1 DEF Orders, FrontApplied
  <2>2. CASE v = u
    <3>1. Len(queue'[u]) \in Nat
      BY <1>6, LenProperties DEF TypeOK
    <3>. QED
      BY <1>4, <2>2, <3>1
  <2>. QED
    BY <2>1, <2>2
<1>9. NothingLost'
  <2>1. w \notin accepted /\ accepted \cap refused = {}
        /\ \A x \in accepted : \E i \in DOMAIN applied : applied[i] = x
    BY <1>7 DEF WriteQueueInv, NothingLost
  <2>2. accepted' \cap refused' = {}
        /\ \A x \in accepted' : \E i \in DOMAIN applied' : applied'[i] = x
    BY <1>3, <2>1
  <2>. QED
    BY <1>5, <2>2, LeftKeeps DEF NothingLost
<1>10. AnswersTold'
  <2>. SUFFICES ASSUME NEW t \in told \cup {<<w, "error">>}
                PROVE  t[1] \in (IF t[2] = "ok" THEN accepted ELSE refused \cup {w})
    BY <1>3 DEF AnswersTold
  <2>. QED
    BY DEF WriteQueueInv, AnswersTold
<1>11. InversionsMended'
  BY <1>3, <1>4, <1>5, LeftMends
<1>. QED
  BY <1>5, <1>6, <1>8, <1>9, <1>10, <1>11, LeftKeeps DEF WriteQueueInv, Orders

-----------------------------------------------------------------------------
(***************************************************************************)
(* The connection, or the process, ends: the server starts at the first    *)
(* write again, and nothing else is different.                             *)
(***************************************************************************)

\* The server starts again from the front, or the process ends.
LEMMA BreakStep ==
    ASSUME WriteQueueInv, TypeOK', \A v \in User : ahead'[v] \in {0, ahead[v]},
           awaited' \subseteq awaited,
           UNCHANGED <<made, queue, applied, accepted, refused, told>>
    PROVE  WriteQueueInv'
<1>1. TypeOK /\ Orders
  BY DEF WriteQueueInv
<1>2. FrontApplied'
  <2>. SUFFICES ASSUME NEW v \in User
       PROVE ahead'[v] <= Len(queue[v]) /\ \A i \in 1..ahead'[v] : IsApplied(queue[v][i])
    BY DEF FrontApplied, IsApplied
  <2>1. Len(queue[v]) \in Nat
    BY <1>1, QueueFacts
  <2>. QED
    BY <1>1, <2>1 DEF Orders, FrontApplied
<1>3. QueuesOrdered' /\ AnsweredFirst' /\ AppliedKnown'
  BY <1>1 DEF Orders, QueuesOrdered, AnsweredFirst, AppliedKnown, InQueue
<1>4. InversionsMended'
  <2>. SUFFICES ASSUME NEW i \in DOMAIN applied, StillToCome(applied[i])
                PROVE  StillToCome(applied[i])'
    BY DEF WriteQueueInv, InversionsMended, Repeated
  <2>1. applied[i].by \in User
    BY <1>1, AppliedFacts, WriteFields
  <2>2. PICK q \in DOMAIN queue[applied[i].by] :
                queue[applied[i].by][q] = applied[i] /\ q > ahead[applied[i].by]
    BY DEF StillToCome
  <2>3. q > 0
    BY <1>1, <2>1, <2>2, QueueFacts
  <2>. QED
    BY <2>1, <2>2, <2>3 DEF StillToCome
<1>5. FirstsInOrder' /\ NothingLost' /\ HandlersWait' /\ AnswersTold'
  BY DEF WriteQueueInv, FirstsInOrder, NothingLost, HandlersWait, AnswersTold, InQueue
<1>. QED
  BY <1>2, <1>3, <1>4, <1>5 DEF WriteQueueInv, Orders

-----------------------------------------------------------------------------
\* The invariant holds at the start.
LEMMA InitInv == Init => WriteQueueInv
<1>. SUFFICES ASSUME Init PROVE WriteQueueInv
  OBVIOUS
<1>1. /\ <<>> \in Seq(Write) /\ DOMAIN <<>> = {} /\ Len(<<>>) = 0
  BY EmptySeq, LenProperties
<1>2. TypeOK
  BY <1>1 DEF Init, TypeOK
<1>3. Orders
  BY <1>1 DEF Init, Orders, QueuesOrdered, AnsweredFirst, FrontApplied, AppliedKnown
<1>4. FirstsInOrder /\ InversionsMended
  BY <1>1 DEF Init, FirstsInOrder, InversionsMended
<1>5. NothingLost /\ HandlersWait /\ AnswersTold
  BY <1>1 DEF Init, NothingLost, HandlersWait, AnswersTold
<1>. QED
  BY <1>2, <1>3, <1>4, <1>5 DEF WriteQueueInv

\* Every step keeps the invariant.
LEMMA NextInv == WriteQueueInv /\ [Next]_vars => WriteQueueInv'
<1>. SUFFICES ASSUME WriteQueueInv, [Next]_vars PROVE WriteQueueInv'
  OBVIOUS
<1>1. TypeOK'
  BY TypeStep DEF WriteQueueInv, Orders
<1>2. ASSUME NEW u \in User, Reconnect(u) PROVE WriteQueueInv'
  <2>1. \A v \in User : ahead'[v] \in {0, ahead[v]}
    BY <1>2 DEF Reconnect, WriteQueueInv, TypeOK
  <2>. QED
    BY <1>1, <1>2, <2>1, BreakStep DEF Reconnect
<1>3. CASE Restart
  <2>1. \A v \in User : ahead'[v] \in {0, ahead[v]}
    BY <1>3 DEF Restart
  <2>. QED
    BY <1>1, <1>3, <2>1, BreakStep DEF Restart
<1>4. CASE UNCHANGED vars
  BY <1>1, <1>4, BreakStep DEF vars
<1>. QED
  BY <1>2, <1>3, <1>4, EnqueueStep, ApplyStep, AcceptStep, RefuseStep DEF Next

\* The invariant holds in every state, for any users and any number of writes,
\* lost connections and restarts (LevelDbMutationQueue, RemoteStore).
THEOREM WriteQueueInvariant == Spec => []WriteQueueInv
BY InitInv, NextInv, PTL DEF Spec

\* The type invariant of the queues of writes.
THEOREM WriteQueueTypeOK == Spec => []TypeOK
<1>1. WriteQueueInv => TypeOK
  BY DEF WriteQueueInv
<1>. QED
  BY <1>1, WriteQueueInvariant, PTL

\* A write is not applied before the earlier ones of its user, whatever becomes
\* of the connection and the process: what updateData and setData promise.
THEOREM FirstsAreInOrder == Spec => []FirstsInOrder
<1>1. WriteQueueInv => FirstsInOrder
  BY DEF WriteQueueInv
<1>. QED
  BY <1>1, WriteQueueInvariant, PTL

\* Repeating the queue after a lost answer does not leave an earlier write
\* on top of a later one.
THEOREM LastsAreInOrder == Spec => []LastsInOrder
<1>1. WriteQueueInv => LastsInOrder
  <2>. SUFFICES ASSUME WriteQueueInv, NEW i \in DOMAIN applied, NEW j \in DOMAIN applied,
                       i < j, applied[i].by = applied[j].by, applied[i].n > applied[j].n
                PROVE  \/ \E k \in j..Len(applied) : applied[k] = applied[i]
                       \/ InQueue(applied[i])
                       \/ applied[i] \in refused
    BY DEF LastsInOrder
  <2>1. Repeated(i, j)
    BY DEF WriteQueueInv, InversionsMended
  <2>2. Len(applied) \in Nat /\ DOMAIN applied = 1..Len(applied)
    BY AppliedFacts DEF WriteQueueInv
  <2>3. ASSUME NEW k \in DOMAIN applied, k >= j PROVE k \in j..Len(applied)
    BY <2>2, <2>3
  <2>. QED
    BY <2>1, <2>3 DEF Repeated, StillToCome, InQueue
<1>. QED
  BY <1>1, WriteQueueInvariant, PTL

\* No write disappears, and none is both taken and refused: the mutation queue
\* is kept in LevelDB and a batch leaves it only with an answer.
THEOREM NothingIsLost == Spec => []NothingLost
<1>1. WriteQueueInv => NothingLost
  BY DEF WriteQueueInv
<1>. QED
  BY <1>1, WriteQueueInvariant, PTL

\* A completion handler is told what became of its write, once.
THEOREM HandlersHearTheTruth == Spec => []ToldTheTruth
<1>1. WriteQueueInv => ToldTheTruth
  <2>. SUFFICES ASSUME WriteQueueInv, NEW t \in told PROVE t[1] \notin awaited
    BY DEF ToldTheTruth, WriteQueueInv, AnswersTold
  <2>1. t[1] \in accepted \cup refused
    BY DEF WriteQueueInv, AnswersTold
  <2>. QED
    BY <2>1 DEF WriteQueueInv, NothingLost, HandlersWait
<1>. QED
  BY <1>1, WriteQueueInvariant, PTL

=============================================================================
