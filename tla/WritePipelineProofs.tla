------------------------- MODULE WritePipelineProofs -------------------------
(***************************************************************************)
(* For any users, any size of the pipeline and any number of failures: the *)
(* pipeline, the results and the completion handlers fit the mutation      *)
(* queue, and all of it behaves as WriteQueue.                             *)
(*                                                                         *)
(* Nothing the SDK exchanges with the server names a write, and what it    *)
(* keeps names one by an id that is used again.  What holds it together is *)
(* that ids grow along every queue, whoever's it is, and stay below the    *)
(* next one; that the pipeline is the front of the queue; and that what    *)
(* has been answered, refused and sent is, in this order, the pipeline.    *)
(***************************************************************************)
EXTENDS WritePipeline, SequenceTheorems, FiniteSetTheorems, WellFoundedInduction, TLAPS

Ascending(q) ==
    \A i, j \in DOMAIN q : i < j => q[i].id < q[j].id /\ q[i].write.n < q[j].write.n

\* A queue is its user's, and in the order of ids and of writes.
QueuesOrdered ==
    \A u \in User :
        /\ Ascending(queue[u])
        /\ \A i \in DOMAIN queue[u] :
              queue[u][i].id < nextBatchId
              /\ queue[u][i].write.by = u /\ queue[u][i].write.n <= made

\* What the call has brought, before the handshake is complete and after.
CallSound ==
    /\ "now" \in asked => stream = "Starting"
    /\ handshake => stream = "Open" /\ call.greeted
    /\ ~ handshake =>
          /\ call.requests = <<>>
          /\ call.responses = IF call.greeted THEN <<"handshake">> ELSE <<>>
    /\ handshake => \A i \in DOMAIN call.responses :
          \/ call.responses[i] = "result"
          \/ call.responses[i] = "error" /\ i = Len(call.responses)

StoreTypeOK ==
    /\ queue \in [User -> Seq(Batch)]
    /\ nextBatchId \in Nat
    /\ currentUser \in User
    /\ callbacks \in [User -> SUBSET Batch]
    /\ pipeline \in Seq(Batch)
    /\ faults \in Nat /\ made \in Nat

Call == [greeted : BOOLEAN, requests : Seq(Batch),
         responses : Seq({"handshake", "result", "error"}),
         failed : {"no", "posted", "next"}]

CallTypeOK ==
    /\ stream \in {"Initial", "Starting", "Open", "Error", "Backoff"}
    /\ asked \subseteq {"now", "before"}
    /\ handshake \in BOOLEAN
    /\ idle \in BOOLEAN
    /\ call \in Call

HistoryTypeOK ==
    /\ applied \in Seq(Write)
    /\ accepted \subseteq Write /\ refused \subseteq Write
    /\ told \subseteq Write \X {"ok", "error"}

\* What the SDK keeps fits together, whatever becomes of the connection ...
StoreInv == StoreTypeOK /\ QueuesOrdered /\ HandlersMatchQueue /\ PipelineIsFirstOfQueue

\* ... and so does what is on the connection.
CallInv == CallTypeOK /\ CallSound /\ ResultsMatchPipeline

PipelineInv == StoreInv /\ CallInv /\ HistoryTypeOK

-----------------------------------------------------------------------------
(***************************************************************************)
(* The operators: the least and the largest of a set of numbers, and what  *)
(* fills the pipeline and empties a queue.                                 *)
(***************************************************************************)

\* What Min and Max are of sets of naturals.
LEMMA LeastIs ==
    ASSUME NEW S \in SUBSET Nat, NEW m \in S, \A y \in S : m <= y
    PROVE  Min(S) = m
<1>1. Min(S) \in S /\ \A y \in S : Min(S) <= y
  BY DEF Min
<1>2. Min(S) \in Nat /\ m \in Nat /\ Min(S) <= m /\ m <= Min(S)
  BY <1>1
<1>. QED
  BY <1>2

\* The lesser of two naturals.
LEMMA LesserOf ==
    ASSUME NEW a \in Nat, NEW b \in Nat
    PROVE  /\ a <= b => Min({a, b}) = a
           /\ b <= a => Min({a, b}) = b
<1>1. ASSUME a <= b PROVE Min({a, b}) = a
  BY <1>1, LeastIs
<1>2. ASSUME b <= a PROVE Min({a, b}) = b
  BY <1>2, LeastIs
<1>. QED
  BY <1>1, <1>2

\* A bounded set of naturals has a largest element.
LEMMA LargestIs ==
    ASSUME NEW S \in SUBSET Nat, S # {}, NEW b \in Nat, \A x \in S : x <= b
    PROVE  Max(S) \in S /\ \A y \in S : y <= Max(S)
<1>. DEFINE Below == {k \in Nat : \E x \in S : k = b - x}
<1>1. Below \in SUBSET Nat /\ Below # {}
  <2>1. PICK x \in S : TRUE
    OBVIOUS
  <2>2. b - x \in Nat
    OBVIOUS
  <2>. QED
    BY <2>2
<1>2. PICK z \in Below : \A y \in Below : <<y, z>> \notin OpToRel(<, Nat)
  BY <1>1, WFMin, NatLessThanWellFounded
<1>3. PICK x \in S : z = b - x
  OBVIOUS
<1>4. \A y \in S : y <= x
  <2>. SUFFICES ASSUME NEW y \in S PROVE y <= x
    OBVIOUS
  <2>1. b - y \in Below /\ b - y \in Nat /\ z \in Nat
    BY <1>1
  <2>2. ~ (b - y < z)
    BY <1>2, <2>1 DEF OpToRel
  <2>. QED
    BY <1>3, <2>1, <2>2
<1>. QED
  BY <1>4 DEF Max

\* What the pipeline should hold of a queue.
FrontOf(q) == SubSeq(q, 1, Min({MaxPendingWrites, Len(q)}))

\* The front of a queue is a sequence of its first batches, as many as fit in.
LEMMA FrontFacts ==
    ASSUME NEW q \in Seq(Batch)
    PROVE  /\ FrontOf(q) \in Seq(Batch)
           /\ Len(FrontOf(q)) = Min({MaxPendingWrites, Len(q)})
           /\ Len(FrontOf(q)) \in Nat
           /\ Len(FrontOf(q)) <= MaxPendingWrites
           /\ Len(FrontOf(q)) <= Len(q)
           /\ Len(FrontOf(q)) = MaxPendingWrites \/ Len(FrontOf(q)) = Len(q)
           /\ \A i \in 1..Len(FrontOf(q)) : FrontOf(q)[i] = q[i]
           /\ q # <<>> => FrontOf(q) # <<>> /\ Head(FrontOf(q)) = Head(q)
           /\ FrontOf(q) # <<>> => q # <<>>
<1>. DEFINE k == Min({MaxPendingWrites, Len(q)})
<1>1. Len(q) \in Nat /\ MaxPendingWrites \in Nat \ {0}
  BY LimitsAssumption, LenProperties
<1>2. k \in Nat /\ k <= Len(q) /\ k <= MaxPendingWrites
      /\ (k = MaxPendingWrites \/ k = Len(q))
  BY <1>1, LesserOf
<1>. HIDE DEF k
<1>3. /\ SubSeq(q, 1, k) \in Seq(Batch) /\ Len(SubSeq(q, 1, k)) = k
      /\ \A i \in 1..k : SubSeq(q, 1, k)[i] = q[i]
  BY <1>1, <1>2, SubSeqProperties
<1>4. FrontOf(q) = SubSeq(q, 1, k)
  BY DEF FrontOf, k
<1>5. ASSUME q # <<>> PROVE FrontOf(q) # <<>> /\ Head(FrontOf(q)) = Head(q)
  <2>1. Len(q) > 0
    BY <1>1, <1>5, EmptySeq
  <2>2. k > 0
    BY <1>1, <1>2, <2>1
  <2>3. FrontOf(q) # <<>> /\ FrontOf(q)[1] = q[1]
    <3>1. Len(FrontOf(q)) = k /\ FrontOf(q)[1] = q[1] /\ FrontOf(q) \in Seq(Batch)
      BY <1>2, <1>3, <1>4, <2>2
    <3>. QED
      BY <1>2, <2>2, <3>1, EmptySeq
  <2>. QED
    BY <1>3, <1>4, <1>5, <2>3, HeadTailProperties
<1>6. ASSUME FrontOf(q) # <<>> PROVE q # <<>>
  <2>1. k > 0
    BY <1>2, <1>3, <1>4, <1>6, EmptySeq
  <2>2. Len(q) > 0
    BY <1>1, <1>2, <2>1
  <2>. QED
    BY <2>2, EmptySeq
<1>. QED
  BY <1>2, <1>3, <1>4, <1>5, <1>6 DEF k

\* Some of the first batches of q, as many as there is room for.
InFront(p, q) ==
    /\ Len(p) <= Len(q) /\ Len(p) <= MaxPendingWrites
    /\ \A i \in 1..Len(p) : p[i] = q[i]

\* Numbers that ascend from a place on are above all that is in front of it.
LEMMA AscendingFacts ==
    ASSUME NEW q \in Seq(Batch), Ascending(q)
    PROVE  /\ Len(q) \in Nat /\ DOMAIN q = 1..Len(q)
           /\ \A i \in DOMAIN q : q[i] \in Batch /\ q[i].id \in Nat /\ q[i].write \in Write
           /\ \A i, j \in DOMAIN q : q[i].id < q[j].id <=> i < j
           /\ \A i, j \in DOMAIN q : q[i].id = q[j].id => i = j
<1>1. Len(q) \in Nat /\ DOMAIN q = 1..Len(q)
  BY LenProperties
<1>2. \A i \in DOMAIN q : q[i] \in Batch /\ q[i].id \in Nat /\ q[i].write \in Write
  <2>1. \A i \in DOMAIN q : q[i] \in Batch
    BY <1>1, ElementOfSeq
  <2>. QED
    BY <2>1 DEF Batch
<1>3. \A i, j \in DOMAIN q : i < j => q[i].id < q[j].id
  BY DEF Ascending
<1>4. \A i, j \in DOMAIN q : (q[i].id < q[j].id <=> i < j) /\ (q[i].id = q[j].id => i = j)
  BY <1>1, <1>2, <1>3
<1>. QED
  BY <1>1, <1>2, <1>4

\* Whatever the pipeline holds of the front of a queue, filling it completes
\* the front.
LEMMA FilledIsFront ==
    ASSUME NEW q \in Seq(Batch), Ascending(q), NEW p \in Seq(Batch), InFront(p, q)
    PROVE  Filled(p, q) = FrontOf(q)
<1>. DEFINE later == {i \in DOMAIN q : p = <<>> \/ q[i].id > Last(p).id}
            k == Min({MaxPendingWrites, Len(q)})
<1>1. /\ Len(q) \in Nat /\ DOMAIN q = 1..Len(q) /\ Len(p) \in Nat
      /\ MaxPendingWrites \in Nat \ {0}
      /\ Len(p) <= Len(q) /\ Len(p) <= MaxPendingWrites
      /\ \A i \in 1..Len(p) : p[i] = q[i]
  BY LimitsAssumption, LenProperties DEF InFront
<1>2. k \in Len(p)..Len(q)
      /\ (Len(p) < Len(q) => Min({Len(q), MaxPendingWrites}) = k)
      /\ (Len(p) = Len(q) => k = Len(q))
  <2>1. {Len(q), MaxPendingWrites} = {MaxPendingWrites, Len(q)}
    OBVIOUS
  <2>. QED
    BY <1>1, <2>1, LesserOf
<1>3. p = SubSeq(q, 1, Len(p))
  <2>1. \A i \in 1..Len(p) : q[i] \in Batch
    BY <1>1, ElementOfSeq
  <2>2. /\ SubSeq(q, 1, Len(p)) \in Seq(Batch) /\ Len(SubSeq(q, 1, Len(p))) = Len(p)
        /\ \A i \in 1..Len(p) : SubSeq(q, 1, Len(p))[i] = q[i]
    BY <1>1, <2>1, SubSeqProperties
  <2>. QED
    BY <1>1, <2>2, SeqEqual
<1>4. later = (Len(p) + 1)..Len(q)
  <2>1. CASE p = <<>>
    BY <1>1, <2>1, EmptySeq
  <2>2. CASE p # <<>>
    <3>1. Len(p) \in DOMAIN q /\ Last(p) = q[Len(p)]
      BY <1>1, <2>2, EmptySeq DEF Last
    <3>2. \A i \in DOMAIN q : q[i].id > Last(p).id <=> Len(p) < i
      BY <3>1, AscendingFacts
    <3>. QED
      BY <1>1, <2>2, <3>2
  <2>. QED
    BY <2>1, <2>2
<1>. HIDE DEF later, k
<1>5. CASE Len(p) = Len(q)
  <2>1. later = {}
    BY <1>1, <1>4, <1>5
  <2>. QED
    BY <1>2, <1>3, <1>5, <2>1 DEF Filled, FrontOf, later, k
<1>6. CASE Len(p) < Len(q)
  <2>1. later \in SUBSET Nat /\ Len(p) + 1 \in later /\ \A i \in later : Len(p) + 1 <= i
    BY <1>1, <1>4, <1>6
  <2>2. Min(later) = Len(p) + 1
    BY <2>1, LeastIs
  <2>3. Min(later) + MaxPendingWrites - Len(p) - 1 = MaxPendingWrites
    BY <1>1, <2>2
  <2>4. Filled(p, q) = p \o SubSeq(q, Len(p) + 1, k)
    <3>1. Filled(p, q) = p \o SubSeq(q, Min(later),
                             Min({Len(q), Min(later) + MaxPendingWrites - Len(p) - 1}))
      BY <2>1 DEF Filled, later
    <3>. QED
      BY <1>2, <1>6, <2>2, <2>3, <3>1
  <2>5. SubSeq(q, 1, Len(p)) \o SubSeq(q, Len(p) + 1, k) = SubSeq(q, 1, k)
    <3>1. 1 \in 1..(Len(q) + 1) /\ Len(p) \in (1 - 1)..Len(q)
      BY <1>1
    <3>. QED
      BY <1>2, <3>1, ConcatAdjacentSubSeq
  <2>. QED
    BY <1>3, <2>4, <2>5 DEF FrontOf, k
<1>. QED
  BY <1>1, <1>5, <1>6

\* An empty pipeline holds the first batches of any queue.
LEMMA NothingInFront ==
    ASSUME NEW q \in Seq(Batch)
    PROVE  <<>> \in Seq(Batch) /\ InFront(<<>>, q)
BY EmptySeq, LenProperties, LimitsAssumption DEF InFront

\* When the first batch leaves, what is left of the front is the front of what
\* is left of the queue.
LEMMA RestInFront ==
    ASSUME NEW q \in Seq(Batch), q # <<>>
    PROVE  /\ Tail(q) \in Seq(Batch) /\ Len(Tail(q)) = Len(q) - 1
           /\ \A i \in 1..(Len(q) - 1) : Tail(q)[i] = q[i + 1]
           /\ Tail(FrontOf(q)) \in Seq(Batch)
           /\ Len(Tail(FrontOf(q))) = Len(FrontOf(q)) - 1
           /\ \A i \in 1..(Len(FrontOf(q)) - 1) : Tail(FrontOf(q))[i] = FrontOf(q)[i + 1]
           /\ InFront(Tail(FrontOf(q)), Tail(q))
<1>. DEFINE f == FrontOf(q)
<1>1. /\ f \in Seq(Batch) /\ f # <<>> /\ Len(f) <= Len(q) /\ Len(f) <= MaxPendingWrites
      /\ \A i \in 1..Len(f) : f[i] = q[i]
  BY FrontFacts
<1>. HIDE DEF f
<1>2. Len(f) \in Nat \ {0} /\ Len(q) \in Nat /\ MaxPendingWrites \in Nat
  BY <1>1, EmptySeq, LenProperties, LimitsAssumption
<1>3. /\ Tail(q) \in Seq(Batch) /\ Len(Tail(q)) = Len(q) - 1
      /\ \A i \in 1..(Len(q) - 1) : Tail(q)[i] = q[i + 1]
  BY HeadTailProperties
<1>4. /\ Tail(f) \in Seq(Batch) /\ Len(Tail(f)) = Len(f) - 1
      /\ \A i \in 1..(Len(f) - 1) : Tail(f)[i] = f[i + 1]
  BY <1>1, HeadTailProperties
<1>5. InFront(Tail(f), Tail(q))
  <2>1. ASSUME NEW i \in 1..(Len(f) - 1) PROVE Tail(f)[i] = Tail(q)[i]
    <3>1. i + 1 \in 1..Len(f) /\ i \in 1..(Len(q) - 1)
      BY <1>1, <1>2
    <3>. QED
      BY <1>1, <1>3, <1>4, <3>1
  <2>. QED
    BY <1>1, <1>2, <1>3, <1>4, <2>1 DEF InFront
<1>. QED
  BY <1>3, <1>4, <1>5 DEF f

\* The first batch is found by its id, and it is the first that leaves.
LEMMA WithoutFirst ==
    ASSUME NEW q \in Seq(Batch), Ascending(q), q # <<>>
    PROVE  Without(q, Head(q).id) = Tail(q)
<1>1. Len(q) \in Nat \ {0} /\ DOMAIN q = 1..Len(q) /\ Head(q) = q[1]
  BY EmptySeq, LenProperties, HeadTailProperties
<1>2. (CHOOSE i \in DOMAIN q : q[i].id = Head(q).id) = 1
  <2>1. 1 \in DOMAIN q /\ q[1].id = Head(q).id
    BY <1>1
  <2>2. \A i \in DOMAIN q : q[i].id = Head(q).id => i = 1
    BY <1>1, <2>1, AscendingFacts
  <2>. QED
    BY <2>1, <2>2
<1>3. RemoveAt(q, 1) = SubSeq(q, 1, 0) \o SubSeq(q, 2, Len(q))
  BY DEF RemoveAt
<1>4. SubSeq(q, 1, 0) = <<>>
  BY SubSeqEmpty
<1>5. SubSeq(q, 2, Len(q)) = Tail(q) /\ Tail(q) \in Seq(Batch)
  BY TailIsSubSeq, HeadTailProperties
<1>6. RemoveAt(q, 1) = Tail(q)
  BY <1>3, <1>4, <1>5, ConcatEmptySeq
<1>. QED
  BY <1>2, <1>6 DEF Without

\* What is left of an ordered queue is ordered.
LEMMA RestAscends ==
    ASSUME NEW q \in Seq(Batch), q # <<>>, Ascending(q)
    PROVE  Ascending(Tail(q))
<1>1. /\ Tail(q) \in Seq(Batch) /\ Len(Tail(q)) = Len(q) - 1
      /\ \A i \in 1..(Len(q) - 1) : Tail(q)[i] = q[i + 1]
  BY RestInFront
<1>2. Len(q) \in Nat /\ DOMAIN q = 1..Len(q) /\ DOMAIN Tail(q) = 1..(Len(q) - 1)
  BY <1>1, LenProperties
<1>. SUFFICES ASSUME NEW i \in 1..(Len(q) - 1), NEW j \in 1..(Len(q) - 1), i < j
              PROVE  Tail(q)[i].id < Tail(q)[j].id
                     /\ Tail(q)[i].write.n < Tail(q)[j].write.n
  BY <1>2 DEF Ascending
<1>3. i + 1 \in DOMAIN q /\ j + 1 \in DOMAIN q /\ i + 1 < j + 1
  BY <1>2
<1>. QED
  BY <1>1, <1>3 DEF Ascending

\* A number above those of every user is above each of them.
LEMMA FirstFreeIdIsFree ==
    ASSUME NEW q \in [User -> Seq(Batch)], NEW n \in Nat,
           \A u \in User : \A i \in DOMAIN q[u] : q[u][i].id < n
    PROVE  /\ FirstFreeId(q) \in Nat
           /\ \A u \in User : \A i \in DOMAIN q[u] : q[u][i].id < FirstFreeId(q)
<1>. DEFINE ids == {0} \cup UNION {{q[u][i].id : i \in DOMAIN q[u]} : u \in User}
<1>1. \A x \in ids : x \in Nat /\ x <= n
  <2>. SUFFICES ASSUME NEW u \in User, NEW i \in DOMAIN q[u]
                PROVE  q[u][i].id \in Nat /\ q[u][i].id <= n
    OBVIOUS
  <2>1. q[u] \in Seq(Batch) /\ i \in 1..Len(q[u])
    BY LenProperties
  <2>2. q[u][i] \in Batch
    BY <2>1, ElementOfSeq
  <2>3. q[u][i].id \in Nat
    BY <2>2 DEF Batch
  <2>. QED
    BY <2>3
<1>2. ids \in SUBSET Nat /\ ids # {}
  BY <1>1
<1>3. Max(ids) \in ids /\ \A x \in ids : x <= Max(ids)
  <2>. HIDE DEF ids
  <2>. QED
    BY <1>1, <1>2, LargestIs
<1>4. \A u \in User : \A i \in DOMAIN q[u] : q[u][i].id \in ids
  OBVIOUS
<1>5. FirstFreeId(q) = Max(ids) + 1
  BY DEF FirstFreeId
<1>. HIDE DEF ids
<1>. QED
  BY <1>1, <1>3, <1>4, <1>5

-----------------------------------------------------------------------------
(***************************************************************************)
(* Parts of handlers.                                                      *)
(***************************************************************************)

\* The parts of the invariant about types are TypeOK (WritePipeline).
LEMMA TypesTogether == TypeOK <=> StoreTypeOK /\ CallTypeOK /\ HistoryTypeOK
BY DEF TypeOK, StoreTypeOK, CallTypeOK, HistoryTypeOK, Call

\* The queue of the current user, of which the pipeline holds the front.
LEMMA CurrentQueue ==
    ASSUME StoreInv
    PROVE  /\ currentUser \in User
           /\ queue[currentUser] \in Seq(Batch)
           /\ Ascending(queue[currentUser])
           /\ pipeline = FrontOf(queue[currentUser])
           /\ InFront(pipeline, queue[currentUser])
           /\ pipeline # <<>> =>
                 queue[currentUser] # <<>> /\ Head(pipeline) = Head(queue[currentUser])
<1>1. /\ currentUser \in User /\ queue[currentUser] \in Seq(Batch)
      /\ Ascending(queue[currentUser])
      /\ pipeline = FrontOf(queue[currentUser])
  BY DEF StoreInv, StoreTypeOK, QueuesOrdered, PipelineIsFirstOfQueue, FrontOf
<1>2. InFront(pipeline, queue[currentUser])
  BY <1>1, FrontFacts DEF InFront
<1>3. pipeline # <<>> => queue[currentUser] # <<>>
  BY <1>1, FrontFacts
<1>. QED
  BY <1>1, <1>2, <1>3, FrontFacts

\* The stream asks for a token only when it starts; one that has started goes
\* on as it is.
LEMMA StartFacts ==
    ASSUME NEW s \in {"Initial", "Starting", "Open", "Error", "Backoff"},
           NEW a \in SUBSET {"now", "before"}, "now" \in a => s = "Starting",
           NEW p, StartIfNeeded(s, a, p)
    PROVE  /\ stream' \in {"Initial", "Starting", "Open", "Error", "Backoff"}
           /\ asked' \in SUBSET {"now", "before"}
           /\ "now" \in asked' => stream' = "Starting"
           /\ pipeline' = p
           /\ Started(s) => stream' = s
BY DEF StartIfNeeded, Started

\* Without a call there is nothing to fit.
LEMMA NoCallIsSound ==
    ASSUME stream' \in {"Initial", "Starting", "Open", "Error", "Backoff"},
           asked' \in SUBSET {"now", "before"}, "now" \in asked' => stream' = "Starting",
           handshake' = FALSE, idle' \in BOOLEAN, call' = NoCall
    PROVE  CallInv'
<1>1. NoCall \in Call /\ NoCall.requests = <<>> /\ NoCall.responses = <<>>
      /\ NoCall.greeted = FALSE
  BY EmptySeq DEF NoCall, Call
<1>2. CallTypeOK'
  BY <1>1 DEF CallTypeOK
<1>3. CallSound'
  BY <1>1 DEF CallSound
<1>4. ResultsMatchPipeline'
  BY DEF ResultsMatchPipeline
<1>. QED
  BY <1>2, <1>3, <1>4 DEF CallInv

\* Stream::Close leaves no call, no handshake and no token that is waited for.
LEMMA ClosedIsSound ==
    ASSUME CallInv, NEW s \in {"Initial", "Error"}, NEW p, Closed(s, p)
    PROVE  CallInv' /\ pipeline' = p
<1>1. Outdated(asked) \in SUBSET {"now", "before"} /\ "now" \notin Outdated(asked)
  BY DEF Outdated
<1>2. StartIfNeeded(s, Outdated(asked), p) /\ handshake' = FALSE /\ idle' = FALSE
      /\ call' = NoCall
  BY DEF Closed
<1>. QED
  BY <1>1, <1>2, StartFacts, NoCallIsSound

\* RestartNetwork fills the pipeline from the start of the queue, on a new stream.
LEMMA RestartedIsSound ==
    ASSUME StoreInv, CallInv, NEW u \in User, Restarted(u, queue)
    PROVE  CallInv' /\ currentUser' = u /\ pipeline' = FrontOf(queue[u])
<1>. DEFINE a == IF Started(stream) THEN Outdated(asked) ELSE asked
<1>1. a \in SUBSET {"now", "before"} /\ "now" \notin a
  BY DEF Outdated, Started, CallInv, CallTypeOK, CallSound
<1>2. StartIfNeeded("Initial", a, Filled(<<>>, queue[u])) /\ handshake' = FALSE
      /\ idle' = FALSE /\ call' = NoCall /\ currentUser' = u
  BY DEF Restarted
<1>3. Filled(<<>>, queue[u]) = FrontOf(queue[u])
  <2>1. queue[u] \in Seq(Batch) /\ Ascending(queue[u])
    BY DEF StoreInv, StoreTypeOK, QueuesOrdered
  <2>. QED
    BY <2>1, NothingInFront, FilledIsFront
<1>. HIDE DEF a
<1>. QED
  BY <1>1, <1>2, <1>3, StartFacts, NoCallIsSound

\* What is on the connection fits when the pipeline is p and the call c.
Fits(p, c) ==
    /\ Len(p) = Len(c.responses) + Len(c.requests)
    /\ \A i \in DOMAIN c.requests : c.requests[i] = p[Len(c.responses) + i]

\* All answers are results, but the last may be an error.
AnswersSound(c) ==
    \A i \in DOMAIN c.responses :
        \/ c.responses[i] = "result"
        \/ c.responses[i] = "error" /\ i = Len(c.responses)

\* What is new in the pipeline goes behind what had been sent of it.
LEMMA SentBehind ==
    ASSUME NEW kept \in Seq(Batch), NEW p \in Seq(Batch), NEW r \in Seq(Batch),
           Len(kept) <= Len(p), \A i \in 1..Len(kept) : p[i] = kept[i],
           NEW m \in Nat, Len(kept) = m + Len(r), \A i \in 1..Len(r) : r[i] = kept[m + i]
    PROVE  LET new == SubSeq(p, Len(kept) + 1, Len(p))
           IN  /\ new \in Seq(Batch) /\ r \o new \in Seq(Batch)
               /\ Len(p) = m + Len(r \o new)
               /\ \A i \in DOMAIN (r \o new) : (r \o new)[i] = p[m + i]
<1>. DEFINE new == SubSeq(p, Len(kept) + 1, Len(p))
<1>1. Len(kept) \in Nat /\ Len(p) \in Nat /\ Len(r) \in Nat
  BY LenProperties
<1>2. /\ new \in Seq(Batch) /\ Len(new) = Len(p) - Len(kept)
      /\ \A i \in 1..(Len(p) - Len(kept)) : new[i] = p[Len(kept) + i]
  <2>1. \A i \in (Len(kept) + 1)..Len(p) : p[i] \in Batch
    BY <1>1, ElementOfSeq
  <2>2. /\ new \in Seq(Batch)
        /\ Len(new) = IF Len(kept) + 1 <= Len(p) THEN Len(p) - (Len(kept) + 1) + 1 ELSE 0
        /\ \A i \in 1..(Len(p) - (Len(kept) + 1) + 1) : new[i] = p[(Len(kept) + 1) + i - 1]
    BY <1>1, <2>1, SubSeqProperties
  <2>. HIDE DEF new
  <2>3. ASSUME NEW i \in 1..(Len(p) - Len(kept)) PROVE new[i] = p[Len(kept) + i]
    <3>1. i \in 1..(Len(p) - (Len(kept) + 1) + 1) /\ (Len(kept) + 1) + i - 1 = Len(kept) + i
      BY <1>1
    <3>. QED
      BY <2>2, <3>1
  <2>. QED
    BY <1>1, <2>2, <2>3
<1>. HIDE DEF new
<1>3. /\ r \o new \in Seq(Batch) /\ Len(r \o new) = Len(r) + Len(new)
      /\ \A i \in 1..(Len(r) + Len(new)) :
            (r \o new)[i] = IF i <= Len(r) THEN r[i] ELSE new[i - Len(r)]
  BY <1>2, ConcatProperties
<1>4. Len(p) = m + Len(r \o new)
  BY <1>1, <1>2, <1>3
<1>5. DOMAIN (r \o new) = 1..(Len(r) + Len(new))
  BY <1>3, LenProperties
<1>6. ASSUME NEW i \in 1..(Len(r) + Len(new)) PROVE (r \o new)[i] = p[m + i]
  <2>1. CASE i <= Len(r)
    <3>1. m + i \in 1..Len(kept) /\ i \in 1..Len(r)
      BY <1>1, <1>2, <2>1
    <3>. QED
      BY <1>1, <1>3, <2>1, <3>1
  <2>2. CASE ~ (i <= Len(r))
    <3>1. i - Len(r) \in 1..(Len(p) - Len(kept)) /\ Len(kept) + (i - Len(r)) = m + i
      BY <1>1, <1>2, <2>2
    <3>. QED
      BY <1>2, <1>3, <2>2, <3>1
  <2>. QED
    BY <2>1, <2>2
<1>. QED
  BY <1>2, <1>3, <1>4, <1>5, <1>6 DEF new

\* The parts of a call.
LEMMA CallFields ==
    ASSUME NEW c \in Call
    PROVE  /\ c.requests \in Seq(Batch) /\ Len(c.requests) \in Nat
           /\ DOMAIN c.requests = 1..Len(c.requests)
           /\ c.responses \in Seq({"handshake", "result", "error"})
           /\ Len(c.responses) \in Nat /\ DOMAIN c.responses = 1..Len(c.responses)
<1>1. c.requests \in Seq(Batch) /\ c.responses \in Seq({"handshake", "result", "error"})
  BY DEF Call
<1>. QED
  BY <1>1, LenProperties

\* Batches sent behind those under way fit their answers (WriteMutations).
LEMMA SentFits ==
    ASSUME NEW kept \in Seq(Batch), NEW p \in Seq(Batch), NEW c \in Call,
           Len(kept) <= Len(p), \A i \in 1..Len(kept) : p[i] = kept[i],
           Fits(kept, c)
    PROVE  LET new == SubSeq(p, Len(kept) + 1, Len(p))
           IN  /\ new \in Seq(Batch)
               /\ [c EXCEPT !.requests = @ \o new] \in Call
               /\ Fits(p, [c EXCEPT !.requests = @ \o new])
<1>. DEFINE new == SubSeq(p, Len(kept) + 1, Len(p))
            d == [c EXCEPT !.requests = @ \o new]
<1>1. PICK r : r = c.requests
  OBVIOUS
<1>2. PICK m : m = Len(c.responses)
  OBVIOUS
<1>3. r \in Seq(Batch) /\ m \in Nat /\ Len(kept) = m + Len(r)
      /\ \A i \in 1..Len(r) : r[i] = kept[m + i]
  BY <1>1, <1>2, CallFields DEF Fits
<1>4. /\ new \in Seq(Batch) /\ r \o new \in Seq(Batch)
      /\ Len(p) = m + Len(r \o new)
      /\ \A i \in DOMAIN (r \o new) : (r \o new)[i] = p[m + i]
  BY <1>3, SentBehind
<1>. HIDE DEF new
<1>5. d.requests = r \o new /\ d.responses = c.responses /\ d \in Call
  BY <1>1, <1>4 DEF Call
<1>. HIDE DEF d
<1>6. Fits(p, d)
  BY <1>2, <1>4, <1>5 DEF Fits
<1>. QED
  BY <1>4, <1>5, <1>6 DEF new, d

\* FillWritePipeline and what it sends keep the call in step with the pipeline.
LEMMA RefilledIsSound ==
    ASSUME CallInv, NEW q \in Seq(Batch), Ascending(q),
           NEW kept \in Seq(Batch), InFront(kept, q),
           NEW c \in Call, c.greeted = call.greeted,
           ~ handshake => c.responses = call.responses /\ c.requests = call.requests,
           handshake => AnswersSound(c) /\ Fits(kept, c),
           Refilled(kept, Filled(kept, q), c)
    PROVE  CallInv' /\ pipeline' = FrontOf(q)
<1>. DEFINE p == FrontOf(q)
            new == IF handshake THEN SubSeq(p, Len(kept) + 1, Len(p)) ELSE <<>>
            d == [c EXCEPT !.requests = @ \o new]
<1>1. Filled(kept, q) = p
  BY FilledIsFront
<1>2. /\ p \in Seq(Batch) /\ Len(kept) <= Len(p)
      /\ \A i \in 1..Len(kept) : p[i] = kept[i]
  <2>1. Len(q) \in Nat /\ Len(kept) \in Nat /\ MaxPendingWrites \in Nat
    BY LenProperties, LimitsAssumption
  <2>2. /\ p \in Seq(Batch) /\ Len(p) \in Nat
        /\ Len(p) = MaxPendingWrites \/ Len(p) = Len(q)
        /\ \A i \in 1..Len(p) : p[i] = q[i]
    BY FrontFacts
  <2>3. /\ Len(kept) <= Len(q) /\ Len(kept) <= MaxPendingWrites
        /\ \A i \in 1..Len(kept) : kept[i] = q[i]
    BY DEF InFront
  <2>4. Len(kept) <= Len(p)
    BY <2>2, <2>3
  <2>. QED
    BY <2>1, <2>2, <2>3, <2>4
<1>. HIDE DEF p
<1>3. StartIfNeeded(stream, asked, p) /\ call' = d /\ handshake' = handshake
      /\ idle' = IF p = <<>> THEN stream = "Open" ELSE idle /\ new = <<>>
  BY <1>1 DEF Refilled
<1>4. stream' \in {"Initial", "Starting", "Open", "Error", "Backoff"}
      /\ asked' \in SUBSET {"now", "before"} /\ ("now" \in asked' => stream' = "Starting")
      /\ pipeline' = p /\ (Started(stream) => stream' = stream)
  BY <1>3, StartFacts DEF CallInv, CallTypeOK, CallSound
<1>5. c.requests \in Seq(Batch) /\ d.responses = c.responses /\ d.greeted = c.greeted
      /\ d.requests = c.requests \o new
  BY DEF Call
<1>6. CASE handshake
  <2>1. d \in Call /\ Fits(p, d)
    BY <1>2, <1>6, SentFits
  <2>3. stream' = "Open" /\ call.greeted
    BY <1>4, <1>6 DEF Started, CallInv, CallSound
  <2>. HIDE DEF new, d
  <2>4. idle' \in BOOLEAN
    BY <1>3 DEF CallInv, CallTypeOK
  <2>5. CallTypeOK'
    BY <1>3, <1>4, <1>6, <2>1, <2>4 DEF CallTypeOK
  <2>6. CallSound'
    BY <1>3, <1>4, <1>5, <1>6, <2>3 DEF CallSound, AnswersSound
  <2>7. ResultsMatchPipeline'
    BY <1>3, <1>4, <2>1 DEF ResultsMatchPipeline, Fits
  <2>. QED
    BY <1>4, <2>5, <2>6, <2>7 DEF CallInv, p
<1>7. CASE ~ handshake
  <2>1. new = <<>> /\ c.requests = <<>> /\ c.responses = call.responses
    BY <1>7 DEF CallInv, CallSound
  <2>. HIDE DEF new
  <2>2. d.requests = <<>>
    <3>1. <<>> \o <<>> = <<>>
      BY EmptySeq, ConcatEmptySeq
    <3>. QED
      BY <1>5, <2>1, <3>1
  <2>3. d \in Call
    BY <1>5, <2>1, <2>2, EmptySeq DEF Call
  <2>. HIDE DEF d
  <2>4. idle' \in BOOLEAN /\ handshake' \in BOOLEAN
    BY <1>3, <1>7 DEF CallInv, CallTypeOK
  <2>5. CallTypeOK'
    BY <1>3, <1>4, <2>3, <2>4 DEF CallTypeOK
  <2>6. CallSound'
    BY <1>3, <1>4, <1>5, <1>7, <2>1, <2>2 DEF CallSound, CallInv
  <2>7. ResultsMatchPipeline'
    BY <1>3, <1>7 DEF ResultsMatchPipeline
  <2>. QED
    BY <1>4, <2>5, <2>6, <2>7 DEF CallInv, p
<1>. QED
  BY <1>6, <1>7 DEF CallInv, CallTypeOK

-----------------------------------------------------------------------------
(***************************************************************************)
(* What the SDK keeps: as it was, with one batch more, without its first.  *)
(***************************************************************************)

\* A step that leaves the queues alone, and the handlers too or drops them all.
LEMMA StoreStays ==
    ASSUME StoreInv, queue' = queue, made' = made,
           callbacks' = callbacks \/ callbacks' = [u \in User |-> {}],
           currentUser' \in User, pipeline' = FrontOf(queue[currentUser']),
           nextBatchId' = nextBatchId \/ nextBatchId' = FirstFreeId(queue),
           faults' \in Nat
    PROVE  StoreInv'
<1>1. /\ queue \in [User -> Seq(Batch)] /\ nextBatchId \in Nat /\ made \in Nat
      /\ callbacks \in [User -> SUBSET Batch]
      /\ \A u \in User : Ascending(queue[u])
      /\ \A u \in User : \A i \in DOMAIN queue[u] : queue[u][i].id < nextBatchId
  BY DEF StoreInv, StoreTypeOK, QueuesOrdered
<1>2. /\ nextBatchId' \in Nat
      /\ \A u \in User : \A i \in DOMAIN queue[u] : queue[u][i].id < nextBatchId'
  BY <1>1, FirstFreeIdIsFree
<1>3. StoreTypeOK'
  <2>1. pipeline' \in Seq(Batch)
    BY <1>1, FrontFacts
  <2>2. callbacks' \in [User -> SUBSET Batch]
    BY <1>1
  <2>. QED
    BY <1>1, <1>2, <2>1, <2>2 DEF StoreTypeOK
<1>4. QueuesOrdered'
  BY <1>2 DEF StoreInv, QueuesOrdered, Ascending
<1>5. HandlersMatchQueue'
  BY DEF StoreInv, HandlersMatchQueue
<1>6. PipelineIsFirstOfQueue'
  BY DEF PipelineIsFirstOfQueue, FrontOf
<1>. QED
  BY <1>3, <1>4, <1>5, <1>6 DEF StoreInv

\* A write gets the largest id of all, and the front of its queue only grows.
LEMMA StoreGrows ==
    ASSUME StoreInv, WriteMutations
    PROVE  LET batch == [id |-> nextBatchId, write |-> [by |-> currentUser, n |-> made + 1]]
               q == Append(queue[currentUser], batch)
           IN  /\ batch \in Batch /\ q \in Seq(Batch) /\ Ascending(q)
               /\ InFront(pipeline, q)
               /\ pipeline' = FrontOf(q) => StoreInv'
<1>. DEFINE cu == currentUser
            batch == [id |-> nextBatchId, write |-> [by |-> currentUser, n |-> made + 1]]
            q == Append(queue[cu], batch)
            l == Len(queue[cu])
<1>1. /\ cu \in User /\ queue[cu] \in Seq(Batch) /\ Ascending(queue[cu])
      /\ queue \in [User -> Seq(Batch)] /\ made \in Nat /\ nextBatchId \in Nat
      /\ callbacks \in [User -> SUBSET Batch]
      /\ InFront(pipeline, queue[cu]) /\ pipeline \in Seq(Batch)
  BY CurrentQueue DEF StoreInv, StoreTypeOK
<1>2. batch \in Batch /\ batch.id = nextBatchId
      /\ batch.write.by = cu /\ batch.write.n = made + 1
  BY <1>1 DEF Batch, Write
<1>3. /\ queue' = [queue EXCEPT ![cu] = q] /\ made' = made + 1
      /\ nextBatchId' = nextBatchId + 1
      /\ callbacks' = [callbacks EXCEPT ![cu] = @ \cup {batch}]
      /\ currentUser' = cu /\ faults' = faults
  BY DEF WriteMutations
<1>. HIDE DEF batch
<1>4. /\ q \in Seq(Batch) /\ Len(q) = l + 1 /\ q[l + 1] = batch
      /\ \A i \in 1..l : q[i] = queue[cu][i]
  BY <1>1, <1>2, AppendProperties
<1>5. DOMAIN q = 1..(l + 1) /\ l \in Nat /\ DOMAIN queue[cu] = 1..l
  BY <1>1, <1>4, LenProperties
<1>. HIDE DEF q, l
<1>6. \A i \in 1..l : queue[cu][i].id < nextBatchId
                      /\ queue[cu][i].write.by = cu /\ queue[cu][i].write.n <= made
                      /\ queue[cu][i].id \in Nat /\ queue[cu][i].write.n \in Nat
  <2>1. \A i \in 1..l : queue[cu][i].write \in Write /\ queue[cu][i].id \in Nat
    BY <1>1, <1>5, AscendingFacts
  <2>. QED
    BY <1>1, <1>5, <2>1 DEF StoreInv, QueuesOrdered, Write
<1>7. Ascending(q)
  <2>. SUFFICES ASSUME NEW i \in 1..(l + 1), NEW j \in 1..(l + 1), i < j
                PROVE  q[i].id < q[j].id /\ q[i].write.n < q[j].write.n
    BY <1>5 DEF Ascending
  <2>1. CASE j \in 1..l
    <3>1. i \in 1..l
      BY <1>5, <2>1
    <3>. QED
      BY <1>1, <1>4, <1>5, <2>1, <3>1 DEF Ascending
  <2>2. CASE j = l + 1
    <3>1. i \in 1..l
      BY <1>5, <2>2
    <3>2. q[j].id = nextBatchId /\ q[j].write.n = made + 1 /\ q[i] = queue[cu][i]
      BY <1>2, <1>4, <2>2, <3>1
    <3>. QED
      BY <1>1, <1>6, <3>1, <3>2
  <2>. QED
    BY <1>5, <2>1, <2>2
<1>8. InFront(pipeline, q)
  <2>1. Len(pipeline) \in Nat /\ Len(pipeline) <= l
        /\ \A i \in 1..Len(pipeline) : pipeline[i] = queue[cu][i]
    BY <1>1, LenProperties DEF InFront, l
  <2>2. \A i \in 1..Len(pipeline) : pipeline[i] = q[i]
    BY <1>4, <1>5, <2>1
  <2>. QED
    BY <1>1, <1>4, <1>5, <2>1, <2>2 DEF InFront
<1>9. ASSUME pipeline' = FrontOf(q) PROVE StoreInv'
  <2>1. queue' \in [User -> Seq(Batch)] /\ queue'[cu] = q
        /\ \A u \in User \ {cu} : queue'[u] = queue[u]
    BY <1>1, <1>3, <1>4
  <2>2. StoreTypeOK'
    <3>1. pipeline' \in Seq(Batch)
      BY <1>4, <1>9, FrontFacts
    <3>2. callbacks' \in [User -> SUBSET Batch]
      BY <1>1, <1>2, <1>3
    <3>. QED
      BY <1>1, <1>3, <2>1, <3>1, <3>2 DEF StoreInv, StoreTypeOK
  <2>3. QueuesOrdered'
    <3>1. ASSUME NEW i \in 1..(l + 1)
          PROVE  q[i].id < nextBatchId + 1 /\ q[i].write.by = cu
                 /\ q[i].write.n <= made + 1
      BY <1>1, <1>2, <1>4, <1>5, <1>6
    <3>2. \A u \in User \ {cu} : \A i \in DOMAIN queue[u] :
             queue[u][i].id < nextBatchId + 1 /\ queue[u][i].write.n <= made + 1
      <4>. SUFFICES ASSUME NEW u \in User, NEW i \in DOMAIN queue[u]
                    PROVE  queue[u][i].id < nextBatchId + 1
                           /\ queue[u][i].write.n <= made + 1
        OBVIOUS
      <4>1. queue[u] \in Seq(Batch) /\ Ascending(queue[u])
            /\ queue[u][i].id < nextBatchId /\ queue[u][i].write.n <= made
        BY <1>1 DEF StoreInv, QueuesOrdered
      <4>2. queue[u][i].id \in Nat /\ queue[u][i].write \in Write
        BY <4>1, AscendingFacts
      <4>3. queue[u][i].write.n \in Nat
        BY <4>2 DEF Write
      <4>. QED
        BY <1>1, <4>1, <4>2, <4>3
    <3>3. ASSUME NEW u \in User
          PROVE  /\ Ascending(queue'[u])
                 /\ \A i \in DOMAIN queue'[u] :
                       queue'[u][i].id < nextBatchId'
                       /\ queue'[u][i].write.by = u /\ queue'[u][i].write.n <= made'
      <4>1. CASE u = cu
        BY <1>3, <1>5, <1>7, <2>1, <3>1, <4>1
      <4>2. CASE u # cu
        BY <1>3, <2>1, <3>2, <4>2 DEF StoreInv, QueuesOrdered
      <4>. QED
        BY <4>1, <4>2
    <3>. QED
      BY <3>3 DEF QueuesOrdered, Ascending
  <2>4. HandlersMatchQueue'
    <3>. SUFFICES ASSUME NEW u \in User, NEW c \in callbacks'[u]
                  PROVE  \E i \in DOMAIN queue'[u] : queue'[u][i] = c
      BY DEF HandlersMatchQueue
    <3>1. CASE u # cu
      BY <1>1, <1>3, <2>1, <3>1 DEF StoreInv, HandlersMatchQueue
    <3>2. CASE u = cu /\ c = batch
      BY <1>4, <1>5, <2>1, <3>2
    <3>3. CASE u = cu /\ c \in callbacks[cu]
      <4>1. PICK i \in 1..l : queue[cu][i] = c
        BY <1>1, <1>5, <3>3 DEF StoreInv, HandlersMatchQueue
      <4>2. i \in DOMAIN q /\ q[i] = c
        BY <1>4, <1>5, <4>1
      <4>. QED
        BY <2>1, <3>3, <4>2
    <3>. QED
      BY <1>1, <1>3, <3>1, <3>2, <3>3
  <2>5. PipelineIsFirstOfQueue'
    BY <1>3, <1>9, <2>1 DEF PipelineIsFirstOfQueue, FrontOf
  <2>. QED
    BY <2>2, <2>3, <2>4, <2>5 DEF StoreInv
<1>. QED
  BY <1>2, <1>4, <1>7, <1>8, <1>9 DEF batch, q

\* A handler found by the id of a queue's first batch is that batch's, and so
\* is one that waits for its write.
LEMMA HandlersOfFirst ==
    ASSUME StoreInv, queue[currentUser] # <<>>
    PROVE  LET first == Head(queue[currentUser])
           IN  /\ first \in Batch
               /\ \A c \in callbacks[currentUser] : c.id = first.id => c = first
               /\ \A u \in User : \A c \in callbacks[u] :
                     c.write = first.write => u = currentUser /\ c = first
<1>. DEFINE cu == currentUser
            q == queue[cu]
            first == Head(q)
<1>1. cu \in User /\ q \in Seq(Batch) /\ Ascending(q)
  BY CurrentQueue
<1>2. Len(q) \in Nat \ {0} /\ DOMAIN q = 1..Len(q) /\ first = q[1] /\ first \in Batch
  BY <1>1, EmptySeq, LenProperties, HeadTailProperties
<1>. HIDE DEF first
<1>3. ASSUME NEW c \in callbacks[cu], c.id = first.id PROVE c = first
  <2>1. PICK i \in DOMAIN q : q[i] = c
    BY <1>1 DEF StoreInv, HandlersMatchQueue
  <2>2. i = 1
    BY <1>1, <1>2, <1>3, <2>1, AscendingFacts
  <2>. QED
    BY <1>2, <2>1, <2>2
<1>4. ASSUME NEW u \in User, NEW c \in callbacks[u], c.write = first.write
      PROVE  u = cu /\ c = first
  <2>1. PICK i \in DOMAIN queue[u] : queue[u][i] = c
    BY DEF StoreInv, HandlersMatchQueue
  <2>2. u = cu
    <3>1. c.write.by = u
      BY <2>1 DEF StoreInv, QueuesOrdered
    <3>2. first.write.by = cu
      BY <1>1, <1>2 DEF StoreInv, QueuesOrdered
    <3>. QED
      BY <1>4, <3>1, <3>2
  <2>3. i = 1
    <3>1. i > 1 => q[1].write.n < q[i].write.n
      BY <1>1, <1>2, <2>1, <2>2 DEF Ascending
    <3>2. q[1].write.n = q[i].write.n /\ q[1].write.n \in Nat
      <4>1. q[1].write = q[i].write /\ q[1].write \in Write
        BY <1>1, <1>2, <1>4, <2>1, <2>2, AscendingFacts
      <4>. QED
        BY <4>1 DEF Write
    <3>. QED
      BY <1>2, <2>1, <2>2, <3>1, <3>2
  <2>. QED
    BY <1>2, <2>1, <2>2, <2>3
<1>. QED
  BY <1>2, <1>3, <1>4 DEF first

\* The answered batch leaves its queue, and its handler the registered ones.
LEMMA StoreShrinks ==
    ASSUME StoreInv, queue[currentUser] # <<>>,
           queue' = [queue EXCEPT ![currentUser] = Tail(queue[currentUser])],
           pipeline' = FrontOf(Tail(queue[currentUser])),
           NEW answer, NotifyUser(Head(queue[currentUser]).id, answer),
           UNCHANGED <<nextBatchId, currentUser, faults, made>>
    PROVE  StoreInv'
<1>. DEFINE cu == currentUser
            q == queue[cu]
            t == Tail(q)
            first == Head(q)
<1>1. /\ cu \in User /\ q \in Seq(Batch) /\ Ascending(q)
      /\ queue \in [User -> Seq(Batch)] /\ callbacks \in [User -> SUBSET Batch]
  BY CurrentQueue DEF StoreInv, StoreTypeOK
<1>2. /\ t \in Seq(Batch) /\ Len(t) = Len(q) - 1 /\ Ascending(t)
      /\ \A i \in 1..(Len(q) - 1) : t[i] = q[i + 1]
  BY <1>1, RestInFront, RestAscends
<1>3. Len(q) \in Nat \ {0} /\ DOMAIN q = 1..Len(q) /\ first = q[1]
  BY <1>1, EmptySeq, LenProperties, HeadTailProperties
<1>4. DOMAIN t = 1..(Len(q) - 1)
  BY <1>2, LenProperties
<1>5. queue' \in [User -> Seq(Batch)] /\ queue'[cu] = t
      /\ \A u \in User \ {cu} : queue'[u] = queue[u]
  BY <1>1, <1>2
<1>6. /\ \A u \in User \ {cu} : callbacks'[u] = callbacks[u]
      /\ callbacks'[cu] = callbacks[cu] \ {c \in callbacks[cu] : c.id = first.id}
      /\ callbacks' \in [User -> SUBSET Batch]
  BY <1>1 DEF NotifyUser
<1>. HIDE DEF t, first
<1>7. ASSUME NEW i \in 1..(Len(q) - 1) PROVE i + 1 \in DOMAIN q /\ t[i] = q[i + 1]
  BY <1>2, <1>3
<1>8. StoreTypeOK'
  <2>1. pipeline' \in Seq(Batch)
    BY <1>2, FrontFacts DEF t
  <2>. QED
    BY <1>5, <1>6, <2>1 DEF StoreInv, StoreTypeOK
<1>9. QueuesOrdered'
  <2>. SUFFICES ASSUME NEW u \in User
                PROVE  /\ Ascending(queue'[u])
                       /\ \A i \in DOMAIN queue'[u] :
                             queue'[u][i].id < nextBatchId
                             /\ queue'[u][i].write.by = u /\ queue'[u][i].write.n <= made
    BY DEF QueuesOrdered, Ascending
  <2>1. CASE u = cu
    <3>1. \A i \in DOMAIN q : q[i].id < nextBatchId
                               /\ q[i].write.by = cu /\ q[i].write.n <= made
      BY <1>1 DEF StoreInv, QueuesOrdered
    <3>2. \A i \in 1..(Len(q) - 1) : t[i].id < nextBatchId
                               /\ t[i].write.by = cu /\ t[i].write.n <= made
      BY <1>7, <3>1
    <3>. QED
      BY <1>2, <1>4, <1>5, <2>1, <3>2
  <2>2. CASE u # cu
    BY <1>5, <2>2 DEF StoreInv, QueuesOrdered
  <2>. QED
    BY <2>1, <2>2
<1>10. HandlersMatchQueue'
  <2>. SUFFICES ASSUME NEW u \in User, NEW c \in callbacks'[u]
                PROVE  \E i \in DOMAIN queue'[u] : queue'[u][i] = c
    BY DEF HandlersMatchQueue
  <2>1. CASE u # cu
    BY <1>5, <1>6, <2>1 DEF StoreInv, HandlersMatchQueue
  <2>2. CASE u = cu
    <3>1. c \in callbacks[cu] /\ c.id # first.id
      BY <1>6, <2>2
    <3>2. PICK i \in DOMAIN q : q[i] = c
      BY <1>1, <3>1 DEF StoreInv, HandlersMatchQueue
    <3>3. i # 1
      BY <1>3, <3>1, <3>2
    <3>4. i - 1 \in 1..(Len(q) - 1) /\ (i - 1) + 1 = i
      <4>1. PICK l \in Nat : l = Len(q)
        BY <1>3
      <4>2. i \in 1..l
        BY <1>3, <3>2, <4>1
      <4>3. i - 1 \in 1..(l - 1) /\ (i - 1) + 1 = i
        BY <3>3, <4>1, <4>2
      <4>. QED
        BY <4>1, <4>3
    <3>5. t[i - 1] = c
      BY <1>2, <3>2, <3>4
    <3>. QED
      BY <1>4, <1>5, <2>2, <3>4, <3>5
  <2>. QED
    BY <2>1, <2>2
<1>11. PipelineIsFirstOfQueue'
  BY <1>5 DEF PipelineIsFirstOfQueue, FrontOf, t
<1>. QED
  BY <1>8, <1>9, <1>10, <1>11 DEF StoreInv

\* The first batch of the pipeline is that of the queue, and its place is taken.
LEMMA FirstOfPipeline ==
    ASSUME StoreInv, pipeline # <<>>
    PROVE  LET q == queue[currentUser]
           IN  /\ q \in Seq(Batch) /\ q # <<>> /\ Head(pipeline) = Head(q)
               /\ Head(q) \in Batch
               /\ Without(q, Head(pipeline).id) = Tail(q)
               /\ Tail(q) \in Seq(Batch) /\ Ascending(Tail(q))
               /\ Tail(pipeline) \in Seq(Batch) /\ InFront(Tail(pipeline), Tail(q))
               /\ Len(Tail(pipeline)) = Len(pipeline) - 1
               /\ \A i \in 1..(Len(pipeline) - 1) : Tail(pipeline)[i] = pipeline[i + 1]
               /\ Filled(Tail(pipeline), Tail(q)) = FrontOf(Tail(q))
<1>. DEFINE q == queue[currentUser]
<1>1. q \in Seq(Batch) /\ q # <<>> /\ Ascending(q)
      /\ pipeline = FrontOf(q) /\ Head(pipeline) = Head(q)
  BY CurrentQueue
<1>2. Head(q) \in Batch /\ Without(q, Head(pipeline).id) = Tail(q)
  BY <1>1, WithoutFirst, HeadTailProperties
<1>3. /\ Tail(q) \in Seq(Batch) /\ Ascending(Tail(q))
      /\ Tail(pipeline) \in Seq(Batch) /\ InFront(Tail(pipeline), Tail(q))
      /\ Len(Tail(pipeline)) = Len(pipeline) - 1
      /\ \A i \in 1..(Len(pipeline) - 1) : Tail(pipeline)[i] = pipeline[i + 1]
  BY <1>1, RestInFront, RestAscends
<1>4. Filled(Tail(pipeline), Tail(q)) = FrontOf(Tail(q))
  BY <1>3, FilledIsFront
<1>. QED
  BY <1>1, <1>2, <1>3, <1>4

\* What a handler is told is about a write (NotifyUser).
LEMMA ToldIsTyped ==
    ASSUME StoreInv, HistoryTypeOK, NEW id, NEW answer \in {"ok", "error"},
           NotifyUser(id, answer)
    PROVE  told' \subseteq Write \X {"ok", "error"}
<1>1. \A c \in callbacks[currentUser] : c.write \in Write
  BY DEF StoreInv, StoreTypeOK, Batch
<1>. QED
  BY <1>1 DEF NotifyUser, HistoryTypeOK

-----------------------------------------------------------------------------
(***************************************************************************)
(* Every step preserves the invariant.                                     *)
(***************************************************************************)

\* A write of the app keeps the invariant (WriteMutations).
LEMMA WriteMutationsPreserves ==
    ASSUME PipelineInv, WriteMutations
    PROVE  PipelineInv'
<1>. DEFINE batch == [id |-> nextBatchId, write |-> [by |-> currentUser, n |-> made + 1]]
            q == Append(queue[currentUser], batch)
<1>1. StoreInv /\ CallInv /\ HistoryTypeOK
  BY DEF PipelineInv
<1>2. /\ q \in Seq(Batch) /\ Ascending(q) /\ InFront(pipeline, q)
      /\ pipeline' = FrontOf(q) => StoreInv'
      /\ pipeline \in Seq(Batch)
  BY <1>1, StoreGrows DEF StoreInv, StoreTypeOK
<1>3. Refilled(pipeline, Filled(pipeline, q), call)
  BY DEF WriteMutations
<1>4. /\ call \in Call
      /\ handshake => AnswersSound(call) /\ Fits(pipeline, call)
  BY <1>1 DEF CallInv, CallTypeOK, CallSound, ResultsMatchPipeline, AnswersSound, Fits
<1>. HIDE DEF q
<1>5. CallInv' /\ pipeline' = FrontOf(q)
  BY <1>1, <1>2, <1>3, <1>4, RefilledIsSound
<1>6. HistoryTypeOK'
  BY <1>1 DEF WriteMutations, HistoryTypeOK, ghosts
<1>. QED
  BY <1>2, <1>5, <1>6 DEF PipelineInv

\* The handler of an answer gives the pipeline its next batches.
LEMMA MutationResultPreserves ==
    ASSUME PipelineInv, MutationResult
    PROVE  PipelineInv'
<1>. DEFINE q == queue[currentUser]
            t == Tail(pipeline)
            c == [call EXCEPT !.responses = Tail(@),
                              !.failed = IF @ = "posted" THEN "next" ELSE @]
<1>1. StoreInv /\ CallInv /\ HistoryTypeOK
  BY DEF PipelineInv
<1>2. /\ handshake /\ call.responses # <<>> /\ pipeline # <<>>
      /\ NotifyUser(Head(pipeline).id, "ok")
      /\ queue' = [queue EXCEPT ![currentUser] = Without(q, Head(pipeline).id)]
      /\ accepted' = accepted \cup {Head(pipeline).write}
      /\ Refilled(t, Filled(t, Without(q, Head(pipeline).id)), c)
      /\ UNCHANGED <<nextBatchId, currentUser, refused, faults, made, applied>>
  BY DEF MutationResult
<1>3. /\ q # <<>> /\ Head(pipeline) = Head(q) /\ Head(q) \in Batch
      /\ Without(q, Head(pipeline).id) = Tail(q)
      /\ Tail(q) \in Seq(Batch) /\ Ascending(Tail(q))
      /\ t \in Seq(Batch) /\ InFront(t, Tail(q)) /\ Len(t) = Len(pipeline) - 1
      /\ \A i \in 1..(Len(pipeline) - 1) : t[i] = pipeline[i + 1]
  BY <1>1, <1>2, FirstOfPipeline
<1>4. call \in Call /\ AnswersSound(call) /\ Fits(pipeline, call)
  BY <1>1, <1>2 DEF CallInv, CallTypeOK, CallSound, ResultsMatchPipeline, AnswersSound, Fits
<1>5. /\ Len(call.responses) \in Nat \ {0}
      /\ Tail(call.responses) \in Seq({"handshake", "result", "error"})
      /\ Len(Tail(call.responses)) = Len(call.responses) - 1
      /\ DOMAIN call.responses = 1..Len(call.responses)
      /\ DOMAIN Tail(call.responses) = 1..(Len(call.responses) - 1)
      /\ \A i \in 1..(Len(call.responses) - 1) :
            Tail(call.responses)[i] = call.responses[i + 1]
  <2>1. call.responses \in Seq({"handshake", "result", "error"})
    BY <1>4, CallFields
  <2>2. /\ Tail(call.responses) \in Seq({"handshake", "result", "error"})
        /\ Len(Tail(call.responses)) = Len(call.responses) - 1
        /\ \A i \in 1..Len(Tail(call.responses)) :
              Tail(call.responses)[i] = call.responses[i + 1]
    BY <1>2, <2>1, HeadTailProperties
  <2>. QED
    BY <1>2, <2>1, <2>2, EmptySeq, LenProperties
<1>6. /\ c \in Call /\ c.greeted = call.greeted /\ c.requests = call.requests
      /\ c.responses = Tail(call.responses)
  BY <1>4, <1>5 DEF Call
<1>. HIDE DEF c, t
<1>7. PICK m \in Nat : m = Len(call.responses) /\ m > 0
  BY <1>5
<1>8. AnswersSound(c)
  <2>1. ASSUME NEW i \in 1..(m - 1)
        PROVE  \/ Tail(call.responses)[i] = "result"
               \/ Tail(call.responses)[i] = "error" /\ i = m - 1
    <3>1. i + 1 \in 1..m /\ (i + 1 = m => i = m - 1)
      BY <1>7
    <3>. QED
      BY <1>4, <1>5, <1>7, <3>1 DEF AnswersSound
  <2>. QED
    BY <1>5, <1>6, <1>7, <2>1 DEF AnswersSound
<1>9. Fits(t, c)
  <2>1. /\ Len(pipeline) = m + Len(call.requests) /\ Len(call.requests) \in Nat
        /\ DOMAIN call.requests = 1..Len(call.requests)
        /\ \A i \in DOMAIN call.requests : call.requests[i] = pipeline[m + i]
    BY <1>4, <1>7, CallFields DEF Fits
  <2>2. Len(t) = (m - 1) + Len(call.requests)
    BY <1>3, <1>7, <2>1
  <2>3. ASSUME NEW i \in DOMAIN call.requests
        PROVE  call.requests[i] = t[(m - 1) + i]
    <3>1. PICK l \in Nat : l = Len(call.requests) /\ i \in 1..l /\ Len(pipeline) = m + l
      BY <2>1
    <3>2. m \in Nat /\ m > 0 /\ i \in Nat /\ 1 <= i /\ i <= l
      BY <1>7, <3>1
    <3>3. (m - 1) + i \in 1..((m + l) - 1) /\ ((m - 1) + i) + 1 = m + i
      BY <3>2
    <3>. QED
      BY <1>3, <2>1, <3>1, <3>3
  <2>. QED
    BY <1>5, <1>6, <1>7, <2>2, <2>3 DEF Fits
<1>10. CallInv' /\ pipeline' = FrontOf(Tail(q))
  <2>1. Refilled(t, Filled(t, Tail(q)), c)
    BY <1>2, <1>3
  <2>. QED
    BY <1>1, <1>2, <1>3, <1>6, <1>8, <1>9, <2>1, RefilledIsSound
<1>11. StoreInv'
  BY <1>1, <1>2, <1>3, <1>10, StoreShrinks
<1>12. HistoryTypeOK'
  <2>1. Head(pipeline).write \in Write
    BY <1>3 DEF Batch
  <2>2. told' \subseteq Write \X {"ok", "error"}
    BY <1>1, <1>2, ToldIsTyped
  <2>. QED
    BY <1>1, <1>2, <2>1, <2>2 DEF HistoryTypeOK
<1>. QED
  BY <1>10, <1>11, <1>12 DEF PipelineInv

\* An error of the first write ends the call.
LEMMA RejectFirstPreserves ==
    ASSUME PipelineInv, RejectFirst
    PROVE  PipelineInv'
<1>. DEFINE q == queue[currentUser]
<1>1. StoreInv /\ CallInv /\ HistoryTypeOK
  BY DEF PipelineInv
<1>2. /\ pipeline # <<>>
      /\ NotifyUser(Head(pipeline).id, "error")
      /\ queue' = [queue EXCEPT ![currentUser] = Without(q, Head(pipeline).id)]
      /\ refused' = refused \cup {Head(pipeline).write}
      /\ Closed("Initial", Filled(Tail(pipeline), Without(q, Head(pipeline).id)))
      /\ UNCHANGED <<nextBatchId, currentUser, accepted, faults, made, applied>>
  BY DEF RejectFirst
<1>3. /\ q # <<>> /\ Head(pipeline) = Head(q) /\ Head(q) \in Batch
      /\ Without(q, Head(pipeline).id) = Tail(q)
      /\ Filled(Tail(pipeline), Tail(q)) = FrontOf(Tail(q))
  BY <1>1, <1>2, FirstOfPipeline
<1>4. CallInv' /\ pipeline' = FrontOf(Tail(q))
  BY <1>1, <1>2, <1>3, ClosedIsSound
<1>5. StoreInv'
  BY <1>1, <1>2, <1>3, <1>4, StoreShrinks
<1>6. HistoryTypeOK'
  <2>1. Head(pipeline).write \in Write
    BY <1>3 DEF Batch
  <2>2. told' \subseteq Write \X {"ok", "error"}
    BY <1>1, <1>2, ToldIsTyped
  <2>. QED
    BY <1>1, <1>2, <2>1, <2>2 DEF HistoryTypeOK
<1>. QED
  BY <1>4, <1>5, <1>6 DEF PipelineInv

\* The connection ends; the queues do not notice.
LEMMA ConnectionEndsPreserves ==
    ASSUME PipelineInv,
           \/ StreamError \/ IdleTimeout \/ ConnectivityChanged
           \/ \E u \in User : HandleCredentialChange(u)
    PROVE  PipelineInv'
<1>1. StoreInv /\ CallInv /\ HistoryTypeOK /\ faults \in Nat /\ currentUser \in User
      /\ pipeline = FrontOf(queue[currentUser])
  BY CurrentQueue DEF PipelineInv, StoreInv, StoreTypeOK
<1>2. CASE StreamError
  <2>1. /\ Closed("Error", pipeline) /\ faults' = faults + 1
        /\ UNCHANGED <<queue, nextBatchId, currentUser, callbacks, made, ghosts, applied>>
    BY <1>2 DEF StreamError
  <2>2. CallInv' /\ pipeline' = pipeline
    BY <1>1, <2>1, ClosedIsSound
  <2>3. StoreInv'
    BY <1>1, <2>1, <2>2, StoreStays
  <2>. QED
    BY <1>1, <2>1, <2>2, <2>3 DEF PipelineInv, HistoryTypeOK, ghosts
<1>3. CASE IdleTimeout
  <2>1. /\ Closed("Initial", pipeline) /\ faults' = faults
        /\ UNCHANGED <<queue, nextBatchId, currentUser, callbacks, made, ghosts, applied>>
    BY <1>3 DEF IdleTimeout
  <2>2. CallInv' /\ pipeline' = pipeline
    BY <1>1, <2>1, ClosedIsSound
  <2>3. StoreInv'
    BY <1>1, <2>1, <2>2, StoreStays
  <2>. QED
    BY <1>1, <2>1, <2>2, <2>3 DEF PipelineInv, HistoryTypeOK, ghosts
<1>4. CASE ConnectivityChanged
  <2>1. /\ Restarted(currentUser, queue) /\ faults' = faults + 1
        /\ UNCHANGED <<queue, nextBatchId, callbacks, made, ghosts, applied>>
    BY <1>4 DEF ConnectivityChanged
  <2>2. CallInv' /\ currentUser' = currentUser /\ pipeline' = FrontOf(queue[currentUser])
    BY <1>1, <2>1, RestartedIsSound
  <2>3. StoreInv'
    BY <1>1, <2>1, <2>2, StoreStays
  <2>. QED
    BY <1>1, <2>1, <2>2, <2>3 DEF PipelineInv, HistoryTypeOK, ghosts
<1>5. ASSUME NEW u \in User, HandleCredentialChange(u) PROVE PipelineInv'
  <2>1. /\ Restarted(u, queue) /\ faults' = faults + 1
        /\ nextBatchId' = nextBatchId \/ nextBatchId' = FirstFreeId(queue)
        /\ UNCHANGED <<queue, callbacks, made, ghosts, applied>>
    BY <1>5 DEF HandleCredentialChange
  <2>2. CallInv' /\ currentUser' = u /\ pipeline' = FrontOf(queue[u])
    BY <1>1, <2>1, RestartedIsSound
  <2>3. StoreInv'
    BY <1>1, <2>1, <2>2, StoreStays
  <2>. QED
    BY <1>1, <2>1, <2>2, <2>3 DEF PipelineInv, HistoryTypeOK, ghosts
<1>. QED
  BY <1>2, <1>3, <1>4, <1>5

\* The process ends and starts again: only the queues are left.
LEMMA RelaunchPreserves ==
    ASSUME PipelineInv, Relaunch
    PROVE  PipelineInv'
<1>1. /\ StoreInv /\ CallInv /\ HistoryTypeOK /\ faults \in Nat /\ currentUser \in User
      /\ queue[currentUser] \in Seq(Batch) /\ Ascending(queue[currentUser])
  BY CurrentQueue DEF PipelineInv, StoreInv, StoreTypeOK
<1>2. /\ faults' = faults + 1 /\ nextBatchId' = FirstFreeId(queue)
      /\ callbacks' = [u \in User |-> {}] /\ currentUser' = currentUser
      /\ StartIfNeeded("Initial", {}, Filled(<<>>, queue[currentUser]))
      /\ handshake' = FALSE /\ idle' = FALSE /\ call' = NoCall
      /\ UNCHANGED <<queue, ghosts, made, applied>>
  BY DEF Relaunch
<1>3. Filled(<<>>, queue[currentUser]) = FrontOf(queue[currentUser])
  BY <1>1, NothingInFront, FilledIsFront
<1>4. CallInv' /\ pipeline' = FrontOf(queue[currentUser])
  BY <1>2, <1>3, StartFacts, NoCallIsSound
<1>5. StoreInv'
  BY <1>1, <1>2, <1>4, StoreStays
<1>. QED
  BY <1>1, <1>2, <1>4, <1>5 DEF PipelineInv, HistoryTypeOK, ghosts

\* Nothing the SDK keeps changes while it waits for a connection or for the
\* server.
LEMMA KeptIsKept ==
    ASSUME StoreInv, HistoryTypeOK, UNCHANGED <<sdk, ghosts, faults, made>>,
           applied' \in Seq(Write)
    PROVE  StoreInv' /\ HistoryTypeOK'
<1>1. currentUser \in User /\ faults \in Nat /\ pipeline = FrontOf(queue[currentUser])
  BY CurrentQueue DEF StoreInv, StoreTypeOK
<1>2. StoreInv'
  BY <1>1, StoreStays DEF sdk
<1>3. HistoryTypeOK'
  BY DEF HistoryTypeOK, ghosts
<1>. QED
  BY <1>2, <1>3

\* The stream that starts again after its delay keeps the invariant.
LEMMA BackoffElapsedPreserves ==
    ASSUME PipelineInv, BackoffElapsed
    PROVE  PipelineInv'
<1>1. StoreInv /\ CallInv /\ HistoryTypeOK
  BY DEF PipelineInv
<1>2. /\ stream = "Backoff" /\ StartIfNeeded("Initial", asked, pipeline)
      /\ UNCHANGED <<queue, nextBatchId, currentUser, callbacks, ghosts, handshake, idle,
                     call, faults, made, applied>>
  BY DEF BackoffElapsed
<1>3. /\ asked \in SUBSET {"now", "before"} /\ "now" \notin asked /\ ~ handshake
  BY <1>1, <1>2 DEF CallInv, CallTypeOK, CallSound
<1>4. /\ stream' \in {"Initial", "Starting", "Open", "Error", "Backoff"}
      /\ asked' \in SUBSET {"now", "before"}
      /\ "now" \in asked' => stream' = "Starting"
      /\ pipeline' = pipeline
  BY <1>2, <1>3, StartFacts
<1>5. CallTypeOK'
  BY <1>1, <1>2, <1>4 DEF CallInv, CallTypeOK
<1>6. CallSound'
  BY <1>1, <1>2, <1>3, <1>4 DEF CallInv, CallSound
<1>7. ResultsMatchPipeline'
  BY <1>2, <1>3 DEF ResultsMatchPipeline
<1>8. StoreInv' /\ HistoryTypeOK'
  BY <1>1, <1>2, <1>4, KeptIsKept DEF sdk, HistoryTypeOK
<1>. QED
  BY <1>5, <1>6, <1>7, <1>8 DEF PipelineInv, CallInv

\* A token, for this stream or one closed since, keeps the invariant.
LEMMA ResumeStartPreserves ==
    ASSUME PipelineInv, ResumeStartWithCredentials
    PROVE  PipelineInv'
<1>1. StoreInv /\ CallInv /\ HistoryTypeOK /\ applied \in Seq(Write)
  BY DEF PipelineInv, HistoryTypeOK
<1>2. UNCHANGED <<sdk, ghosts, faults, made, applied, handshake>>
  BY DEF ResumeStartWithCredentials
<1>3. StoreInv' /\ HistoryTypeOK'
  BY <1>1, <1>2, KeptIsKept
<1>4. CASE "now" \in asked /\ asked' = asked \ {"now"} /\ stream' = "Open"
           /\ idle' = FALSE /\ call' = NoCall
  <2>1. ~ handshake
    BY <1>1, <1>4 DEF CallInv, CallTypeOK, CallSound
  <2>2. handshake' = FALSE /\ asked' \in SUBSET {"now", "before"} /\ "now" \notin asked'
    BY <1>1, <1>2, <1>4, <2>1 DEF CallInv, CallTypeOK
  <2>. QED
    BY <1>3, <1>4, <2>2, NoCallIsSound DEF PipelineInv
<1>5. CASE "before" \in asked /\ asked' = asked \ {"before"}
           /\ UNCHANGED <<stream, idle, call>>
  <2>1. CallTypeOK'
    BY <1>1, <1>2, <1>5 DEF CallInv, CallTypeOK
  <2>2. CallSound'
    BY <1>1, <1>2, <1>5 DEF CallInv, CallSound
  <2>3. ResultsMatchPipeline'
    BY <1>1, <1>2, <1>5 DEF CallInv, ResultsMatchPipeline, sdk
  <2>. QED
    BY <1>3, <2>1, <2>2, <2>3 DEF PipelineInv, CallInv
<1>. QED
  BY <1>4, <1>5 DEF ResumeStartWithCredentials

\* The handshake is the one response there is, and all of the pipeline is sent.
LEMMA HandshakeCompletePreserves ==
    ASSUME PipelineInv, HandshakeComplete
    PROVE  PipelineInv'
<1>1. StoreInv /\ CallInv /\ HistoryTypeOK /\ applied \in Seq(Write)
      /\ pipeline \in Seq(Batch)
  BY DEF PipelineInv, HistoryTypeOK, StoreInv, StoreTypeOK
<1>2. /\ stream = "Open" /\ ~ handshake /\ call.responses # <<>>
      /\ handshake' = TRUE /\ idle' = (idle /\ pipeline = <<>>)
      /\ call' = [call EXCEPT !.requests = pipeline, !.responses = Tail(@)]
      /\ UNCHANGED <<sdk, ghosts, stream, asked, faults, made, applied>>
  BY DEF HandshakeComplete
<1>3. StoreInv' /\ HistoryTypeOK'
  BY <1>1, <1>2, KeptIsKept
<1>4. call.greeted /\ call.responses = <<"handshake">> /\ call \in Call
  BY <1>1, <1>2 DEF CallInv, CallSound, CallTypeOK
<1>5. Tail(<<"handshake">>) = <<>>
  OBVIOUS
<1>6. /\ call' \in Call /\ call'.greeted /\ call'.responses = <<>>
      /\ call'.requests = pipeline
  BY <1>1, <1>2, <1>4, <1>5, EmptySeq DEF Call
<1>7. CallTypeOK'
  <2>1. idle' \in BOOLEAN
    BY <1>1, <1>2 DEF CallInv, CallTypeOK
  <2>. QED
    BY <1>1, <1>2, <1>6, <2>1 DEF CallInv, CallTypeOK
<1>8. CallSound'
  BY <1>1, <1>2, <1>6, EmptySeq DEF CallInv, CallSound
<1>9. ResultsMatchPipeline'
  <2>1. Len(pipeline) \in Nat /\ DOMAIN pipeline = 1..Len(pipeline) /\ pipeline' = pipeline
    BY <1>1, <1>2, LenProperties DEF sdk
  <2>2. Len(call'.responses) = 0
    BY <1>6, EmptySeq
  <2>. QED
    BY <1>6, <2>1, <2>2 DEF ResultsMatchPipeline
<1>. QED
  BY <1>3, <1>7, <1>8, <1>9 DEF PipelineInv, CallInv

\* A request that fails while responses wait keeps the invariant.
LEMMA RequestFailsPreserves ==
    ASSUME PipelineInv, RequestFails
    PROVE  PipelineInv'
<1>1. StoreInv /\ CallInv /\ HistoryTypeOK /\ applied \in Seq(Write) /\ call \in Call
  BY DEF PipelineInv, HistoryTypeOK, CallInv, CallTypeOK
<1>2. /\ call' = [call EXCEPT !.failed = "posted"]
      /\ UNCHANGED <<sdk, ghosts, stream, asked, handshake, idle, faults, made, applied>>
  BY DEF RequestFails
<1>3. /\ call' \in Call /\ call'.requests = call.requests
      /\ call'.responses = call.responses /\ call'.greeted = call.greeted
  BY <1>1, <1>2 DEF Call
<1>4. CallTypeOK'
  BY <1>1, <1>2, <1>3 DEF CallInv, CallTypeOK
<1>5. CallSound'
  BY <1>1, <1>2, <1>3 DEF CallInv, CallSound
<1>6. ResultsMatchPipeline'
  BY <1>1, <1>2, <1>3 DEF CallInv, ResultsMatchPipeline, sdk
<1>. QED
  BY <1>1, <1>2, <1>4, <1>5, <1>6, KeptIsKept DEF PipelineInv, CallInv

\* Nothing has been sent or answered before the server greets.
LEMMA GreetPreserves ==
    ASSUME PipelineInv, Greet
    PROVE  PipelineInv'
<1>1. StoreInv /\ CallInv /\ HistoryTypeOK /\ applied \in Seq(Write) /\ call \in Call
  BY DEF PipelineInv, HistoryTypeOK, CallInv, CallTypeOK
<1>2. /\ ~ call.greeted
      /\ call' = [call EXCEPT !.greeted = TRUE, !.responses = <<"handshake">>]
      /\ UNCHANGED <<sdk, ghosts, stream, asked, handshake, idle, faults, made, applied>>
  BY DEF Greet, Serving
<1>3. <<"handshake">> \in Seq({"handshake", "result", "error"})
  OBVIOUS
<1>4. /\ call' \in Call /\ call'.requests = call.requests
      /\ call'.responses = <<"handshake">> /\ call'.greeted
  BY <1>1, <1>2, <1>3 DEF Call
<1>5. ~ handshake /\ call.requests = <<>>
  BY <1>1, <1>2 DEF CallInv, CallSound
<1>6. CallTypeOK'
  BY <1>1, <1>2, <1>4 DEF CallInv, CallTypeOK
<1>7. CallSound'
  BY <1>1, <1>2, <1>4, <1>5 DEF CallInv, CallSound
<1>8. ResultsMatchPipeline'
  BY <1>2, <1>5 DEF ResultsMatchPipeline
<1>. QED
  BY <1>1, <1>2, <1>6, <1>7, <1>8, KeptIsKept DEF PipelineInv, CallInv

\* The server answers the first request; it has not sent an error before.
LEMMA AnswerFacts ==
    ASSUME PipelineInv, Serving, call.requests # <<>>,
           NEW answer \in {"result", "error"},
           call' = [call EXCEPT !.requests = Tail(@), !.responses = Append(@, answer)]
    PROVE  /\ handshake
           /\ call' \in Call /\ call'.greeted = call.greeted
           /\ call'.responses = Append(call.responses, answer)
           /\ Len(call'.responses) = Len(call.responses) + 1
           /\ \A i \in DOMAIN call.responses : call.responses[i] = "result"
           /\ \A i \in DOMAIN call'.responses :
                 IF i = Len(call.responses) + 1 THEN call'.responses[i] = answer
                 ELSE i \in DOMAIN call.responses /\ call'.responses[i] = "result"
           /\ Head(call.requests) = pipeline[Len(call.responses) + 1]
           /\ Len(call.responses) + 1 \in 1..Len(pipeline)
           /\ Fits(pipeline, call')
<1>1. CallInv /\ call \in Call
  BY DEF PipelineInv, CallInv, CallTypeOK
<1>2. handshake /\ AnswersSound(call) /\ Fits(pipeline, call)
  BY <1>1 DEF CallInv, CallSound, ResultsMatchPipeline, AnswersSound, Fits
<1>3. PICK r \in Seq(Batch) : r = call.requests
  BY <1>1, CallFields
<1>4. PICK s \in Seq({"handshake", "result", "error"}) : s = call.responses
  BY <1>1, CallFields
<1>5. PICK m \in Nat : m = Len(s)
  BY LenProperties
<1>6. Len(r) \in Nat \ {0} /\ DOMAIN r = 1..Len(r) /\ DOMAIN s = 1..m
  BY <1>3, <1>5, EmptySeq, LenProperties
<1>7. /\ Head(r) = r[1] /\ Tail(r) \in Seq(Batch) /\ Len(Tail(r)) = Len(r) - 1
      /\ DOMAIN Tail(r) = 1..(Len(r) - 1)
      /\ \A i \in 1..(Len(r) - 1) : Tail(r)[i] = r[i + 1]
  BY <1>3, HeadTailProperties, LenProperties
<1>8. /\ Append(s, answer) \in Seq({"handshake", "result", "error"})
      /\ Len(Append(s, answer)) = m + 1
      /\ DOMAIN Append(s, answer) = 1..(m + 1)
      /\ \A i \in 1..m : Append(s, answer)[i] = s[i]
      /\ Append(s, answer)[m + 1] = answer
  BY <1>5, AppendProperties, LenProperties
<1>9. /\ call' \in Call /\ call'.greeted = call.greeted
      /\ call'.requests = Tail(r) /\ call'.responses = Append(s, answer)
  BY <1>1, <1>3, <1>4, <1>7, <1>8 DEF Call
<1>10. \A i \in DOMAIN s : s[i] = "result"
  <2>1. s # <<>> => s[m] # "error"
    BY <1>4, <1>5 DEF Serving, Last
  <2>2. \A i \in 1..m : s # <<>>
    BY <1>5, EmptySeq
  <2>. QED
    BY <1>2, <1>4, <1>5, <1>6, <2>1, <2>2 DEF AnswersSound
<1>11. Len(pipeline) = m + Len(r) /\ \A i \in 1..Len(r) : r[i] = pipeline[m + i]
  BY <1>2, <1>3, <1>4, <1>5, <1>6 DEF Fits
<1>12. Head(r) = pipeline[m + 1] /\ m + 1 \in 1..Len(pipeline)
  BY <1>6, <1>7, <1>11
<1>13. Fits(pipeline, call')
  <2>1. Len(pipeline) = (m + 1) + Len(Tail(r))
    BY <1>6, <1>7, <1>11
  <2>2. ASSUME NEW i \in 1..(Len(r) - 1) PROVE Tail(r)[i] = pipeline[(m + 1) + i]
    <3>1. i + 1 \in 1..Len(r) /\ m + (i + 1) = (m + 1) + i
      BY <1>6
    <3>. QED
      BY <1>7, <1>11, <3>1
  <2>3. Len(call'.responses) = m + 1
    BY <1>8, <1>9
  <2>4. Len(call'.requests) = Len(Tail(r))
    BY <1>9
  <2>5. ASSUME NEW i \in DOMAIN call'.requests
        PROVE  call'.requests[i] = pipeline[(m + 1) + i]
    <3>1. i \in 1..(Len(r) - 1)
      BY <1>7, <1>9
    <3>. QED
      BY <1>9, <2>2, <3>1
  <2>6. Len(pipeline) = Len(call'.responses) + Len(call'.requests)
    BY <2>1, <2>3, <2>4
  <2>7. \A i \in DOMAIN call'.requests :
           call'.requests[i] = pipeline[Len(call'.responses) + i]
    BY <2>3, <2>5
  <2>. QED
    BY <2>6, <2>7, Zenon DEF Fits
<1>14. ASSUME NEW i \in 1..(m + 1)
       PROVE  IF i = m + 1 THEN Append(s, answer)[i] = answer
              ELSE i \in DOMAIN s /\ Append(s, answer)[i] = "result"
  BY <1>6, <1>8, <1>10
<1>. QED
  BY <1>2, <1>3, <1>4, <1>5, <1>8, <1>9, <1>10, <1>12, <1>13, <1>14

\* An answer is added behind the others, for the first request not answered.
LEMMA ServerAnswersPreserves ==
    ASSUME PipelineInv, Apply \/ Deny
    PROVE  PipelineInv'
<1>1. StoreInv /\ CallInv /\ HistoryTypeOK /\ applied \in Seq(Write) /\ call \in Call
  BY DEF PipelineInv, HistoryTypeOK, CallInv, CallTypeOK
<1>2. Serving /\ call.requests # <<>>
      /\ UNCHANGED <<sdk, ghosts, stream, asked, handshake, idle, faults, made>>
  BY DEF Apply, Deny, Serving
<1>3. PICK answer \in {"result", "error"} :
         call' = [call EXCEPT !.requests = Tail(@), !.responses = Append(@, answer)]
  BY DEF Apply, Deny
<1>4. /\ handshake
      /\ call' \in Call /\ call'.greeted = call.greeted
      /\ Len(call'.responses) = Len(call.responses) + 1
      /\ \A i \in DOMAIN call'.responses :
            IF i = Len(call.responses) + 1 THEN call'.responses[i] = answer
            ELSE i \in DOMAIN call.responses /\ call'.responses[i] = "result"
      /\ Fits(pipeline, call')
      /\ Head(call.requests) = pipeline[Len(call.responses) + 1]
      /\ Len(call.responses) + 1 \in 1..Len(pipeline)
  BY <1>2, <1>3, AnswerFacts
<1>5. applied' \in Seq(Write)
  <2>1. Head(call.requests) \in Batch
    BY <1>1, <1>2, CallFields, HeadTailProperties
  <2>2. Head(call.requests).write \in Write
    BY <2>1 DEF Batch
  <2>. QED
    BY <1>1, <2>2, AppendProperties DEF Apply, Deny
<1>6. CallTypeOK'
  BY <1>1, <1>2, <1>4 DEF CallInv, CallTypeOK
<1>7. CallSound'
  BY <1>1, <1>2, <1>4 DEF CallInv, CallSound
<1>8. ResultsMatchPipeline'
  BY <1>2, <1>4 DEF ResultsMatchPipeline, Fits, sdk
<1>. QED
  BY <1>1, <1>2, <1>5, <1>6, <1>7, <1>8, KeptIsKept DEF PipelineInv, CallInv

\* The invariant holds at the start, with empty queues.
LEMMA PipelineInvInit == Init => PipelineInv
<1>. SUFFICES ASSUME Init PROVE PipelineInv
  OBVIOUS
<1>1. <<>> \in Seq(Batch) /\ <<>> \in Seq(Write) /\ Len(<<>>) = 0 /\ DOMAIN <<>> = {}
  BY EmptySeq, LenProperties
<1>2. currentUser \in User /\ queue[currentUser] = <<>>
      /\ \A u \in User : queue[u] = <<>> /\ callbacks[u] = {}
  BY DEF Init
<1>3. StoreTypeOK /\ HistoryTypeOK
  BY <1>1 DEF Init, StoreTypeOK, HistoryTypeOK
<1>4. QueuesOrdered /\ HandlersMatchQueue
  BY <1>1, <1>2 DEF QueuesOrdered, HandlersMatchQueue, Ascending
<1>5. PipelineIsFirstOfQueue
  <2>1. FrontOf(<<>>) \in Seq(Batch) /\ ~ (FrontOf(<<>>) # <<>>)
    BY <1>1, FrontFacts
  <2>2. pipeline = <<>>
    BY DEF Init
  <2>. QED
    BY <1>2, <2>1, <2>2 DEF PipelineIsFirstOfQueue, FrontOf
<1>6. CallInv
  <2>1. NoCall \in Call /\ NoCall.requests = <<>> /\ NoCall.responses = <<>>
        /\ NoCall.greeted = FALSE
    BY EmptySeq DEF NoCall, Call
  <2>. QED
    BY <2>1 DEF Init, CallInv, CallTypeOK, CallSound, ResultsMatchPipeline
<1>. QED
  BY <1>3, <1>4, <1>5, <1>6 DEF PipelineInv, StoreInv

\* Every task of the worker queue and step of the server keeps the invariant.
LEMMA PipelineInvNext == PipelineInv /\ [Next]_vars => PipelineInv'
<1>. SUFFICES ASSUME PipelineInv, [Next]_vars PROVE PipelineInv'
  OBVIOUS
<1>1. CASE WriteMutations
  BY <1>1, WriteMutationsPreserves
<1>2. CASE ResumeStartWithCredentials
  BY <1>2, ResumeStartPreserves
<1>3. CASE HandshakeComplete
  BY <1>3, HandshakeCompletePreserves
<1>4. CASE MutationResult
  BY <1>4, MutationResultPreserves
<1>5. CASE WriteError \/ OperationFailed
  BY <1>5, RejectFirstPreserves DEF WriteError, OperationFailed
<1>6. CASE BackoffElapsed
  BY <1>6, BackoffElapsedPreserves
<1>7. CASE Greet
  BY <1>7, GreetPreserves
<1>8. CASE Apply \/ Deny
  BY <1>8, ServerAnswersPreserves
<1>9. CASE RequestFails
  BY <1>9, RequestFailsPreserves
<1>10. CASE StreamError \/ IdleTimeout \/ ConnectivityChanged
            \/ \E u \in User : HandleCredentialChange(u)
  BY <1>10, ConnectionEndsPreserves
<1>11. CASE Relaunch
  BY <1>11, RelaunchPreserves
<1>12. CASE UNCHANGED vars
  <2>1. UNCHANGED <<queue, nextBatchId, currentUser, callbacks, pipeline, stream, asked,
                    handshake, idle, call, accepted, refused, told, faults, made, applied>>
    BY <1>12 DEF vars, sdk, net, ghosts
  <2>2. StoreInv'
    BY <2>1 DEF PipelineInv, StoreInv, StoreTypeOK, QueuesOrdered, HandlersMatchQueue,
                PipelineIsFirstOfQueue, Ascending
  <2>3. CallInv'
    BY <2>1 DEF PipelineInv, CallInv, CallTypeOK, CallSound, ResultsMatchPipeline
  <2>. QED
    BY <2>1, <2>2, <2>3 DEF PipelineInv, HistoryTypeOK
<1>. QED
  BY <1>1, <1>2, <1>3, <1>4, <1>5, <1>6, <1>7, <1>8, <1>9, <1>10, <1>11, <1>12
  DEF Next, Worker, Server

\* Pipeline, answers and handlers fit the mutation queues in every state, for any
\* users, size of the pipeline and number of writes, failures and restarts: from
\* this everything below follows.
THEOREM PipelineInvariant == Spec => []PipelineInv
BY PipelineInvInit, PipelineInvNext, PTL DEF Spec

\* The state of the SDK and of the connection keeps its types.
THEOREM PipelineTypesHold == Spec => []TypeOK
<1>1. PipelineInv => TypeOK
  BY TypesTogether DEF PipelineInv, StoreInv, CallInv
<1>. QED
  BY <1>1, PipelineInvariant, PTL

\* Whatever its size and whoever has signed in meanwhile, the pipeline holds the
\* first batches of the current user's queue, none left out and none of another
\* user (FillWritePipeline, RestartNetwork).
THEOREM PipelineIsFirst == Spec => []PipelineIsFirstOfQueue
<1>1. PipelineInv => PipelineIsFirstOfQueue
  BY DEF PipelineInv, StoreInv
<1>. QED
  BY <1>1, PipelineInvariant, PTL

\* A result is always that of the first batch of the pipeline, to which
\* OnWriteStreamMutationResult gives it.
THEOREM ResultsAreOfThePipeline == Spec => []ResultsMatchPipeline
<1>1. PipelineInv => ResultsMatchPipeline
  BY DEF PipelineInv, CallInv
<1>. QED
  BY <1>1, PipelineInvariant, PTL

\* Ids may be used again after any number of restarts and changes of the user,
\* but never while a completion handler waits under one (LoadNextBatchIdFromDb,
\* mutation_callbacks_).
THEOREM HandlersAreOfTheirWrites == Spec => []HandlersMatchQueue
<1>1. PipelineInv => HandlersMatchQueue
  BY DEF PipelineInv, StoreInv
<1>. QED
  BY <1>1, PipelineInvariant, PTL

-----------------------------------------------------------------------------
(***************************************************************************)
(* The refinement: what WriteQueue sees of the state.                      *)
(***************************************************************************)

Waiting == [u \in User |-> WritesOf(queue[u])]
Ahead == [u \in User |-> IF u = currentUser THEN Cardinality(Results) ELSE 0]
Awaited == UNION {{c.write : c \in callbacks[u]} : u \in User}

\* The writes of batches, one for one.
LEMMA WritesOfFacts ==
    ASSUME NEW q \in Seq(Batch)
    PROVE  /\ WritesOf(q) \in Seq(Write) /\ Len(WritesOf(q)) = Len(q)
           /\ \A i \in 1..Len(q) : WritesOf(q)[i] = q[i].write
<1>1. Len(q) \in Nat /\ DOMAIN q = 1..Len(q) /\ \A i \in 1..Len(q) : q[i] \in Batch
  BY LenProperties, ElementOfSeq
<1>2. \A i \in 1..Len(q) : q[i].write \in Write
  BY <1>1 DEF Batch
<1>3. WritesOf(q) \in [1..Len(q) -> Write]
  BY <1>1, <1>2 DEF WritesOf
<1>4. WritesOf(q) \in Seq(Write)
  BY <1>1, <1>3, SeqDef
<1>5. DOMAIN WritesOf(q) = 1..Len(q) /\ DOMAIN WritesOf(q) = 1..Len(WritesOf(q))
      /\ Len(WritesOf(q)) \in Nat
  BY <1>3, <1>4, LenProperties
<1>6. Len(WritesOf(q)) = Len(q)
  BY <1>1, <1>5
<1>. QED
  BY <1>1, <1>4, <1>6 DEF WritesOf

\* A batch more is a write more.
LEMMA WritesOfLonger ==
    ASSUME NEW q \in Seq(Batch), NEW b \in Batch
    PROVE  WritesOf(Append(q, b)) = Append(WritesOf(q), b.write)
<1>1. b.write \in Write /\ WritesOf(q) \in Seq(Write) /\ Len(WritesOf(q)) = Len(q)
      /\ Len(q) \in Nat /\ \A i \in 1..Len(q) : WritesOf(q)[i] = q[i].write
  BY WritesOfFacts, LenProperties DEF Batch
<1>2. /\ Append(q, b) \in Seq(Batch) /\ Len(Append(q, b)) = Len(q) + 1
      /\ \A i \in 1..Len(q) : Append(q, b)[i] = q[i]
      /\ Append(q, b)[Len(q) + 1] = b
  BY AppendProperties
<1>3. PICK l \in Seq(Batch) : l = Append(q, b)
  BY <1>2
<1>4. PICK w \in Seq(Write) : w = WritesOf(q)
  BY <1>1
<1>5. /\ WritesOf(l) \in Seq(Write) /\ Len(WritesOf(l)) = Len(q) + 1
      /\ \A i \in 1..(Len(q) + 1) : WritesOf(l)[i] = l[i].write
  BY <1>2, <1>3, WritesOfFacts
<1>6. /\ Append(w, b.write) \in Seq(Write) /\ Len(Append(w, b.write)) = Len(q) + 1
      /\ \A i \in 1..Len(q) : Append(w, b.write)[i] = w[i]
      /\ Append(w, b.write)[Len(q) + 1] = b.write
  BY <1>1, <1>4, AppendProperties
<1>7. ASSUME NEW i \in 1..(Len(q) + 1) PROVE WritesOf(l)[i] = Append(w, b.write)[i]
  <2>1. CASE i = Len(q) + 1
    BY <1>2, <1>3, <1>5, <1>6, <2>1
  <2>2. CASE i # Len(q) + 1
    <3>1. i \in 1..Len(q)
      BY <1>1, <2>2
    <3>. QED
      BY <1>1, <1>2, <1>3, <1>4, <1>5, <1>6, <3>1
  <2>. QED
    BY <2>1, <2>2
<1>8. WritesOf(l) = Append(w, b.write)
  BY <1>5, <1>6, <1>7, SeqEqual
<1>. QED
  BY <1>3, <1>4, <1>8

\* Without its first batch a queue has one write less, the first.
LEMMA WritesOfRest ==
    ASSUME NEW q \in Seq(Batch), q # <<>>
    PROVE  /\ WritesOf(q) # <<>> /\ Head(WritesOf(q)) = Head(q).write
           /\ WritesOf(Tail(q)) = Tail(WritesOf(q))
<1>1. /\ WritesOf(q) \in Seq(Write) /\ Len(WritesOf(q)) = Len(q)
      /\ Len(q) \in Nat \ {0} /\ \A i \in 1..Len(q) : WritesOf(q)[i] = q[i].write
  BY WritesOfFacts, EmptySeq
<1>2. PICK w \in Seq(Write) : w = WritesOf(q)
  BY <1>1
<1>3. w # <<>> /\ Head(w) = w[1] /\ Head(q) = q[1]
  BY <1>1, <1>2, EmptySeq, HeadTailProperties
<1>4. /\ Tail(q) \in Seq(Batch) /\ Len(Tail(q)) = Len(q) - 1
      /\ \A i \in 1..(Len(q) - 1) : Tail(q)[i] = q[i + 1]
  BY RestInFront
<1>5. /\ Tail(w) \in Seq(Write) /\ Len(Tail(w)) = Len(q) - 1
      /\ \A i \in 1..(Len(q) - 1) : Tail(w)[i] = w[i + 1]
  BY <1>1, <1>2, <1>3, HeadTailProperties
<1>6. /\ WritesOf(Tail(q)) \in Seq(Write) /\ Len(WritesOf(Tail(q))) = Len(q) - 1
      /\ \A i \in 1..(Len(q) - 1) : WritesOf(Tail(q))[i] = Tail(q)[i].write
  BY <1>4, WritesOfFacts
<1>7. ASSUME NEW i \in 1..(Len(q) - 1) PROVE WritesOf(Tail(q))[i] = Tail(w)[i]
  <2>1. i + 1 \in 1..Len(q)
    BY <1>1
  <2>. QED
    BY <1>1, <1>2, <1>4, <1>5, <1>6, <2>1
<1>8. WritesOf(Tail(q)) = Tail(w)
  BY <1>5, <1>6, <1>7, SeqEqual
<1>9. 1 \in 1..Len(q)
  BY <1>1
<1>. QED
  BY <1>1, <1>2, <1>3, <1>8, <1>9

\* The first numbers are as many as the last of them.
LEMMA FirstNumbers ==
    ASSUME NEW k \in Nat
    PROVE  Cardinality(1..k) = k /\ Cardinality({}) = 0
<1>1. Cardinality(1..k) = IF 1 > k THEN 0 ELSE k - 1 + 1
  BY FS_Interval
<1>. QED
  BY <1>1, FS_EmptySet

\* Before the handshake there are none, and then they come first.
LEMMA ResultsComeFirst ==
    ASSUME CallInv
    PROVE  /\ ~ handshake => Cardinality(Results) = 0
           /\ handshake => \E k \in Nat :
                 /\ Results = 1..k /\ Cardinality(Results) = k
                 /\ k <= Len(call.responses)
<1>1. PICK s \in Seq({"handshake", "result", "error"}) : s = call.responses
  BY CallFields DEF CallInv, CallTypeOK
<1>2. Len(s) \in Nat /\ DOMAIN s = 1..Len(s)
  BY LenProperties
<1>3. ASSUME ~ handshake PROVE Cardinality(Results) = 0
  <2>1. s = <<>> \/ s = <<"handshake">>
    BY <1>1, <1>3 DEF CallInv, CallSound
  <2>2. Results = {}
    BY <1>1, <2>1 DEF Results
  <2>. QED
    BY <2>2, FirstNumbers
<1>4. ASSUME handshake
      PROVE  \E k \in Nat : Results = 1..k /\ Cardinality(Results) = k
                            /\ k <= Len(call.responses)
  <2>1. \A i \in 1..Len(s) : s[i] = "result" \/ (s[i] = "error" /\ i = Len(s))
    BY <1>1, <1>2, <1>4 DEF CallInv, CallSound
  <2>2. CASE \A i \in 1..Len(s) : s[i] = "result"
    <3>1. Results = 1..Len(s)
      BY <1>1, <1>2, <2>2 DEF Results
    <3>. QED
      BY <1>1, <1>2, <3>1, FirstNumbers
  <2>3. CASE \E i \in 1..Len(s) : s[i] # "result"
    <3>1. s[Len(s)] = "error" /\ Len(s) - 1 \in Nat
      <4>1. PICK i \in 1..Len(s) : s[i] # "result"
        BY <2>3
      <4>2. s[i] = "error" /\ i = Len(s)
        BY <2>1, <4>1
      <4>3. Len(s) >= 1
        BY <1>2, <4>1
      <4>. QED
        BY <1>2, <4>2, <4>3
    <3>2. Results = 1..(Len(s) - 1)
      BY <1>1, <1>2, <2>1, <3>1 DEF Results
    <3>. QED
      BY <1>1, <1>2, <3>1, <3>2, FirstNumbers
  <2>. QED
    BY <2>2, <2>3
<1>. QED
  BY <1>3, <1>4

-----------------------------------------------------------------------------
(***************************************************************************)
(* Every step is one of WriteQueue, or leaves it as it is.                 *)
(***************************************************************************)

\* What WriteQueue sees, when only the connection is concerned.
LEMMA SameQueues ==
    ASSUME UNCHANGED <<queue, callbacks, made, ghosts, applied>>
    PROVE  Waiting' = Waiting /\ Awaited' = Awaited
           /\ UNCHANGED <<made, applied, accepted, refused, told>>
BY DEF Waiting, Awaited, ghosts

\* A step that only changes stream or call is none of the abstract queue.
LEMMA LeavesItAsItIs ==
    ASSUME UNCHANGED <<queue, callbacks, made, ghosts, applied, currentUser>>,
           Cardinality(Results)' = Cardinality(Results)
    PROVE  UNCHANGED Abstract!vars
<1>1. Waiting' = Waiting /\ Awaited' = Awaited
      /\ UNCHANGED <<made, applied, accepted, refused, told>>
  BY SameQueues
<1>2. Ahead' = Ahead
  BY DEF Ahead
<1>. QED
  BY <1>1, <1>2 DEF Abstract!vars, Waiting, Awaited, Ahead

\* When the call is over, nothing is done ahead of the answers any more.
LEMMA CallOver ==
    ASSUME call' = NoCall
    PROVE  Cardinality(Results)' = 0 /\ Ahead' = [u \in User |-> 0]
<1>1. Results' = {}
  BY DEF Results, NoCall
<1>2. Cardinality(Results') = 0
  BY <1>1, FirstNumbers
<1>. QED
  BY <1>2 DEF Ahead

\* The mapped state, of the current user and the others.
LEMMA AheadOfCurrent ==
    ASSUME StoreInv, NEW k
    PROVE  /\ Ahead[currentUser] = Cardinality(Results)
           /\ [Ahead EXCEPT ![currentUser] = k]
                 = [u \in User |-> IF u = currentUser THEN k ELSE 0]
           /\ Waiting[currentUser] = WritesOf(queue[currentUser])
<1>1. currentUser \in User
  BY DEF StoreInv, StoreTypeOK
<1>. QED
  BY <1>1 DEF Ahead, Waiting

\* When the call ends, the server starts again from the front: Reconnect.
LEMMA CallEndsReconnects ==
    ASSUME StoreInv, UNCHANGED <<queue, callbacks, made, ghosts, applied>>, call' = NoCall
    PROVE  Abstract!Reconnect(currentUser)
<1>1. Waiting' = Waiting /\ Awaited' = Awaited
      /\ UNCHANGED <<made, applied, accepted, refused, told>>
  BY SameQueues
<1>2. Ahead' = [Ahead EXCEPT ![currentUser] = 0]
  <2>1. [u \in User |-> IF u = currentUser THEN 0 ELSE 0] = [u \in User |-> 0]
    OBVIOUS
  <2>. QED
    BY <2>1, CallOver, AheadOfCurrent
<1>. QED
  BY <1>1, <1>2 DEF Abstract!Reconnect, Waiting, Awaited, Ahead

\* Failures, idleness, changes of the network and of the user are Reconnect.
LEMMA ConnectionEndsReconnects ==
    ASSUME PipelineInv,
           \/ StreamError \/ IdleTimeout \/ ConnectivityChanged
           \/ \E u \in User : HandleCredentialChange(u)
    PROVE  Abstract!Reconnect(currentUser)
<1>1. UNCHANGED <<queue, callbacks, made, ghosts, applied>> /\ call' = NoCall
  BY DEF StreamError, IdleTimeout, ConnectivityChanged, HandleCredentialChange, Closed,
         Restarted
<1>. QED
  BY <1>1, CallEndsReconnects DEF PipelineInv

\* The end of the process is Restart: handlers are forgotten, queues kept.
LEMMA RelaunchRestarts ==
    ASSUME PipelineInv, Relaunch
    PROVE  Abstract!Restart
<1>1. /\ UNCHANGED <<queue, ghosts, made, applied>> /\ call' = NoCall
      /\ callbacks' = [u \in User |-> {}]
  BY DEF Relaunch
<1>2. Waiting' = Waiting /\ UNCHANGED <<made, applied, accepted, refused, told>>
  BY <1>1 DEF Waiting, ghosts
<1>3. Awaited' = {}
  BY <1>1 DEF Awaited
<1>. QED
  BY <1>1, <1>2, <1>3, CallOver DEF Abstract!Restart, Waiting, Awaited, Ahead

\* Greeting and starting show no results, and a denial is none.
LEMMA ConnectionStutters ==
    ASSUME PipelineInv,
           \/ ResumeStartWithCredentials \/ HandshakeComplete \/ BackoffElapsed
           \/ Greet \/ RequestFails
    PROVE  UNCHANGED Abstract!vars
<1>1. CallInv /\ call \in Call
  BY DEF PipelineInv, CallInv, CallTypeOK
<1>2. UNCHANGED <<queue, callbacks, made, ghosts, applied, currentUser>>
  BY DEF ResumeStartWithCredentials, HandshakeComplete, BackoffElapsed, Greet, Serving,
         RequestFails, sdk
<1>3. CASE call' = NoCall /\ ~ handshake
  BY <1>1, <1>2, <1>3, CallOver, ResultsComeFirst, LeavesItAsItIs
<1>4. CASE call'.responses = call.responses
  <2>1. Results' = Results
    BY <1>4 DEF Results
  <2>. QED
    BY <1>2, <2>1, LeavesItAsItIs
<1>5. CASE call'.responses \in {<<>>, <<"handshake">>} /\ ~ handshake
  <2>1. Results' = {}
    BY <1>5 DEF Results
  <2>2. Cardinality(Results') = 0 /\ Cardinality(Results) = 0
    BY <1>1, <1>5, <2>1, FirstNumbers, ResultsComeFirst
  <2>. QED
    BY <1>2, <2>2, LeavesItAsItIs
<1>6. ASSUME ResumeStartWithCredentials
      PROVE  (call' = NoCall /\ ~ handshake) \/ call'.responses = call.responses
  BY <1>1, <1>6 DEF ResumeStartWithCredentials, CallInv, CallSound
<1>7. ASSUME HandshakeComplete
      PROVE  call'.responses \in {<<>>, <<"handshake">>} /\ ~ handshake
  <2>1. call.responses = <<"handshake">> /\ ~ handshake
        /\ call' = [call EXCEPT !.requests = pipeline, !.responses = Tail(@)]
    BY <1>1, <1>7 DEF HandshakeComplete, CallInv, CallSound
  <2>2. Tail(<<"handshake">>) = <<>>
    OBVIOUS
  <2>. QED
    BY <1>1, <2>1, <2>2 DEF Call
<1>8. ASSUME Greet PROVE call'.responses \in {<<>>, <<"handshake">>} /\ ~ handshake
  BY <1>1, <1>8 DEF Greet, CallInv, CallSound, Call
<1>9. ASSUME BackoffElapsed \/ RequestFails PROVE call'.responses = call.responses
  BY <1>1, <1>9 DEF BackoffElapsed, RequestFails, Call
<1>. QED
  BY <1>3, <1>4, <1>5, <1>6, <1>7, <1>8, <1>9

\* That the server refuses is seen only when the client reads it (Refuse).
LEMMA DenyStutters ==
    ASSUME PipelineInv, Deny
    PROVE  UNCHANGED Abstract!vars
<1>1. /\ Serving /\ call.requests # <<>>
      /\ call' = [call EXCEPT !.requests = Tail(@), !.responses = Append(@, "error")]
      /\ UNCHANGED <<queue, callbacks, made, ghosts, applied, currentUser>>
  BY DEF Deny, Serving, sdk
<1>2. /\ \A i \in DOMAIN call.responses : call.responses[i] = "result"
      /\ \A i \in DOMAIN call'.responses :
            IF i = Len(call.responses) + 1 THEN call'.responses[i] = "error"
            ELSE i \in DOMAIN call.responses /\ call'.responses[i] = "result"
      /\ Len(call'.responses) = Len(call.responses) + 1
      /\ call' \in Call /\ call \in Call
  BY <1>1, AnswerFacts DEF PipelineInv, CallInv, CallTypeOK
<1>3. Len(call.responses) \in Nat /\ DOMAIN call.responses = 1..Len(call.responses)
      /\ DOMAIN call'.responses = 1..(Len(call.responses) + 1)
  BY <1>2, CallFields
<1>4. Results = 1..Len(call.responses)
  BY <1>2, <1>3 DEF Results
<1>5. Results' = 1..Len(call.responses)
  BY <1>2, <1>3 DEF Results
<1>. QED
  BY <1>1, <1>4, <1>5, LeavesItAsItIs

\* The server applies the write that comes next in the queue.
LEMMA ApplyApplies ==
    ASSUME PipelineInv, Apply
    PROVE  Abstract!Apply(currentUser)
<1>. DEFINE q == queue[currentUser]
<1>1. /\ Serving /\ call.requests # <<>>
      /\ call' = [call EXCEPT !.requests = Tail(@), !.responses = Append(@, "result")]
      /\ applied' = Append(applied, Head(call.requests).write)
      /\ UNCHANGED <<queue, callbacks, made, ghosts, currentUser>>
  BY DEF Apply, Serving, sdk
<1>2. /\ \A i \in DOMAIN call.responses : call.responses[i] = "result"
      /\ \A i \in DOMAIN call'.responses :
            IF i = Len(call.responses) + 1 THEN call'.responses[i] = "result"
            ELSE i \in DOMAIN call.responses /\ call'.responses[i] = "result"
      /\ Len(call'.responses) = Len(call.responses) + 1
      /\ Head(call.requests) = pipeline[Len(call.responses) + 1]
      /\ Len(call.responses) + 1 \in 1..Len(pipeline)
      /\ call' \in Call /\ call \in Call
  BY <1>1, AnswerFacts DEF PipelineInv, CallInv, CallTypeOK
<1>3. PICK m \in Nat : m = Len(call.responses)
  BY <1>2, CallFields
<1>4. DOMAIN call.responses = 1..m /\ DOMAIN call'.responses = 1..(m + 1)
  BY <1>2, <1>3, CallFields
<1>5. Results = 1..m /\ Results' = 1..(m + 1)
  <2>1. Results = 1..m
    BY <1>2, <1>4 DEF Results
  <2>2. Results' = 1..(m + 1)
    BY <1>2, <1>3, <1>4 DEF Results
  <2>. QED
    BY <2>1, <2>2
<1>6. Cardinality(Results) = m /\ Cardinality(Results') = m + 1
  BY <1>5, FirstNumbers
<1>7. /\ currentUser \in User /\ q \in Seq(Batch)
      /\ Len(pipeline) <= Len(q) /\ \A i \in 1..Len(pipeline) : pipeline[i] = q[i]
      /\ Len(pipeline) \in Nat /\ Len(q) \in Nat
  BY CurrentQueue, LenProperties DEF PipelineInv, InFront, StoreInv, StoreTypeOK
<1>8. m + 1 \in 1..Len(q) /\ Head(call.requests) = q[m + 1]
  BY <1>2, <1>3, <1>7
<1>9. Len(WritesOf(q)) = Len(q) /\ WritesOf(q)[m + 1] = Head(call.requests).write
  BY <1>7, <1>8, WritesOfFacts
<1>10. Ahead[currentUser] = m /\ Waiting[currentUser] = WritesOf(q)
       /\ [Ahead EXCEPT ![currentUser] = m + 1]
             = [u \in User |-> IF u = currentUser THEN m + 1 ELSE 0]
  BY <1>6, AheadOfCurrent DEF PipelineInv
<1>11. Ahead' = [Ahead EXCEPT ![currentUser] = m + 1]
  BY <1>1, <1>6, <1>10 DEF Ahead
<1>12. Waiting' = Waiting /\ Awaited' = Awaited /\ UNCHANGED <<made, accepted, refused, told>>
  BY <1>1 DEF Waiting, Awaited, ghosts
<1>13. /\ Ahead[currentUser] < Len(Waiting[currentUser])
       /\ applied' = Append(applied, Waiting[currentUser][Ahead[currentUser] + 1])
       /\ Ahead' = [Ahead EXCEPT ![currentUser] = Ahead[currentUser] + 1]
  <2>1. m < Len(q)
    BY <1>7, <1>8
  <2>. QED
    BY <1>1, <1>9, <1>10, <1>11, <2>1
<1>. QED
  BY <1>12, <1>13 DEF Abstract!Apply, Waiting, Awaited, Ahead

\* A write of the app is Enqueue.
LEMMA WriteMutationsEnqueues ==
    ASSUME PipelineInv, WriteMutations
    PROVE  Abstract!Enqueue(currentUser)
<1>. DEFINE w == [by |-> currentUser, n |-> made + 1]
            batch == [id |-> nextBatchId, write |-> w]
            q == queue[currentUser]
<1>1. /\ made < MaxWrites /\ made' = made + 1
      /\ queue' = [queue EXCEPT ![currentUser] = Append(q, batch)]
      /\ callbacks' = [callbacks EXCEPT ![currentUser] = @ \cup {batch}]
      /\ Refilled(pipeline, Filled(pipeline, Append(q, batch)), call)
      /\ UNCHANGED <<currentUser, ghosts, faults, applied>>
  BY DEF WriteMutations
<1>2. /\ currentUser \in User /\ q \in Seq(Batch) /\ batch \in Batch
      /\ queue \in [User -> Seq(Batch)] /\ callbacks \in [User -> SUBSET Batch]
      /\ call \in Call
  BY StoreGrows, CurrentQueue DEF PipelineInv, StoreInv, StoreTypeOK, CallInv, CallTypeOK
<1>3. batch.write = w
  OBVIOUS
<1>. HIDE DEF w, batch
<1>4. WritesOf(Append(q, batch)) = Append(WritesOf(q), w)
  BY <1>2, <1>3, WritesOfLonger
<1>5. Waiting' = [Waiting EXCEPT ![currentUser] = Append(@, w)]
  BY <1>1, <1>2, <1>4 DEF Waiting
<1>6. Awaited' = Awaited \cup {w}
  <2>1. /\ callbacks'[currentUser] = callbacks[currentUser] \cup {batch}
        /\ \A u \in User \ {currentUser} : callbacks'[u] = callbacks[u]
    BY <1>1, <1>2
  <2>2. ASSUME NEW x PROVE x \in Awaited' <=> x \in Awaited \cup {w}
    <3>1. x \in Awaited' <=> \E u \in User : \E c \in callbacks'[u] : x = c.write
      BY DEF Awaited
    <3>2. x \in Awaited <=> \E u \in User : \E c \in callbacks[u] : x = c.write
      BY DEF Awaited
    <3>. QED
      BY <1>2, <1>3, <2>1, <3>1, <3>2
  <2>. QED
    BY <2>2
<1>7. Ahead' = Ahead
  <2>1. call'.responses = call.responses
    BY <1>1, <1>2 DEF Refilled, Call
  <2>. QED
    BY <1>1, <2>1 DEF Ahead, Results
<1>. QED
  BY <1>1, <1>5, <1>6, <1>7 DEF Abstract!Enqueue, Waiting, Awaited, Ahead, w, ghosts

\* The handler the id finds is that of the write, and there is one whenever the
\* write is waited for.
LEMMA FirstIsAnswered ==
    ASSUME StoreInv, pipeline # <<>>, NEW answer,
           queue' = [queue EXCEPT ![currentUser] =
                        Without(queue[currentUser], Head(pipeline).id)],
           NotifyUser(Head(pipeline).id, answer)
    PROVE  /\ Abstract!Answer(currentUser, answer)
           /\ Waiting[currentUser] # <<>>
           /\ Head(Waiting[currentUser]) = Head(pipeline).write
<1>. DEFINE q == queue[currentUser]
            found == {c \in callbacks[currentUser] : c.id = Head(pipeline).id}
<1>1. PICK first : first = Head(pipeline)
  OBVIOUS
<1>2. /\ q \in Seq(Batch) /\ q # <<>> /\ first = Head(q)
      /\ Without(q, first.id) = Tail(q) /\ Tail(q) \in Seq(Batch)
  BY <1>1, FirstOfPipeline
<1>3. /\ currentUser \in User
      /\ queue \in [User -> Seq(Batch)] /\ callbacks \in [User -> SUBSET Batch]
  BY DEF StoreInv, StoreTypeOK
<1>4. PICK w : w = first.write
  OBVIOUS
<1>5. WritesOf(q) # <<>> /\ Head(WritesOf(q)) = w /\ WritesOf(Tail(q)) = Tail(WritesOf(q))
  BY <1>2, <1>4, WritesOfRest
<1>6. /\ \A c \in callbacks[currentUser] : c.id = first.id => c = first
      /\ \A u \in User : \A c \in callbacks[u] :
            c.write = w => u = currentUser /\ c = first
  BY <1>2, <1>4, HandlersOfFirst
<1>7. Waiting' = [Waiting EXCEPT ![currentUser] = Tail(@)]
  BY <1>1, <1>2, <1>3, <1>5 DEF Waiting
<1>8. Waiting[currentUser] = WritesOf(q)
  BY <1>3 DEF Waiting
<1>9. /\ \A u \in User \ {currentUser} : callbacks'[u] = callbacks[u]
      /\ callbacks'[currentUser] = callbacks[currentUser] \ found
      /\ told' = told \cup {<<c.write, answer>> : c \in found}
  BY <1>3 DEF NotifyUser
<1>10. found = {c \in callbacks[currentUser] : c.id = first.id}
  BY <1>1
<1>. HIDE DEF found
<1>11. \A x : x \in Awaited <=> \E u \in User : \E c \in callbacks[u] : x = c.write
  BY DEF Awaited
<1>12. w \in Awaited <=> first \in callbacks[currentUser]
  BY <1>3, <1>4, <1>6, <1>11
<1>13. found = IF w \in Awaited THEN {first} ELSE {}
  BY <1>6, <1>10, <1>12
<1>14. told' = IF w \in Awaited THEN told \cup {<<w, answer>>} ELSE told
  BY <1>4, <1>9, <1>13
<1>15. Awaited' = Awaited \ {w}
  <2>1. ASSUME NEW x PROVE x \in Awaited' <=> x \in Awaited \ {w}
    <3>1. x \in Awaited' <=> \E u \in User : \E c \in callbacks'[u] : x = c.write
      BY DEF Awaited
    <3>2. ASSUME x \in Awaited' PROVE x \in Awaited \ {w}
      <4>0. PICK u \in User : \E c \in callbacks'[u] : x = c.write
        BY <3>1, <3>2
      <4>1. PICK c \in callbacks'[u] : x = c.write
        BY <4>0
      <4>2. c \in callbacks[u] /\ (u = currentUser => c \notin found)
        BY <1>9, <4>1
      <4>3. x # w
        BY <1>6, <1>10, <4>1, <4>2
      <4>. QED
        BY <1>11, <4>1, <4>2, <4>3
    <3>3. ASSUME x \in Awaited, x # w PROVE x \in Awaited'
      <4>0. PICK u \in User : \E c \in callbacks[u] : x = c.write
        BY <1>11, <3>3
      <4>1. PICK c \in callbacks[u] : x = c.write
        BY <4>0
      <4>2. u = currentUser => c \notin found
        BY <1>4, <1>6, <1>10, <3>3, <4>1
      <4>3. c \in callbacks'[u]
        BY <1>9, <4>1, <4>2
      <4>. QED
        BY <3>1, <4>1, <4>3
    <3>. QED
      BY <3>2, <3>3
  <2>. QED
    BY <2>1
<1>16. Head(Waiting[currentUser]) = w
  BY <1>5, <1>8
<1>. QED
  BY <1>1, <1>4, <1>5, <1>7, <1>8, <1>14, <1>15, <1>16 DEF Abstract!Answer, Waiting, Awaited

\* A result is Accept of the first write: it is the server's word on it.
LEMMA MutationResultAccepts ==
    ASSUME PipelineInv, MutationResult
    PROVE  Abstract!Accept(currentUser)
<1>1. /\ handshake /\ call.responses # <<>> /\ Head(call.responses) = "result"
      /\ pipeline # <<>>
      /\ NotifyUser(Head(pipeline).id, "ok")
      /\ queue' = [queue EXCEPT ![currentUser] =
                      Without(queue[currentUser], Head(pipeline).id)]
      /\ accepted' = accepted \cup {Head(pipeline).write}
      /\ call'.responses = Tail(call.responses)
      /\ UNCHANGED <<currentUser, refused, made, applied>>
  <2>1. call \in Call
    BY DEF PipelineInv, CallInv, CallTypeOK
  <2>. QED
    BY <2>1 DEF MutationResult, Refilled, Call
<1>2. /\ Abstract!Answer(currentUser, "ok")
      /\ Head(Waiting[currentUser]) = Head(pipeline).write
  BY <1>1, FirstIsAnswered DEF PipelineInv
<1>3. PICK s \in Seq({"handshake", "result", "error"}) : s = call.responses
  BY CallFields DEF PipelineInv, CallInv, CallTypeOK
<1>4. PICK m \in Nat : m = Len(s)
  BY LenProperties
<1>5. /\ s # <<>> /\ m > 0 /\ DOMAIN s = 1..m /\ s[1] = "result"
      /\ Tail(s) \in Seq({"handshake", "result", "error"}) /\ Len(Tail(s)) = m - 1
      /\ \A i \in 1..(m - 1) : Tail(s)[i] = s[i + 1]
  BY <1>1, <1>3, <1>4, EmptySeq, LenProperties, HeadTailProperties
<1>6. DOMAIN Tail(s) = 1..(m - 1)
  BY <1>5, LenProperties
<1>7. PICK k \in Nat : Results = 1..k /\ Cardinality(Results) = k /\ k <= m
  BY <1>1, <1>3, <1>4, ResultsComeFirst DEF PipelineInv
<1>8. k > 0
  <2>1. 1 \in Results
    BY <1>3, <1>5 DEF Results
  <2>. QED
    BY <1>7, <2>1
<1>9. Results' = 1..(k - 1)
  <2>1. \A i \in 1..m : i \in 1..k <=> s[i] = "result"
    BY <1>3, <1>5, <1>7 DEF Results
  <2>2. Results' = {i \in 1..(m - 1) : Tail(s)[i] = "result"}
    BY <1>1, <1>3, <1>6 DEF Results
  <2>3. ASSUME NEW i \in 1..(m - 1) PROVE (Tail(s)[i] = "result") <=> (i \in 1..(k - 1))
    <3>1. i + 1 \in 1..m /\ ((i + 1 \in 1..k) <=> (i \in 1..(k - 1)))
      BY <1>4, <1>7
    <3>. QED
      BY <1>5, <2>1, <3>1
  <2>4. \A i \in 1..(k - 1) : i \in 1..(m - 1)
    BY <1>4, <1>7
  <2>. QED
    BY <2>2, <2>3, <2>4
<1>10. Cardinality(Results') = k - 1
  <2>1. k - 1 \in Nat
    BY <1>7, <1>8
  <2>. QED
    BY <1>9, <2>1, FirstNumbers
<1>11. /\ Ahead[currentUser] = k
       /\ [Ahead EXCEPT ![currentUser] = k - 1]
             = [u \in User |-> IF u = currentUser THEN k - 1 ELSE 0]
  BY <1>7, AheadOfCurrent DEF PipelineInv
<1>12. Ahead' = [Ahead EXCEPT ![currentUser] = Ahead[currentUser] - 1]
  BY <1>1, <1>10, <1>11 DEF Ahead
<1>13. Ahead[currentUser] > 0
  BY <1>8, <1>11
<1>. QED
  BY <1>1, <1>2, <1>12, <1>13 DEF Abstract!Accept, Waiting, Awaited, Ahead

\* An error taken to be about the first write is Refuse.
LEMMA RejectFirstRefuses ==
    ASSUME PipelineInv, RejectFirst
    PROVE  Abstract!Refuse(currentUser)
<1>1. /\ pipeline # <<>>
      /\ NotifyUser(Head(pipeline).id, "error")
      /\ queue' = [queue EXCEPT ![currentUser] =
                      Without(queue[currentUser], Head(pipeline).id)]
      /\ refused' = refused \cup {Head(pipeline).write}
      /\ call' = NoCall
      /\ UNCHANGED <<accepted, made, applied>>
  BY DEF RejectFirst, Closed
<1>2. /\ Abstract!Answer(currentUser, "error")
      /\ Waiting[currentUser] # <<>>
      /\ Head(Waiting[currentUser]) = Head(pipeline).write
  BY <1>1, FirstIsAnswered DEF PipelineInv
<1>3. Ahead' = [Ahead EXCEPT ![currentUser] = 0]
  <2>1. [u \in User |-> IF u = currentUser THEN 0 ELSE 0] = [u \in User |-> 0]
    OBVIOUS
  <2>. QED
    BY <1>1, <2>1, CallOver, AheadOfCurrent DEF PipelineInv
<1>. QED
  BY <1>1, <1>2, <1>3 DEF Abstract!Refuse, Waiting, Awaited, Ahead

\* The start maps to the start of WriteQueue.
LEMMA PipelineInitImplements == Init => Abstract!Init
<1>. SUFFICES ASSUME Init PROVE Abstract!Init
  OBVIOUS
<1>1. WritesOf(<<>>) = <<>>
  <2>1. <<>> \in Seq(Batch) /\ Len(<<>>) = 0
    BY EmptySeq
  <2>2. PICK w \in Seq(Write) : w = WritesOf(<<>>) /\ Len(w) = 0
    BY <2>1, WritesOfFacts
  <2>. QED
    BY <2>2, EmptySeq
<1>2. Waiting = [u \in User |-> <<>>]
  BY <1>1 DEF Init, Waiting
<1>3. Awaited = {}
  BY DEF Init, Awaited
<1>4. Ahead = [u \in User |-> 0]
  <2>1. Results = {}
    BY DEF Init, Results, NoCall
  <2>. QED
    BY <2>1, FirstNumbers DEF Ahead
<1>. QED
  BY <1>2, <1>3, <1>4 DEF Init, Abstract!Init, Waiting, Awaited, Ahead

\* Every step maps to one of WriteQueue, or to none.
LEMMA PipelineStepImplements ==
    PipelineInv /\ [Next]_vars => [Abstract!Next]_Abstract!vars
<1>. SUFFICES ASSUME PipelineInv, [Next]_vars
              PROVE  Abstract!Next \/ UNCHANGED Abstract!vars
  OBVIOUS
<1>1. currentUser \in User
  BY DEF PipelineInv, StoreInv, StoreTypeOK
<1>2. CASE WriteMutations
  <2>1. \E u \in User : Abstract!Enqueue(u)
    BY <1>1, <1>2, WriteMutationsEnqueues DEF Abstract!Enqueue
  <2>. QED
    BY <2>1 DEF Abstract!Next
<1>3. CASE MutationResult
  <2>1. \E u \in User : Abstract!Accept(u)
    BY <1>1, <1>3, MutationResultAccepts DEF Abstract!Accept, Abstract!Answer
  <2>. QED
    BY <2>1 DEF Abstract!Next
<1>4. CASE WriteError \/ OperationFailed
  <2>1. RejectFirst
    BY <1>4 DEF WriteError, OperationFailed
  <2>2. \E u \in User : Abstract!Refuse(u)
    BY <1>1, <2>1, RejectFirstRefuses DEF Abstract!Refuse, Abstract!Answer
  <2>. QED
    BY <2>2 DEF Abstract!Next
<1>5. CASE Apply
  <2>1. \E u \in User : Abstract!Apply(u)
    BY <1>1, <1>5, ApplyApplies DEF Abstract!Apply
  <2>. QED
    BY <2>1 DEF Abstract!Next
<1>6. CASE \/ StreamError \/ IdleTimeout \/ ConnectivityChanged
           \/ \E u \in User : HandleCredentialChange(u)
  <2>1. \E u \in User : Abstract!Reconnect(u)
    BY <1>1, <1>6, ConnectionEndsReconnects DEF Abstract!Reconnect
  <2>. QED
    BY <2>1 DEF Abstract!Next
<1>7. CASE Relaunch
  BY <1>7, RelaunchRestarts DEF Abstract!Next
<1>8. CASE \/ ResumeStartWithCredentials \/ HandshakeComplete \/ BackoffElapsed
           \/ Greet \/ RequestFails
  BY <1>8, ConnectionStutters
<1>9. CASE Deny
  BY <1>9, DenyStutters
<1>10. CASE UNCHANGED vars
  <2>1. UNCHANGED <<queue, callbacks, made, ghosts, applied, currentUser, call>>
    BY <1>10 DEF vars, sdk, net, ghosts
  <2>2. Results' = Results
    BY <2>1 DEF Results
  <2>. QED
    BY <2>1, <2>2, LeavesItAsItIs
<1>. QED
  BY <1>2, <1>3, <1>4, <1>5, <1>6, <1>7, <1>8, <1>9, <1>10 DEF Next, Worker, Server

\* The write stream, with its handshakes, failures, restarts and ids used again,
\* is the queue of writes the app relies on, whatever the users, the size of the
\* pipeline and the number of failures.
THEOREM PipelineImplements == Spec => ImplementsWriteQueue
BY PipelineInvariant, PipelineInitImplements, PipelineStepImplements, PTL
DEF Spec, ImplementsWriteQueue, Abstract!Spec

-----------------------------------------------------------------------------
(***************************************************************************)
(* What is proved of the queue of writes holds of the pipeline.            *)
(***************************************************************************)

AbstractProofs == INSTANCE WriteQueueProofs WITH
    queue <- [u \in User |-> WritesOf(queue[u])],
    ahead <- [u \in User |-> IF u = currentUser THEN Cardinality(Results) ELSE 0],
    awaited <- UNION {{c.write : c \in callbacks[u]} : u \in User}

\* What is proved of WriteQueue may be used of the pipeline.
LEMMA PipelineIsAQueue == Spec => AbstractProofs!Spec
<1>1. Abstract!Init <=> AbstractProofs!Init
  BY DEF Abstract!Init, AbstractProofs!Init
<1>2. Abstract!Next <=> AbstractProofs!Next
  BY DEF Abstract!Next, Abstract!Enqueue, Abstract!Apply, Abstract!Accept,
         Abstract!Refuse, Abstract!Answer, Abstract!Reconnect, Abstract!Restart,
         AbstractProofs!Next, AbstractProofs!Enqueue, AbstractProofs!Apply,
         AbstractProofs!Accept, AbstractProofs!Refuse, AbstractProofs!Answer,
         AbstractProofs!Reconnect, AbstractProofs!Restart
<1>3. [Abstract!Next]_Abstract!vars => [AbstractProofs!Next]_AbstractProofs!vars
  BY <1>2 DEF Abstract!vars, AbstractProofs!vars
<1>4. Spec => Abstract!Spec
  BY PipelineImplements DEF ImplementsWriteQueue
<1>. QED
  BY <1>1, <1>3, <1>4, PTL DEF Abstract!Spec, AbstractProofs!Spec

\* Writes that are sent again after a lost connection may be applied twice, but
\* the last word on the server keeps their order.
THEOREM PipelineKeepsLastsInOrder == Spec => []LastsInOrder
<1>1. AbstractProofs!LastsInOrder => LastsInOrder
  BY DEF AbstractProofs!LastsInOrder, AbstractProofs!InQueue,
         LastsInOrder, Abstract!LastsInOrder, Abstract!InQueue
<1>. QED
  BY <1>1, PipelineIsAQueue, AbstractProofs!LastsAreInOrder, PTL

\* No write is lost or answered twice, whatever becomes of the stream, the user
\* and the process.
THEOREM PipelineLosesNothing == Spec => []NothingLost
<1>1. AbstractProofs!NothingLost => NothingLost
  BY DEF AbstractProofs!NothingLost, AbstractProofs!InQueue,
         NothingLost, Abstract!NothingLost, Abstract!InQueue
<1>. QED
  BY <1>1, PipelineIsAQueue, AbstractProofs!NothingIsLost, PTL

\* A completion handler, found by an id that is used again, hears what became of
\* its own write (NotifyUser).
THEOREM PipelineTellsTheTruth == Spec => []ToldTheTruth
<1>1. AbstractProofs!ToldTheTruth => ToldTheTruth
  BY DEF AbstractProofs!ToldTheTruth, ToldTheTruth, Abstract!ToldTheTruth
<1>. QED
  BY <1>1, PipelineIsAQueue, AbstractProofs!HandlersHearTheTruth, PTL

=============================================================================
