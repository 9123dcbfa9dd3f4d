--------------------------- MODULE ListenersProofs ---------------------------
(***************************************************************************)
(* What listeners can rely on, for any queries and documents, any losses   *)
(* of the stream and any number of messages on their way: what they are    *)
(* told of their targets (WatchTarget), and when (OnlineState).            *)
(***************************************************************************)
EXTENDS WatchTarget, OnlineState, SequenceTheorems, FiniteSetTheorems,
        FunctionTheorems, TLAPS

\* A message of some kind about t.
Is(m, kind, t) == m.kind = kind /\ m.target = t

\* The messages behind the last answer for t: those of the watch it has now.
OfThisWatch(rs, t) == {i \in 1..Len(rs) : \A j \in i..Len(rs) : ~ IsAnswer(rs[j], t)}

\* What a message of this watch makes of the documents that were told.
Tells(m, t, before, after) ==
    /\ Is(m, "Document", t) =>
          after = IF m.doc \in m.docs THEN before \cup {m.doc} ELSE before \ {m.doc}
    /\ Is(m, "Filter", t) => after = m.docs /\ after \subseteq before /\ after # before
    /\ ~ Is(m, "Document", t) /\ ~ Is(m, "Filter", t) => after = before
    /\ m.kind = "Snapshot" => m.of[t].sent = after

\* f[i] is what t was told up to message i: base with the answer, and in the end
\* what the server takes it to have been sent.
Traced(rs, t, base, sent, f) ==
    /\ f \in [0..Len(rs) -> Docs]
    /\ f[Len(rs)] = sent
    /\ \A i \in OfThisWatch(rs, t) : Tells(rs[i], t, f[i - 1], f[i])
    /\ \A k \in AnswersFor(rs, t) :
          (\A j \in AnswersFor(rs, t) : j <= k) => f[k] = base

\* A watch has snapshots only of what it is in, after CURRENT they say so, and
\* after a filter it is not called current again.
InOrder(rs, t, cur) ==
    \A i \in OfThisWatch(rs, t) :
        /\ rs[i].kind = "Snapshot" => t \in DOMAIN rs[i].of
        /\ Is(rs[i], "Current", t) =>
              cur /\ \A j \in i + 1..Len(rs) :
                        rs[j].kind = "Snapshot" => rs[j].of[t].current
        /\ Is(rs[i], "Filter", t) =>
              cur /\ \A j \in i + 1..Len(rs) : ~ Is(rs[j], "Current", t)

-----------------------------------------------------------------------------
(***************************************************************************)
(* Functions on some of the targets, and messages.                         *)
(***************************************************************************)

\* What it takes to be a function on some of the targets.
LEMMA PartialFacts ==
    ASSUME NEW S, NEW f
    PROVE  f \in Partial(S) <=> DOMAIN f \subseteq Target /\ f \in [DOMAIN f -> S]
BY DEF Partial

\* A value for one target added or replaced, and taken away.
LEMMA WithFacts ==
    ASSUME NEW S, NEW f \in Partial(S), NEW t \in Target, NEW v \in S
    PROVE  /\ With(f, t, v) \in Partial(S)
           /\ DOMAIN With(f, t, v) = DOMAIN f \cup {t}
           /\ With(f, t, v)[t] = v
           /\ \A x \in DOMAIN f \ {t} : With(f, t, v)[x] = f[x]
           /\ Without(f, t) \in Partial(S)
           /\ DOMAIN Without(f, t) = DOMAIN f \ {t}
           /\ \A x \in DOMAIN f \ {t} : Without(f, t)[x] = f[x]
BY PartialFacts DEF With, Without

\* The fields of a message, by its kind.
LEMMA ResponseFacts ==
    ASSUME NEW m \in Response
    PROVE  /\ m.kind \in {"Added", "Removed", "Current", "Document", "Filter", "Snapshot"}
           /\ m.kind = "Snapshot" => m.of \in Partial(Sent)
           /\ m.kind # "Snapshot" => m.target \in Target
           /\ m.kind = "Document" => m.doc \in Doc /\ m.docs \in Docs
           /\ m.kind = "Filter" => m.docs \in Docs
BY DEF Response

\* The fields of a request.
LEMMA RequestFacts ==
    ASSUME NEW r \in Request
    PROVE  /\ r.op \in {"Watch", "Unwatch"} /\ r.target \in Target /\ r.token \in Token
           /\ UNION r.token \in Docs
BY DEF Request, Token, Docs

\* Tokens stand for the documents in them.
LEMMA TokenFacts ==
    /\ {} \in Token /\ UNION {} = {}
    /\ \A ds \in Docs : {ds} \in Token /\ UNION {ds} = ds
    /\ \A k \in Token : k = {} \/ k = {UNION k}
    /\ \A k \in Token : UNION k \in Docs
BY DEF Token, Docs

-----------------------------------------------------------------------------
(***************************************************************************)
(* Places in a queue.                                                      *)
(***************************************************************************)

\* Places are finitely many.
LEMMA PlacesFinite ==
    ASSUME NEW n \in Nat, NEW P \in SUBSET (1..n)
    PROVE  IsFiniteSet(P) /\ Cardinality(P) \in Nat
<1>1. IsFiniteSet(1..n)
  BY FS_Interval
<1>. QED
  BY <1>1, FS_Subset, FS_CardinalityType

\* All places move up when the first is taken.
LEMMA PlacesMoveUp ==
    ASSUME NEW n \in Nat \ {0}, NEW P \in SUBSET (1..n),
           NEW Q, Q = {i \in 1..(n - 1) : i + 1 \in P}
    PROVE  /\ Cardinality(Q) \in Nat
           /\ Cardinality(P) = Cardinality(Q) + (IF 1 \in P THEN 1 ELSE 0)
<1>. DEFINE f == [i \in Q |-> i + 1]
<1>1. /\ IsFiniteSet(P) /\ Cardinality(P) \in Nat
      /\ IsFiniteSet(Q) /\ Cardinality(Q) \in Nat
  <2>1. Q \in SUBSET (1..n)
    OBVIOUS
  <2>. QED
    BY <2>1, PlacesFinite
<1>2. f \in Bijection(Q, P \ {1})
  <2>1. f \in [Q -> P \ {1}]
    OBVIOUS
  <2>2. \A i, j \in Q : f[i] = f[j] => i = j
    OBVIOUS
  <2>3. \A p \in P \ {1} : p - 1 \in Q /\ f[p - 1] = p
    OBVIOUS
  <2>. HIDE DEF f
  <2>. QED
    BY <2>1, <2>2, <2>3, Fun_IsBij
<1>3. Cardinality(P \ {1}) = Cardinality(Q)
  BY <1>1, <1>2, FS_Bijection DEF ExistsBijection
<1>4. Cardinality(P \ {1}) = IF 1 \in P THEN Cardinality(P) - 1 ELSE Cardinality(P)
  BY <1>1, FS_RemoveElement
<1>. QED
  BY <1>1, <1>3, <1>4

\* A queue when one is appended, by its places.
LEMMA AppendPlaces ==
    ASSUME NEW S, NEW s \in Seq(S), NEW e \in S
    PROVE  /\ Append(s, e) \in Seq(S) /\ Append(s, e) # <<>>
           /\ Len(s) \in Nat /\ Len(Append(s, e)) = Len(s) + 1
           /\ DOMAIN s = 1..Len(s) /\ DOMAIN Append(s, e) = 1..(Len(s) + 1)
           /\ \A i \in 1..Len(s) : Append(s, e)[i] = s[i]
           /\ Append(s, e)[Len(s) + 1] = e
<1>1. Append(s, e) \in Seq(S) /\ Len(Append(s, e)) = Len(s) + 1
  BY AppendProperties
<1>. QED
  BY <1>1, AppendProperties, LenProperties

\* A queue when its head is taken, by its places.
LEMMA TailPlaces ==
    ASSUME NEW S, NEW s \in Seq(S), s # <<>>
    PROVE  /\ Head(s) \in S /\ Head(s) = s[1] /\ Tail(s) \in Seq(S)
           /\ Len(s) \in Nat \ {0} /\ Len(Tail(s)) = Len(s) - 1
           /\ DOMAIN s = 1..Len(s) /\ DOMAIN Tail(s) = 1..(Len(s) - 1)
           /\ \A i \in 1..(Len(s) - 1) : Tail(s)[i] = s[i + 1]
<1>1. Len(s) \in Nat \ {0}
  BY EmptySeq
<1>2. Head(s) = s[1]
  OBVIOUS
<1>3. Tail(s) \in Seq(S) /\ Len(Tail(s)) = Len(s) - 1
  BY HeadTailProperties
<1>. QED
  BY <1>1, <1>2, <1>3, HeadTailProperties, LenProperties

\* Requests when one is sent.
LEMMA RequestAdded ==
    ASSUME NEW rq \in Seq(Request), NEW r \in Request, NEW t \in Target
    PROVE  /\ RequestsFor(Append(rq, r), t) =
                 RequestsFor(rq, t) \cup (IF r.target = t THEN {Len(rq) + 1} ELSE {})
           /\ IsFiniteSet(RequestsFor(rq, t))
           /\ Cardinality(RequestsFor(rq, t)) \in Nat
           /\ RequestsFor(rq, t) \in SUBSET (1..Len(rq))
           /\ Cardinality(RequestsFor(Append(rq, r), t)) =
                 Cardinality(RequestsFor(rq, t)) + (IF r.target = t THEN 1 ELSE 0)
<1>1. RequestsFor(Append(rq, r), t) =
          RequestsFor(rq, t) \cup (IF r.target = t THEN {Len(rq) + 1} ELSE {})
  BY AppendPlaces DEF RequestsFor
<1>2. RequestsFor(rq, t) \in SUBSET (1..Len(rq)) /\ Len(rq) \in Nat
  BY LenProperties DEF RequestsFor
<1>3. IsFiniteSet(RequestsFor(rq, t)) /\ Cardinality(RequestsFor(rq, t)) \in Nat
  BY <1>2, PlacesFinite
<1>4. Len(rq) + 1 \notin RequestsFor(rq, t)
  BY <1>2
<1>5. CASE r.target = t
  BY <1>1, <1>2, <1>3, <1>4, <1>5, FS_AddElement
<1>6. CASE r.target # t
  BY <1>1, <1>2, <1>3, <1>6
<1>. QED
  BY <1>5, <1>6

\* Requests when the server takes the first.
LEMMA RequestTaken ==
    ASSUME NEW rq \in Seq(Request), rq # <<>>, NEW t \in Target
    PROVE  /\ RequestsFor(Tail(rq), t) =
                 {i \in 1..(Len(rq) - 1) : i + 1 \in RequestsFor(rq, t)}
           /\ RequestsFor(rq, t) \in SUBSET (1..Len(rq))
           /\ 1 \in RequestsFor(rq, t) <=> Head(rq).target = t
           /\ Cardinality(RequestsFor(Tail(rq), t)) \in Nat
           /\ Cardinality(RequestsFor(rq, t)) =
                 Cardinality(RequestsFor(Tail(rq), t)) + (IF Head(rq).target = t THEN 1 ELSE 0)
<1>1. RequestsFor(Tail(rq), t) = {i \in 1..(Len(rq) - 1) : i + 1 \in RequestsFor(rq, t)}
  BY TailPlaces DEF RequestsFor
<1>2. RequestsFor(rq, t) \in SUBSET (1..Len(rq)) /\ Len(rq) \in Nat \ {0}
  BY TailPlaces DEF RequestsFor
<1>3. 1 \in RequestsFor(rq, t) <=> Head(rq).target = t
  BY TailPlaces DEF RequestsFor
<1>. QED
  BY <1>1, <1>2, <1>3, PlacesMoveUp

\* Messages, answers and those of this watch, when one is sent.
LEMMA ResponseAdded ==
    ASSUME NEW rs \in Seq(Response), NEW m \in Response, NEW t \in Target
    PROVE  /\ AnswersFor(Append(rs, m), t) =
                 AnswersFor(rs, t) \cup (IF IsAnswer(m, t) THEN {Len(rs) + 1} ELSE {})
           /\ OfThisWatch(Append(rs, m), t) =
                 IF IsAnswer(m, t) THEN {} ELSE OfThisWatch(rs, t) \cup {Len(rs) + 1}
           /\ IsFiniteSet(AnswersFor(rs, t))
           /\ Cardinality(AnswersFor(rs, t)) \in Nat
           /\ AnswersFor(rs, t) \in SUBSET (1..Len(rs))
           /\ Cardinality(AnswersFor(Append(rs, m), t)) =
                 Cardinality(AnswersFor(rs, t)) + (IF IsAnswer(m, t) THEN 1 ELSE 0)
<1>1. AnswersFor(Append(rs, m), t) =
          AnswersFor(rs, t) \cup (IF IsAnswer(m, t) THEN {Len(rs) + 1} ELSE {})
  BY AppendPlaces DEF AnswersFor
<1>2. AnswersFor(rs, t) \in SUBSET (1..Len(rs)) /\ Len(rs) \in Nat
  BY LenProperties DEF AnswersFor
<1>3. IsFiniteSet(AnswersFor(rs, t)) /\ Cardinality(AnswersFor(rs, t)) \in Nat
  BY <1>2, PlacesFinite
<1>4. Len(rs) + 1 \notin AnswersFor(rs, t)
  BY <1>2
<1>5. Cardinality(AnswersFor(Append(rs, m), t)) =
          Cardinality(AnswersFor(rs, t)) + (IF IsAnswer(m, t) THEN 1 ELSE 0)
  <2>1. CASE IsAnswer(m, t)
    BY <1>1, <1>2, <1>3, <1>4, <2>1, FS_AddElement
  <2>2. CASE ~ IsAnswer(m, t)
    BY <1>1, <1>2, <1>3, <2>2
  <2>. QED
    BY <2>1, <2>2
<1>6. OfThisWatch(Append(rs, m), t) =
          IF IsAnswer(m, t) THEN {} ELSE OfThisWatch(rs, t) \cup {Len(rs) + 1}
  <2>. DEFINE n == Len(rs)
              a == Append(rs, m)
  <2>1. n \in Nat /\ Len(a) = n + 1 /\ a[n + 1] = m /\ \A j \in 1..n : a[j] = rs[j]
    BY AppendPlaces
  <2>. HIDE DEF n, a
  <2>2. OfThisWatch(a, t) = {i \in 1..(n + 1) : \A j \in i..(n + 1) : ~ IsAnswer(a[j], t)}
    BY <2>1 DEF OfThisWatch
  <2>3. OfThisWatch(rs, t) = {i \in 1..n : \A j \in i..n : ~ IsAnswer(rs[j], t)}
    BY DEF OfThisWatch, n
  <2>4. \A i \in 1..(n + 1) : n + 1 \in i..(n + 1)
    BY <2>1
  <2>5. CASE IsAnswer(m, t)
    BY <2>1, <2>2, <2>4, <2>5 DEF a, n
  <2>6. CASE ~ IsAnswer(m, t)
    <3>1. ASSUME NEW i \in 1..n
          PROVE  (\A j \in i..(n + 1) : ~ IsAnswer(a[j], t))
                    <=> \A j \in i..n : ~ IsAnswer(rs[j], t)
      <4>1. \A j \in i..(n + 1) : j = n + 1 \/ j \in i..n
        BY <2>1
      <4>2. \A j \in i..n : j \in i..(n + 1) /\ a[j] = rs[j]
        BY <2>1
      <4>. QED
        BY <2>1, <2>6, <4>1, <4>2
    <3>2. \A j \in (n + 1)..(n + 1) : j = n + 1
      BY <2>1
    <3>3. 1..(n + 1) = 1..n \cup {n + 1}
      BY <2>1
    <3>. QED
      BY <2>1, <2>2, <2>3, <2>6, <3>1, <3>2, <3>3 DEF a, n
  <2>. QED
    BY <2>5, <2>6
<1>. QED
  BY <1>1, <1>2, <1>3, <1>5, <1>6

\* Messages, answers and those of this watch, when one is read.
LEMMA ResponseRead ==
    ASSUME NEW rs \in Seq(Response), rs # <<>>, NEW t \in Target
    PROVE  /\ AnswersFor(Tail(rs), t) =
                 {i \in 1..(Len(rs) - 1) : i + 1 \in AnswersFor(rs, t)}
           /\ OfThisWatch(Tail(rs), t) =
                 {i \in 1..(Len(rs) - 1) : i + 1 \in OfThisWatch(rs, t)}
           /\ AnswersFor(rs, t) \in SUBSET (1..Len(rs))
           /\ 1 \in AnswersFor(rs, t) <=> IsAnswer(Head(rs), t)
           /\ AnswersFor(rs, t) = {} => OfThisWatch(rs, t) = 1..Len(rs)
           /\ Cardinality(AnswersFor(Tail(rs), t)) \in Nat
           /\ Cardinality(AnswersFor(rs, t)) =
                 Cardinality(AnswersFor(Tail(rs), t)) + (IF IsAnswer(Head(rs), t) THEN 1 ELSE 0)
<1>1. AnswersFor(Tail(rs), t) = {i \in 1..(Len(rs) - 1) : i + 1 \in AnswersFor(rs, t)}
  BY TailPlaces DEF AnswersFor
<1>2. AnswersFor(rs, t) \in SUBSET (1..Len(rs)) /\ Len(rs) \in Nat \ {0}
  BY TailPlaces DEF AnswersFor
<1>3. 1 \in AnswersFor(rs, t) <=> IsAnswer(Head(rs), t)
  BY TailPlaces DEF AnswersFor
<1>4. AnswersFor(rs, t) = {} => OfThisWatch(rs, t) = 1..Len(rs)
  BY TailPlaces DEF AnswersFor, OfThisWatch
<1>5. OfThisWatch(Tail(rs), t) = {i \in 1..(Len(rs) - 1) : i + 1 \in OfThisWatch(rs, t)}
  <2>. DEFINE n == Len(rs)
  <2>1. n \in Nat \ {0} /\ Len(Tail(rs)) = n - 1 /\ \A j \in 1..(n - 1) : Tail(rs)[j] = rs[j + 1]
    BY TailPlaces
  <2>. HIDE DEF n
  <2>2. ASSUME NEW i \in 1..(n - 1)
        PROVE  (\A j \in i..(n - 1) : ~ IsAnswer(Tail(rs)[j], t))
                  <=> \A j \in (i + 1)..n : ~ IsAnswer(rs[j], t)
    <3>1. \A j \in i..(n - 1) : j + 1 \in (i + 1)..n /\ Tail(rs)[j] = rs[j + 1]
      BY <2>1
    <3>2. \A j \in (i + 1)..n : j - 1 \in i..(n - 1) /\ Tail(rs)[j - 1] = rs[j]
      BY <2>1
    <3>. QED
      BY <3>1, <3>2
  <2>3. \A i \in 1..(n - 1) : i + 1 \in 1..n
    BY <2>1
  <2>. QED
    BY <2>1, <2>2, <2>3 DEF OfThisWatch, n
<1>. QED
  BY <1>1, <1>2, <1>3, <1>4, <1>5, PlacesMoveUp

-----------------------------------------------------------------------------
(***************************************************************************)
(* What a watch was told, when a message is sent or read.                  *)
(***************************************************************************)

\* A message that is no answer for t tells it something more.
LEMMA TraceGoesOn ==
    ASSUME NEW rs \in Seq(Response), NEW m \in Response, NEW t \in Target,
           NEW base, NEW sent \in Docs, NEW more \in Docs, NEW f,
           Traced(rs, t, base, sent, f), ~ IsAnswer(m, t), Tells(m, t, sent, more)
    PROVE  \E g \in [0..Len(Append(rs, m)) -> Docs] :
               Traced(Append(rs, m), t, base, more, g) /\ g[0] = f[0]
<1>. DEFINE n == Len(rs)
            a == Append(rs, m)
            g == [i \in 0..(n + 1) |-> IF i = n + 1 THEN more ELSE f[i]]
<1>1. n \in Nat /\ Len(a) = n + 1 /\ a[n + 1] = m /\ \A j \in 1..n : a[j] = rs[j]
  BY AppendPlaces
<1>2. /\ AnswersFor(a, t) = AnswersFor(rs, t) /\ AnswersFor(rs, t) \in SUBSET (1..n)
      /\ OfThisWatch(a, t) = OfThisWatch(rs, t) \cup {n + 1}
      /\ OfThisWatch(rs, t) \in SUBSET (1..n)
  <2>1. OfThisWatch(rs, t) \in SUBSET (1..n)
    BY DEF OfThisWatch
  <2>. HIDE DEF n, a
  <2>2. /\ AnswersFor(a, t) =
               AnswersFor(rs, t) \cup (IF IsAnswer(m, t) THEN {n + 1} ELSE {})
        /\ OfThisWatch(a, t) =
               IF IsAnswer(m, t) THEN {} ELSE OfThisWatch(rs, t) \cup {n + 1}
        /\ AnswersFor(rs, t) \in SUBSET (1..n)
    BY ResponseAdded, Zenon DEF n, a
  <2>. QED
    BY <2>1, <2>2
<1>3. /\ f \in [0..n -> Docs] /\ f[n] = sent
      /\ \A i \in OfThisWatch(rs, t) : Tells(rs[i], t, f[i - 1], f[i])
      /\ \A k \in AnswersFor(rs, t) :
            (\A j \in AnswersFor(rs, t) : j <= k) => f[k] = base
  BY DEF Traced
<1>. HIDE DEF n, a
<1>4. g \in [0..(n + 1) -> Docs] /\ g[n + 1] = more /\ \A i \in 0..n : g[i] = f[i]
  BY <1>1, <1>3
<1>. HIDE DEF g
<1>5. ASSUME NEW i \in OfThisWatch(a, t) PROVE Tells(a[i], t, g[i - 1], g[i])
  <2>1. CASE i = n + 1
    <3>1. g[i] = more /\ g[i - 1] = sent /\ a[i] = m
      BY <1>1, <1>3, <1>4, <2>1
    <3>. QED
      BY <3>1
  <2>2. CASE i \in OfThisWatch(rs, t)
    <3>1. i \in 1..n /\ i - 1 \in 0..n /\ i \in 0..n
      BY <1>1, <1>2, <2>2
    <3>2. g[i] = f[i] /\ g[i - 1] = f[i - 1] /\ a[i] = rs[i]
      BY <1>1, <1>4, <3>1
    <3>. QED
      BY <1>3, <2>2, <3>2
  <2>. QED
    BY <1>2, <2>1, <2>2
<1>6. ASSUME NEW k \in AnswersFor(a, t), \A j \in AnswersFor(a, t) : j <= k
      PROVE  g[k] = base
  <2>1. k \in 0..n
    BY <1>1, <1>2
  <2>. QED
    BY <1>2, <1>3, <1>4, <1>6, <2>1
<1>7. Traced(a, t, base, more, g)
  BY <1>1, <1>4, <1>5, <1>6 DEF Traced
<1>8. g[0] = f[0]
  BY <1>1, <1>4
<1>. QED
  BY <1>1, <1>4, <1>7, <1>8 DEF a

\* An answer begins a new trace.
LEMMA TraceBegins ==
    ASSUME NEW rs \in Seq(Response), NEW m \in Response, NEW t \in Target,
           NEW base \in Docs, IsAnswer(m, t)
    PROVE  \E g \in [0..Len(Append(rs, m)) -> Docs] :
               Traced(Append(rs, m), t, base, base, g)
<1>. DEFINE a == Append(rs, m)
            g == [i \in 0..Len(a) |-> base]
<1>1. Len(rs) \in Nat /\ Len(a) = Len(rs) + 1
  BY AppendPlaces
<1>2. OfThisWatch(a, t) = {} /\ AnswersFor(a, t) \subseteq 0..Len(a)
  <2>1. OfThisWatch(a, t) = {}
    BY ResponseAdded
  <2>2. DOMAIN a = 1..Len(a)
    BY AppendPlaces
  <2>. HIDE DEF a
  <2>. QED
    BY <2>1, <2>2 DEF AnswersFor
<1>. HIDE DEF a
<1>3. g \in [0..Len(a) -> Docs] /\ \A i \in 0..Len(a) : g[i] = base
  OBVIOUS
<1>. HIDE DEF g
<1>4. Len(a) \in 0..Len(a)
  BY <1>1
<1>5. Traced(a, t, base, base, g)
  BY <1>2, <1>3, <1>4 DEF Traced
<1>. QED
  BY <1>3, <1>5 DEF a

\* A message is read: the trace is left from there on.
LEMMA TraceIsLeft ==
    ASSUME NEW rs \in Seq(Response), rs # <<>>, NEW t \in Target,
           NEW base, NEW sent, NEW f, Traced(rs, t, base, sent, f)
    PROVE  \E g \in [0..Len(Tail(rs)) -> Docs] :
               /\ Traced(Tail(rs), t, base, sent, g)
               /\ g[0] = f[1] /\ f[0] \in Docs /\ f[1] \in Docs
               /\ AnswersFor(rs, t) = {} => Tells(Head(rs), t, f[0], g[0])
               /\ AnswersFor(Tail(rs), t) = {} /\ IsAnswer(Head(rs), t) => g[0] = base
<1>. DEFINE n == Len(rs)
            b == Tail(rs)
            g == [i \in 0..(n - 1) |-> f[i + 1]]
<1>1. /\ n \in Nat \ {0} /\ Len(b) = n - 1 /\ Head(rs) = rs[1]
      /\ \A j \in 1..(n - 1) : b[j] = rs[j + 1]
  BY TailPlaces
<1>2. /\ AnswersFor(b, t) = {i \in 1..(n - 1) : i + 1 \in AnswersFor(rs, t)}
      /\ OfThisWatch(b, t) = {i \in 1..(n - 1) : i + 1 \in OfThisWatch(rs, t)}
      /\ AnswersFor(rs, t) \in SUBSET (1..n)
      /\ AnswersFor(rs, t) = {} => OfThisWatch(rs, t) = 1..n
      /\ 1 \in AnswersFor(rs, t) <=> IsAnswer(Head(rs), t)
  BY ResponseRead
<1>3. /\ f \in [0..n -> Docs] /\ f[n] = sent
      /\ \A i \in OfThisWatch(rs, t) : Tells(rs[i], t, f[i - 1], f[i])
      /\ \A k \in AnswersFor(rs, t) :
            (\A j \in AnswersFor(rs, t) : j <= k) => f[k] = base
  BY DEF Traced
<1>. HIDE DEF n, b
<1>4. /\ g \in [0..(n - 1) -> Docs]
      /\ \A i \in 0..(n - 1) : g[i] = f[i + 1]
  <2>1. \A i \in 0..(n - 1) : i + 1 \in 0..n
    BY <1>1
  <2>. QED
    BY <1>3, <2>1
<1>. HIDE DEF g
<1>5. g[n - 1] = sent /\ g[0] = f[1] /\ f[0] \in Docs /\ f[1] \in Docs
  <2>1. n - 1 \in 0..(n - 1) /\ (n - 1) + 1 = n /\ 0 \in 0..(n - 1)
        /\ 0 \in 0..n /\ 1 \in 0..n /\ 0 + 1 = 1
    BY <1>1
  <2>. QED
    BY <1>3, <1>4, <2>1
<1>6. ASSUME NEW i \in OfThisWatch(b, t) PROVE Tells(b[i], t, g[i - 1], g[i])
  <2>1. i \in 1..(n - 1) /\ i + 1 \in OfThisWatch(rs, t)
    BY <1>2
  <2>2. /\ i \in 0..(n - 1) /\ i - 1 \in 0..(n - 1)
        /\ (i - 1) + 1 = i /\ (i + 1) - 1 = i
    BY <1>1, <2>1
  <2>3. b[i] = rs[i + 1] /\ g[i] = f[i + 1] /\ g[i - 1] = f[(i + 1) - 1]
    BY <1>1, <1>4, <2>1, <2>2
  <2>. QED
    BY <1>3, <2>1, <2>3
<1>7. ASSUME NEW k \in AnswersFor(b, t), \A j \in AnswersFor(b, t) : j <= k
      PROVE  g[k] = base
  <2>1. k \in 1..(n - 1) /\ k + 1 \in AnswersFor(rs, t)
    BY <1>2
  <2>2. ASSUME NEW j \in AnswersFor(rs, t) PROVE j <= k + 1
    <3>1. CASE j = 1
      BY <1>1, <2>1, <3>1
    <3>2. CASE j # 1
      <4>1. j \in 1..n /\ j - 1 \in 1..(n - 1) /\ (j - 1) + 1 = j
        BY <1>1, <1>2, <3>2
      <4>2. j - 1 <= k
        BY <1>2, <1>7, <4>1
      <4>. QED
        BY <2>1, <4>1, <4>2
    <3>. QED
      BY <3>1, <3>2
  <2>3. f[k + 1] = base
    BY <1>3, <2>1, <2>2
  <2>. QED
    BY <1>1, <1>4, <2>1, <2>3
<1>8. Traced(b, t, base, sent, g)
  BY <1>1, <1>4, <1>5, <1>6, <1>7 DEF Traced
<1>9. AnswersFor(rs, t) = {} => Tells(Head(rs), t, f[0], g[0])
  <2>1. 1 \in 1..n /\ 1 - 1 = 0
    BY <1>1
  <2>. QED
    BY <1>1, <1>2, <1>3, <1>5, <2>1
<1>10. ASSUME AnswersFor(b, t) = {}, IsAnswer(Head(rs), t) PROVE g[0] = base
  <2>1. ASSUME NEW j \in AnswersFor(rs, t) PROVE j <= 1
    <3>1. j \in 1..n /\ (j = 1 \/ (j - 1 \in 1..(n - 1) /\ (j - 1) + 1 = j))
      BY <1>1, <1>2
    <3>. QED
      BY <1>2, <1>10, <3>1
  <2>. QED
    BY <1>2, <1>3, <1>5, <1>10, <2>1
<1>. QED
  BY <1>1, <1>4, <1>5, <1>8, <1>9, <1>10 DEF b

\* The order of messages is kept when one is read ...
LEMMA OrderIsLeft ==
    ASSUME NEW rs \in Seq(Response), rs # <<>>, NEW t \in Target, NEW cur,
           InOrder(rs, t, cur)
    PROVE  InOrder(Tail(rs), t, cur)
<1>. DEFINE n == Len(rs)
            b == Tail(rs)
<1>1. n \in Nat \ {0} /\ Len(b) = n - 1 /\ \A j \in 1..(n - 1) : b[j] = rs[j + 1]
  BY TailPlaces
<1>2. OfThisWatch(b, t) = {i \in 1..(n - 1) : i + 1 \in OfThisWatch(rs, t)}
  BY ResponseRead
<1>3. n = Len(rs)
  OBVIOUS
<1>. HIDE DEF n, b
<1>. SUFFICES ASSUME NEW i \in OfThisWatch(b, t)
     PROVE  /\ b[i].kind = "Snapshot" => t \in DOMAIN b[i].of
            /\ Is(b[i], "Current", t) =>
                  cur /\ \A j \in i + 1..Len(b) :
                            b[j].kind = "Snapshot" => b[j].of[t].current
            /\ Is(b[i], "Filter", t) =>
                  cur /\ \A j \in i + 1..Len(b) : ~ Is(b[j], "Current", t)
  BY DEF InOrder, b
<1>4. i \in 1..(n - 1) /\ i + 1 \in OfThisWatch(rs, t) /\ b[i] = rs[i + 1]
  BY <1>1, <1>2
<1>5. \A j \in i + 1..Len(b) : j + 1 \in (i + 1) + 1..n /\ b[j] = rs[j + 1]
  BY <1>1, <1>4
<1>. QED
  BY <1>3, <1>4, <1>5 DEF InOrder

\* ... and when one is sent that fits.
LEMMA OrderGoesOn ==
    ASSUME NEW rs \in Seq(Response), NEW m \in Response, NEW t \in Target,
           NEW cur, NEW now, InOrder(rs, t, cur), cur => now,
           m.kind = "Snapshot" => t \in DOMAIN m.of /\ (cur => m.of[t].current),
           Is(m, "Current", t) => now /\ ~ cur,
           Is(m, "Filter", t) => now
    PROVE  InOrder(Append(rs, m), t, now)
<1>. DEFINE n == Len(rs)
            a == Append(rs, m)
<1>1. n \in Nat /\ Len(a) = n + 1 /\ a[n + 1] = m /\ \A j \in 1..n : a[j] = rs[j]
  BY AppendPlaces
<1>2. OfThisWatch(a, t) \subseteq OfThisWatch(rs, t) \cup {n + 1}
      /\ OfThisWatch(rs, t) \subseteq 1..n
  BY ResponseAdded DEF OfThisWatch
<1>3. n = Len(rs)
  OBVIOUS
<1>. HIDE DEF n, a
<1>. SUFFICES ASSUME NEW i \in OfThisWatch(a, t)
     PROVE  /\ a[i].kind = "Snapshot" => t \in DOMAIN a[i].of
            /\ Is(a[i], "Current", t) =>
                  now /\ \A j \in i + 1..Len(a) :
                            a[j].kind = "Snapshot" => a[j].of[t].current
            /\ Is(a[i], "Filter", t) =>
                  now /\ \A j \in i + 1..Len(a) : ~ Is(a[j], "Current", t)
  BY DEF InOrder, a
<1>4. CASE i = n + 1
  <2>1. \A j \in i + 1..Len(a) : FALSE
    BY <1>1, <1>4
  <2>. QED
    BY <1>1, <1>4, <2>1
<1>5. CASE i \in OfThisWatch(rs, t)
  <2>1. i \in 1..n /\ a[i] = rs[i]
    BY <1>1, <1>2, <1>5
  <2>2. \A j \in i + 1..Len(a) : (j = n + 1 /\ a[j] = m) \/ (j \in i + 1..n /\ a[j] = rs[j])
    BY <1>1, <2>1
  <2>3. rs[i].kind = "Snapshot" => t \in DOMAIN rs[i].of
    BY <1>5 DEF InOrder
  <2>4. ASSUME Is(rs[i], "Current", t)
        PROVE  cur /\ \A j \in i + 1..n : rs[j].kind = "Snapshot" => rs[j].of[t].current
    BY <1>3, <1>5, <2>4 DEF InOrder
  <2>5. ASSUME Is(rs[i], "Filter", t)
        PROVE  cur /\ \A j \in i + 1..n : ~ Is(rs[j], "Current", t)
    BY <1>3, <1>5, <2>5 DEF InOrder
  <2>. QED
    BY <2>1, <2>2, <2>3, <2>4, <2>5
<1>. QED
  BY <1>2, <1>4, <1>5

-----------------------------------------------------------------------------
(***************************************************************************)
(* The invariant.                                                          *)
(***************************************************************************)

\* The server has got the last request for t, and that is a watch; and the
\* client has read the answer.
Served(t) == open /\ t \in DOMAIN listen /\ RequestsFor(requests, t) = {}
Settled(t) == Served(t) /\ AnswersFor(responses, t) = {}

\* Nothing is left of a stream that was lost.
Closed == ~ open =>
    /\ requests = <<>> /\ responses = <<>> /\ states = <<>>
    /\ resets = {} /\ server = <<>>

\* What is asked for last is what is listened to, from the documents there are.
LastRequest(t) ==
    \A i \in RequestsFor(requests, t) :
        (\A j \in RequestsFor(requests, t) : j <= i) =>
            /\ requests[i].op = "Watch" <=> t \in DOMAIN listen
            /\ t \in DOMAIN listen \ leftover => UNION requests[i].token = keys[t]

LastAnswer(t) ==
    RequestsFor(requests, t) = {} =>
        \A i \in AnswersFor(responses, t) :
            (\A j \in AnswersFor(responses, t) : j <= i) =>
                (responses[i].kind = "Added" <=> t \in DOMAIN listen)

AnswersCounted(t) ==
    State(t).outstanding =
        Cardinality(RequestsFor(requests, t)) + Cardinality(AnswersFor(responses, t))

\* The client's side: requests, answers and the state of the target.
Watching(t) ==
    /\ AnswersCounted(t) /\ LastRequest(t) /\ LastAnswer(t)
    /\ open /\ t \in DOMAIN listen => t \in DOMAIN states
    /\ t \in DOMAIN listen \ relisted /\ State(t).outstanding > 0 => ~ State(t).current

\* The server's side: what it has sent, in which order.
InServer(t) ==
    /\ t \in DOMAIN server => server[t].forgot \subseteq server[t].sent
    /\ Served(t) => t \in DOMAIN server /\ InOrder(responses, t, server[t].current)
    /\ Settled(t) /\ State(t).current /\ t \notin relisted =>
          /\ server[t].current
          /\ \A i \in DOMAIN responses :
                responses[i].kind = "Snapshot" => responses[i].of[t].current

\* A filter did not fit, and the target is to be watched again: until then it is
\* not called current.
Broken(t) ==
    /\ t \in resets /\ ~ State(t).current /\ server[t].current
    /\ \A i \in DOMAIN responses : ~ Is(responses[i], "Current", t)

\* What is on its way leads from what the client has to what the server takes
\* it to have.
Following(t) ==
    Served(t) /\ t \notin leftover =>
        \E f \in [0..Len(responses) -> Docs] :
            /\ Traced(responses, t, keys[t], server[t].sent, f)
            /\ Settled(t) => f[0] = State(t).next \/ Broken(t)

\* Tokens, and what the view was told, stand for the documents there are.
InCache(t) ==
    /\ t \notin leftover => UNION stored[t] = keys[t]
    /\ t \in DOMAIN listen \ leftover => UNION listen[t] = keys[t]
    /\ t \in DOMAIN listen \ leftover => at[t] = {} \/ at[t] = {keys[t]}
    /\ t \in current \ relisted => at[t] # {}

TargetInv(t) == Watching(t) /\ InServer(t) /\ Following(t) /\ InCache(t)

WatchInv ==
    /\ TypeOK /\ IsFiniteSet(DOMAIN listen) /\ Closed
    /\ \A t \in Target : TargetInv(t)

-----------------------------------------------------------------------------
\* The types of the parts of a state.
LEMMA WatchTypes ==
    ASSUME TypeOK, NEW t \in Target
    PROVE  /\ State(t) \in TargetState
           /\ State(t).outstanding \in Nat /\ State(t).current \in BOOLEAN
           /\ State(t).next \in Docs
           /\ keys[t] \in Docs /\ results[t] \in Docs
           /\ stored[t] \in Token /\ at[t] \in Token
           /\ t \in DOMAIN listen => listen[t] \in Token
           /\ t \in DOMAIN states => State(t) = states[t]
           /\ t \in DOMAIN server =>
                 /\ server[t] \in Sent
                 /\ server[t].sent \in Docs /\ server[t].forgot \in Docs
                 /\ server[t].current \in BOOLEAN
           /\ states \in Partial(TargetState)
<1>1. State(t) \in TargetState
  BY DEF TypeOK, State, TargetState, Docs
<1>2. listen \in [DOMAIN listen -> Token] /\ server \in [DOMAIN server -> Sent]
  BY PartialFacts DEF TypeOK
<1>3. states \in Partial(TargetState)
  BY PartialFacts DEF TypeOK
<1>4. t \in DOMAIN server =>
         /\ server[t] \in Sent
         /\ server[t].sent \in Docs /\ server[t].forgot \in Docs
         /\ server[t].current \in BOOLEAN
  BY <1>2 DEF Sent
<1>5. /\ State(t).outstanding \in Nat /\ State(t).current \in BOOLEAN
      /\ State(t).next \in Docs
  BY <1>1 DEF TargetState
<1>. QED
  BY <1>1, <1>2, <1>3, <1>4, <1>5 DEF TypeOK, State

\* Client's side of t as it was, but for requests and messages.
Quiet(t) ==
    /\ open' = open
    /\ t \in DOMAIN listen' <=> t \in DOMAIN listen
    /\ t \in DOMAIN listen => listen'[t] = listen[t]
    /\ t \in DOMAIN states => t \in DOMAIN states'
    /\ State(t)' = State(t)
    /\ t \in resets' <=> t \in resets
    /\ stored'[t] = stored[t] /\ keys'[t] = keys[t] /\ at'[t] = at[t]
    /\ t \in current' <=> t \in current
    /\ t \in relisted' <=> t \in relisted
    /\ t \in leftover' <=> t \in leftover

\* Requests for others come and go.
NoRequest(t) ==
    /\ Cardinality(RequestsFor(requests', t)) = Cardinality(RequestsFor(requests, t))
    /\ RequestsFor(requests', t) = {} <=> RequestsFor(requests, t) = {}
    /\ LastRequest(t)'

\* A step that concerns other targets.
LEMMA Elsewhere ==
    ASSUME WatchInv, NEW t \in Target, Quiet(t), NoRequest(t),
           responses' = responses, t \in DOMAIN server' <=> t \in DOMAIN server,
           t \in DOMAIN server => server'[t] = server[t]
    PROVE  TargetInv(t)'
<1>1. TargetInv(t)
  BY DEF WatchInv
<1>2. /\ (Served(t)' <=> Served(t)) /\ (Settled(t)' <=> Settled(t))
  BY DEF Served, Settled, Quiet, NoRequest
<1>3. Watching(t)'
  BY <1>1, <1>2 DEF TargetInv, Watching, AnswersCounted, LastAnswer, Quiet, NoRequest
<1>4. InServer(t)'
  BY <1>1, <1>2, Zenon DEF TargetInv, InServer, Quiet, Settled, Served
<1>5. Served(t) => (Broken(t)' <=> Broken(t))
  BY <1>1 DEF TargetInv, InServer, Broken, Quiet
<1>6. Following(t)'
  BY <1>1, <1>2, <1>5, Zenon DEF TargetInv, InServer, Following, Quiet
<1>7. InCache(t)'
  BY <1>1 DEF TargetInv, InCache, Quiet
<1>. QED
  BY <1>3, <1>4, <1>6, <1>7 DEF TargetInv

-----------------------------------------------------------------------------
(***************************************************************************)
(* Requests.                                                               *)
(***************************************************************************)

\* What t is asked for last does not change when a request is taken ...
LEMMA LastRequestTaken ==
    ASSUME TypeOK, requests # <<>>, requests' = Tail(requests),
           NEW t \in Target, LastRequest(t),
           t \in DOMAIN listen' <=> t \in DOMAIN listen,
           keys'[t] = keys[t], t \in leftover' <=> t \in leftover
    PROVE  /\ LastRequest(t)'
           /\ Cardinality(RequestsFor(requests', t)) \in Nat
           /\ Cardinality(RequestsFor(requests, t)) =
                 Cardinality(RequestsFor(requests', t))
                     + (IF Head(requests).target = t THEN 1 ELSE 0)
           /\ Head(requests).target # t => NoRequest(t)
           /\ RequestsFor(requests', t) = {} /\ Head(requests).target = t =>
                 /\ Head(requests).op = "Watch" <=> t \in DOMAIN listen
                 /\ t \in DOMAIN listen \ leftover => UNION Head(requests).token = keys[t]
<1>. DEFINE n == Len(requests)
<1>1. /\ n \in Nat \ {0} /\ Len(requests') = n - 1 /\ Head(requests) = requests[1]
      /\ \A j \in 1..(n - 1) : requests'[j] = requests[j + 1]
  BY TailPlaces DEF TypeOK
<1>. HIDE DEF n
<1>2. /\ RequestsFor(requests', t) = {i \in 1..(n - 1) : i + 1 \in RequestsFor(requests, t)}
      /\ RequestsFor(requests, t) \in SUBSET (1..n)
      /\ 1 \in RequestsFor(requests, t) <=> Head(requests).target = t
      /\ Cardinality(RequestsFor(requests', t)) \in Nat
      /\ Cardinality(RequestsFor(requests, t)) =
            Cardinality(RequestsFor(requests', t))
                + (IF Head(requests).target = t THEN 1 ELSE 0)
  BY RequestTaken DEF TypeOK, n
<1>3. ASSUME NEW j \in RequestsFor(requests, t)
      PROVE  j = 1 \/ (j - 1 \in RequestsFor(requests', t) /\ j = (j - 1) + 1)
  BY <1>1, <1>2
<1>4. LastRequest(t)'
  <2>. SUFFICES ASSUME NEW i \in RequestsFor(requests', t),
                       \A j \in RequestsFor(requests', t) : j <= i
       PROVE  /\ requests'[i].op = "Watch" <=> t \in DOMAIN listen
              /\ t \in DOMAIN listen \ leftover => UNION requests'[i].token = keys[t]
    BY DEF LastRequest
  <2>1. i \in 1..(n - 1) /\ i + 1 \in RequestsFor(requests, t) /\ requests'[i] = requests[i + 1]
    BY <1>1, <1>2
  <2>2. ASSUME NEW j \in RequestsFor(requests, t) PROVE j <= i + 1
    <3>1. CASE j = 1
      BY <2>1, <3>1
    <3>2. CASE j - 1 \in RequestsFor(requests', t)
      BY <1>1, <1>2, <2>1, <3>2
    <3>. QED
      BY <1>3, <3>1, <3>2
  <2>. QED
    BY <2>1, <2>2 DEF LastRequest
<1>5. ASSUME RequestsFor(requests', t) = {}, Head(requests).target = t
      PROVE  /\ Head(requests).op = "Watch" <=> t \in DOMAIN listen
             /\ t \in DOMAIN listen \ leftover => UNION Head(requests).token = keys[t]
  <2>1. \A j \in RequestsFor(requests, t) : j <= 1
    BY <1>3, <1>5
  <2>. QED
    BY <1>1, <1>2, <1>5, <2>1 DEF LastRequest
<1>6. ASSUME Head(requests).target # t PROVE NoRequest(t)
  <2>1. RequestsFor(requests', t) = {} <=> RequestsFor(requests, t) = {}
    BY <1>2, <1>3, <1>6
  <2>2. Cardinality(RequestsFor(requests', t)) = Cardinality(RequestsFor(requests, t))
    <3>1. /\ Cardinality(RequestsFor(requests, t)) =
                Cardinality(RequestsFor(requests', t)) + 0
          /\ Cardinality(RequestsFor(requests', t)) \in Nat
      BY <1>2, <1>6, Zenon
    <3>. QED
      BY <3>1
  <2>. QED
    BY <1>4, <2>1, <2>2, Zenon DEF NoRequest
<1>. QED
  BY <1>2, <1>4, <1>5, <1>6

\* ... nor when one is sent for another.
LEMMA RequestElsewhere ==
    ASSUME TypeOK, NEW r \in Request, requests' = Append(requests, r),
           NEW t \in Target, r.target # t, LastRequest(t),
           t \in DOMAIN listen' <=> t \in DOMAIN listen,
           keys'[t] = keys[t], t \in leftover' <=> t \in leftover
    PROVE  NoRequest(t)
<1>1. requests \in Seq(Request)
  BY DEF TypeOK
<1>2. /\ RequestsFor(requests', t) = RequestsFor(requests, t)
      /\ RequestsFor(requests, t) \in SUBSET (1..Len(requests))
  <2>1. RequestsFor(requests', t) = RequestsFor(requests, t) \cup {}
    BY <1>1, RequestAdded, Zenon
  <2>. QED
    BY <1>1, <2>1, RequestAdded
<1>3. \A i \in RequestsFor(requests, t) : requests'[i] = requests[i]
  BY <1>1, <1>2, AppendPlaces
<1>4. LastRequest(t)'
  <2>. SUFFICES ASSUME NEW i \in RequestsFor(requests, t),
                       \A j \in RequestsFor(requests, t) : j <= i
       PROVE  /\ requests'[i].op = "Watch" <=> t \in DOMAIN listen
              /\ t \in DOMAIN listen \ leftover => UNION requests'[i].token = keys[t]
    BY <1>2 DEF LastRequest
  <2>. QED
    BY <1>3 DEF LastRequest
<1>. QED
  BY <1>2, <1>4 DEF NoRequest

\* When one is sent for t it is the last.
LEMMA RequestSent ==
    ASSUME TypeOK, NEW r \in Request, requests' = Append(requests, r),
           NEW t \in Target, r.target = t
    PROVE  /\ RequestsFor(requests', t) # {}
           /\ Cardinality(RequestsFor(requests, t)) \in Nat
           /\ Cardinality(RequestsFor(requests', t)) =
                 Cardinality(RequestsFor(requests, t)) + 1
           /\ \A i \in RequestsFor(requests', t) :
                 (\A j \in RequestsFor(requests', t) : j <= i) => requests'[i] = r
<1>1. requests \in Seq(Request)
  BY DEF TypeOK
<1>2. /\ RequestsFor(requests', t) = RequestsFor(requests, t) \cup {Len(requests) + 1}
      /\ RequestsFor(requests, t) \in SUBSET (1..Len(requests))
      /\ Cardinality(RequestsFor(requests, t)) \in Nat
      /\ Cardinality(RequestsFor(requests', t)) =
                 Cardinality(RequestsFor(requests, t)) + 1
  BY <1>1, RequestAdded
<1>3. Len(requests) \in Nat /\ requests'[Len(requests) + 1] = r
  BY <1>1, AppendPlaces
<1>4. ASSUME NEW i \in RequestsFor(requests', t), \A j \in RequestsFor(requests', t) : j <= i
      PROVE  i = Len(requests) + 1
  BY <1>2, <1>3, <1>4
<1>. QED
  BY <1>2, <1>3, <1>4

-----------------------------------------------------------------------------
(***************************************************************************)
(* The server sends a message.                                             *)
(***************************************************************************)

\* A message is sent that is no answer for t, and fits what was sent before.
LEMMA MessageSent ==
    ASSUME WatchInv, NEW t \in Target, Quiet(t), NoRequest(t),
           NEW m \in Response, responses' = Append(responses, m), ~ IsAnswer(m, t),
           t \in DOMAIN server' <=> t \in DOMAIN server,
           t \in DOMAIN server =>
              /\ server'[t].sent \in Docs /\ server'[t].forgot \subseteq server'[t].sent
              /\ server[t].current => server'[t].current
              /\ Tells(m, t, server[t].sent, server'[t].sent)
              /\ m.kind = "Snapshot" =>
                    t \in DOMAIN m.of /\ (server[t].current => m.of[t].current)
              /\ Is(m, "Current", t) => server'[t].current /\ ~ server[t].current
              /\ Is(m, "Filter", t) => server'[t].current
    PROVE  TargetInv(t)'
<1>1. TargetInv(t) /\ TypeOK /\ responses \in Seq(Response)
  BY DEF WatchInv, TypeOK
<1>2. /\ AnswersFor(responses', t) = AnswersFor(responses, t)
      /\ AnswersFor(responses, t) \in SUBSET (1..Len(responses))
  <2>1. AnswersFor(responses', t) = AnswersFor(responses, t) \cup {}
    BY <1>1, ResponseAdded, Zenon
  <2>. QED
    BY <1>1, <2>1, ResponseAdded
<1>3. /\ Len(responses) \in Nat /\ DOMAIN responses' = 1..(Len(responses) + 1)
      /\ DOMAIN responses = 1..Len(responses)
      /\ \A i \in 1..Len(responses) : responses'[i] = responses[i]
      /\ responses'[Len(responses) + 1] = m
  BY <1>1, AppendPlaces
<1>4. (Served(t)' <=> Served(t)) /\ (Settled(t)' <=> Settled(t))
  BY <1>2 DEF Served, Settled, Quiet, NoRequest
<1>5. Watching(t)'
  <2>1. LastAnswer(t)'
    BY <1>1, <1>2, <1>3 DEF TargetInv, Watching, LastAnswer, Quiet, NoRequest
  <2>2. AnswersCounted(t)'
    BY <1>1, <1>2 DEF TargetInv, Watching, AnswersCounted, Quiet, NoRequest
  <2>. QED
    BY <1>1, <2>1, <2>2 DEF TargetInv, Watching, Quiet, NoRequest
<1>6. InServer(t)'
  <2>1. ASSUME Served(t) PROVE t \in DOMAIN server' /\ InOrder(responses', t, server'[t].current)
    <3>1. t \in DOMAIN server /\ InOrder(responses, t, server[t].current)
      BY <1>1, <2>1 DEF TargetInv, InServer
    <3>. QED
      BY <1>1, <3>1, OrderGoesOn
  <2>2. ASSUME Settled(t), State(t).current, t \notin relisted
        PROVE  /\ server'[t].current
               /\ \A i \in DOMAIN responses' :
                     responses'[i].kind = "Snapshot" => responses'[i].of[t].current
    <3>1. /\ t \in DOMAIN server /\ server[t].current
          /\ \A i \in DOMAIN responses :
                responses[i].kind = "Snapshot" => responses[i].of[t].current
      BY <1>1, <2>2 DEF TargetInv, InServer, Settled
    <3>2. \A i \in DOMAIN responses' : i \in DOMAIN responses \/ i = Len(responses) + 1
      BY <1>3
    <3>. QED
      BY <1>3, <3>1, <3>2
  <2>. QED
    BY <1>4, <2>1, <2>2 DEF InServer, Quiet
<1>7. Following(t)'
  <2>. SUFFICES ASSUME Served(t), t \notin leftover
       PROVE \E f \in [0..Len(responses') -> Docs] :
                /\ Traced(responses', t, keys[t], server'[t].sent, f)
                /\ Settled(t) => f[0] = State(t).next \/ Broken(t)'
    BY <1>4 DEF Following, Quiet
  <2>1. PICK f \in [0..Len(responses) -> Docs] :
            /\ Traced(responses, t, keys[t], server[t].sent, f)
            /\ Settled(t) => f[0] = State(t).next \/ Broken(t)
    BY <1>1 DEF TargetInv, Following
  <2>2. /\ t \in DOMAIN server /\ server[t].sent \in Docs
    BY <1>1, WatchTypes DEF TargetInv, InServer
  <2>3. PICK g \in [0..Len(responses') -> Docs] :
            Traced(responses', t, keys[t], server'[t].sent, g) /\ g[0] = f[0]
    BY <1>1, <2>1, <2>2, TraceGoesOn
  <2>4. Broken(t) => Broken(t)'
    <3>1. \A i \in DOMAIN responses' : i \in DOMAIN responses \/ i = Len(responses) + 1
      BY <1>3
    <3>. QED
      BY <1>3, <2>2, <3>1 DEF Broken, Quiet
  <2>. QED
    BY <2>1, <2>3, <2>4
<1>8. InCache(t)'
  BY <1>1 DEF TargetInv, InCache, Quiet
<1>. QED
  BY <1>5, <1>6, <1>7, <1>8 DEF TargetInv

-----------------------------------------------------------------------------
(***************************************************************************)
(* Sequences that list a set, and what a snapshot asks for.                *)
(***************************************************************************)

\* A function on 1..n is a sequence.
LEMMA SeqOfFunction ==
    ASSUME NEW S, NEW n \in Nat, NEW f \in [1..n -> S]
    PROVE  f \in Seq(S) /\ Len(f) = n /\ DOMAIN f = 1..n
OBVIOUS

\* s has the elements of S, each in one place.
Lists(s, S) ==
    /\ s \in Seq(S) /\ Len(s) \in Nat /\ s \in [1..Len(s) -> S]
    /\ \A x \in S : \E k \in 1..Len(s) : s[k] = x
    /\ \A j, k \in 1..Len(s) : s[j] = s[k] => j = k

\* A finite set is listed by SetToSeq, each element once.
LEMMA Listed ==
    ASSUME NEW S, IsFiniteSet(S), NEW s, s = SetToSeq(S)
    PROVE  Lists(s, S)
<1>. DEFINE n == Cardinality(S)
<1>1. n \in Nat /\ \E f \in [1..n -> S] : IsInjective(f)
  BY FS_CardinalityType DEF ExistsBijection, Bijection, Injection
<1>2. s \in [1..n -> S] /\ IsInjective(s)
  BY <1>1 DEF SetToSeq
<1>3. Len(s) = n /\ s \in Seq(S)
  BY <1>1, <1>2, SeqOfFunction
<1>4. \A x \in S : \E k \in 1..n : s[k] = x
  <2>1. s \in Injection(1..n, S)
    BY <1>2 DEF Injection
  <2>2. Cardinality(1..n) = n
    BY <1>1, FS_Interval
  <2>3. s \in Surjection(1..n, S)
    BY <2>1, <2>2, FS_Injection
  <2>. QED
    BY <2>3 DEF Surjection
<1>5. \A j, k \in 1..n : s[j] = s[k] => j = k
  BY <1>2 DEF IsInjective
<1>. HIDE DEF n
<1>. QED
  BY <1>1, <1>2, <1>3, <1>4, <1>5 DEF Lists

\* Odd and even places.
LEMMA Halves ==
    ASSUME NEW m \in Nat, NEW i \in 1..2 * m
    PROVE  \/ i % 2 = 1 /\ (i + 1) \div 2 \in 1..m /\ i = 2 * ((i + 1) \div 2) - 1
           \/ i % 2 # 1 /\ i \div 2 \in 1..m /\ i = 2 * (i \div 2)
OBVIOUS

\* The k-th of m has an odd and an even place.
LEMMA Doubles ==
    ASSUME NEW m \in Nat, NEW k \in 1..m
    PROVE  /\ 2 * k - 1 \in 1..2 * m /\ (2 * k - 1) % 2 = 1
           /\ ((2 * k - 1) + 1) \div 2 = k
           /\ 2 * k \in 1..2 * m /\ (2 * k) % 2 # 1 /\ (2 * k) \div 2 = k
OBVIOUS

\* For each target of a list, a request to stop and a request to watch it from
\* the start.
LEMMA TwoForEach ==
    ASSUME NEW again \in Seq(Target),
           NEW two, two = [i \in 1..2 * Len(again) |->
                IF i % 2 = 1 THEN Unwatch(again[(i + 1) \div 2])
                ELSE Watch(again[i \div 2], {})]
    PROVE  /\ two \in Seq(Request) /\ Len(two) = 2 * Len(again)
           /\ \A k \in 1..Len(again) :
                 two[2 * k - 1].target = again[k] /\ two[2 * k] = Watch(again[k], {})
<1>1. Len(again) \in Nat /\ \A k \in 1..Len(again) : again[k] \in Target
  BY LenProperties, ElementOfSeq
<1>2. ASSUME NEW i \in 1..2 * Len(again), NEW k \in 1..Len(again)
      PROVE  /\ i % 2 = 1 /\ (i + 1) \div 2 = k => two[i] = Unwatch(again[k])
             /\ i % 2 # 1 /\ i \div 2 = k => two[i] = Watch(again[k], {})
  BY Zenon
<1>3. \A k \in 1..Len(again) : Unwatch(again[k]) \in Request /\ Watch(again[k], {}) \in Request
  BY <1>1, TokenFacts DEF Unwatch, Watch, Request
<1>4. DOMAIN two = 1..2 * Len(again) /\ two = [i \in DOMAIN two |-> two[i]]
  BY Zenon
<1>5. ASSUME NEW i \in 1..2 * Len(again) PROVE two[i] \in Request
  <2>1. \/ i % 2 = 1 /\ (i + 1) \div 2 \in 1..Len(again)
        \/ i % 2 # 1 /\ i \div 2 \in 1..Len(again)
    BY <1>1, Halves, Zenon
  <2>. QED
    BY <1>2, <1>3, <2>1, Zenon
<1>6. two \in Seq(Request) /\ Len(two) = 2 * Len(again)
  <2>1. 2 * Len(again) \in Nat
    BY <1>1
  <2>2. two \in [1..2 * Len(again) -> Request]
    BY <1>4, <1>5, Zenon
  <2>. QED
    BY <2>1, <2>2, SeqOfFunction, Zenon
<1>7. ASSUME NEW k \in 1..Len(again)
      PROVE  two[2 * k - 1] = Unwatch(again[k]) /\ two[2 * k] = Watch(again[k], {})
  BY <1>1, <1>2, Doubles, Zenon
<1>8. \A k \in 1..Len(again) : Unwatch(again[k]).target = again[k]
  BY DEF Unwatch
<1>. QED
  BY <1>6, <1>7, <1>8, Zenon

\* Places of two for each, behind others.
LEMMA PlacesBehind ==
    ASSUME NEW n \in Nat, NEW m \in Nat, NEW i \in 1..(n + 2 * m)
    PROVE  i \in 1..n \/ \E k \in 1..m : i = n + (2 * k - 1) \/ i = n + 2 * k
<1>1. CASE i > n
  <2>1. PICK j \in 1..2 * m : i = n + j
    <3>1. i - n \in 1..2 * m /\ i = n + (i - n)
      BY <1>1
    <3>. QED
      BY <3>1
  <2>2. \E k \in 1..m : j = 2 * k - 1 \/ j = 2 * k
    BY Halves, Zenon
  <2>. QED
    BY <2>1, <2>2
<1>. QED
  BY <1>1

\* The places of two requests for the k-th of m, behind n others.
LEMMA PlacesOfTwo ==
    ASSUME NEW n \in Nat, NEW m \in Nat, NEW k \in 1..m
    PROVE  /\ n + (2 * k - 1) \in 1..(n + 2 * m) /\ n + 2 * k \in 1..(n + 2 * m)
           /\ n + (2 * k - 1) \notin 1..n /\ n + 2 * k \notin 1..n
           /\ 2 * k - 1 \in 1..2 * m /\ 2 * k \in 1..2 * m
           /\ n + (2 * k - 1) \in Nat /\ n + 2 * k \in Nat
           /\ n + (2 * k - 1) < n + 2 * k
OBVIOUS

\* Two more requests for each target of a list, the last to watch it from the
\* start, and the same as before for the others.
TwoMore(rq, rq2, again) ==
    /\ \A t \in Target : (\A k \in 1..Len(again) : again[k] # t) =>
          /\ RequestsFor(rq2, t) = RequestsFor(rq, t)
          /\ \A i \in RequestsFor(rq, t) : rq2[i] = rq[i]
    /\ \A k \in 1..Len(again) :
          /\ RequestsFor(rq2, again[k]) # {}
          /\ Cardinality(RequestsFor(rq, again[k])) \in Nat
          /\ Cardinality(RequestsFor(rq2, again[k])) =
                Cardinality(RequestsFor(rq, again[k])) + 2
          /\ \A i \in RequestsFor(rq2, again[k]) :
                (\A j \in RequestsFor(rq2, again[k]) : j <= i) =>
                   rq2[i] = Watch(again[k], {})

\* When they are sent, that to watch is the last one of its target.
LEMMA TwoSent ==
    ASSUME NEW rq \in Seq(Request), NEW again \in Seq(Target),
           \A j, k \in 1..Len(again) : again[j] = again[k] => j = k,
           NEW two \in Seq(Request), Len(two) = 2 * Len(again),
           \A k \in 1..Len(again) :
               two[2 * k - 1].target = again[k] /\ two[2 * k] = Watch(again[k], {}),
           NEW rq2, rq2 = rq \o two
    PROVE  rq2 \in Seq(Request) /\ TwoMore(rq, rq2, again)
<1>1. PICK n \in Nat, m \in Nat : n = Len(rq) /\ m = Len(again)
  BY LenProperties
<1>2. /\ rq2 \in Seq(Request) /\ DOMAIN rq = 1..n /\ DOMAIN rq2 = 1..(n + 2 * m)
      /\ \A i \in 1..(n + 2 * m) : rq2[i] = IF i <= n THEN rq[i] ELSE two[i - n]
      /\ \A k \in 1..m : again[k] \in Target
  <2>1. /\ rq2 \in Seq(Request) /\ Len(rq2) = n + 2 * m
        /\ \A i \in 1..(n + 2 * m) : rq2[i] = IF i <= n THEN rq[i] ELSE two[i - n]
    <3>1. /\ rq \o two \in Seq(Request) /\ Len(rq \o two) = Len(rq) + Len(two)
          /\ \A i \in 1..(Len(rq) + Len(two)) :
                (rq \o two)[i] = IF i <= Len(rq) THEN rq[i] ELSE two[i - Len(rq)]
      BY ConcatProperties, Zenon
    <3>2. Len(rq) = n /\ Len(two) = 2 * m
      BY <1>1, Zenon
    <3>. QED
      BY <3>1, <3>2, Zenon
  <2>2. DOMAIN rq = 1..n /\ DOMAIN rq2 = 1..(n + 2 * m)
    BY <1>1, <2>1, LenProperties, Zenon
  <2>3. \A k \in 1..m : again[k] \in Target
    BY <1>1, ElementOfSeq, Zenon
  <2>. QED
    BY <2>1, <2>2, <2>3, Zenon
<1>3. ASSUME NEW i \in 1..n PROVE i \in 1..(n + 2 * m) /\ rq2[i] = rq[i]
  <2>1. i \in 1..(n + 2 * m) /\ i <= n
    OBVIOUS
  <2>. QED
    BY <1>2, <2>1, Zenon
<1>4. ASSUME NEW i \in 1..2 * m PROVE rq2[n + i] = two[i]
  <2>1. n + i \in 1..(n + 2 * m) /\ ~ (n + i <= n) /\ (n + i) - n = i
    OBVIOUS
  <2>. QED
    BY <1>2, <2>1, Zenon
<1>5. ASSUME NEW k \in 1..m
      PROVE  /\ rq2[n + (2 * k - 1)].target = again[k]
             /\ rq2[n + 2 * k] = Watch(again[k], {}) /\ rq2[n + 2 * k].target = again[k]
  <2>1. two[2 * k - 1].target = again[k] /\ two[2 * k] = Watch(again[k], {})
    BY <1>1
  <2>2. Watch(again[k], {}).target = again[k]
    BY DEF Watch
  <2>. QED
    BY <1>4, <2>1, <2>2, PlacesOfTwo, Zenon
<1>6. ASSUME NEW t \in Target, \A k \in 1..m : again[k] # t
      PROVE  /\ RequestsFor(rq2, t) = RequestsFor(rq, t)
             /\ \A i \in RequestsFor(rq, t) : rq2[i] = rq[i]
  <2>1. ASSUME NEW i \in 1..(n + 2 * m), rq2[i].target = t PROVE i \in 1..n
    <3>1. i \in 1..n \/ \E k \in 1..m : i = n + (2 * k - 1) \/ i = n + 2 * k
      BY PlacesBehind, Zenon
    <3>2. ASSUME NEW k \in 1..m, i = n + (2 * k - 1) \/ i = n + 2 * k PROVE FALSE
      BY <1>5, <1>6, <2>1, <3>2, Zenon
    <3>. QED
      BY <3>1, <3>2, Zenon
  <2>2. RequestsFor(rq, t) = {i \in 1..n : rq[i].target = t}
    BY <1>2, Zenon DEF RequestsFor
  <2>3. RequestsFor(rq2, t) = {i \in 1..(n + 2 * m) : rq2[i].target = t}
    BY <1>2, Zenon DEF RequestsFor
  <2>. QED
    BY <1>3, <2>1, <2>2, <2>3, Zenon
<1>7. ASSUME NEW k \in 1..m
      PROVE  /\ RequestsFor(rq2, again[k]) # {}
             /\ Cardinality(RequestsFor(rq, again[k])) \in Nat
             /\ Cardinality(RequestsFor(rq2, again[k])) =
                   Cardinality(RequestsFor(rq, again[k])) + 2
             /\ \A i \in RequestsFor(rq2, again[k]) :
                   (\A j \in RequestsFor(rq2, again[k]) : j <= i) =>
                      rq2[i] = Watch(again[k], {})
  <2>0. PICK t \in Target : t = again[k]
    BY <1>2
  <2>1. PICK R, a, b : /\ t = again[k] /\ R = RequestsFor(rq, t)
                       /\ a = n + (2 * k - 1) /\ b = n + 2 * k
    BY <2>0
  <2>2. /\ R \in SUBSET (1..n) /\ a \notin 1..n /\ b \notin 1..n
        /\ a \in Nat /\ b \in Nat /\ a < b /\ n < b
    <3>1. R \in SUBSET (1..n)
      BY <1>2, <2>1 DEF RequestsFor
    <3>2. n < n + 2 * k
      OBVIOUS
    <3>. QED
      BY <2>1, <3>1, <3>2, PlacesOfTwo, Zenon
  <2>3. RequestsFor(rq2, t) = (R \cup {a}) \cup {b}
    <3>1. ASSUME NEW i \in 1..(n + 2 * m), rq2[i].target = t
          PROVE  i \in 1..n \/ i = a \/ i = b
      <4>1. i \in 1..n \/ \E l \in 1..m : i = n + (2 * l - 1) \/ i = n + 2 * l
        BY PlacesBehind, Zenon
      <4>2. ASSUME NEW l \in 1..m, i = n + (2 * l - 1) \/ i = n + 2 * l PROVE i = a \/ i = b
        <5>1. again[l] = again[k]
          BY <1>5, <2>1, <3>1, <4>2, Zenon
        <5>2. l = k
          BY <1>1, <5>1, Zenon
        <5>. QED
          BY <2>1, <4>2, <5>2, Zenon
      <4>. QED
        BY <4>1, <4>2, Zenon
    <3>2. a \in 1..(n + 2 * m) /\ b \in 1..(n + 2 * m) /\ rq2[a].target = t /\ rq2[b].target = t
      BY <1>5, <2>1, PlacesOfTwo, Zenon
    <3>3. R = {i \in 1..n : rq[i].target = t}
      BY <1>2, <2>1 DEF RequestsFor
    <3>4. RequestsFor(rq2, t) = {i \in 1..(n + 2 * m) : rq2[i].target = t}
      BY <1>2 DEF RequestsFor
    <3>. QED
      <4>1. RequestsFor(rq2, t) \subseteq (R \cup {a}) \cup {b}
        BY <1>3, <3>1, <3>3, <3>4, Zenon
      <4>2. (R \cup {a}) \cup {b} \subseteq RequestsFor(rq2, t)
        BY <1>3, <3>2, <3>3, <3>4, Zenon
      <4>. QED
        BY <4>1, <4>2, Zenon
  <2>4. IsFiniteSet(R) /\ Cardinality(R) \in Nat
    BY <2>2, PlacesFinite
  <2>5. a \notin R /\ b \notin R \cup {a}
    BY <2>2
  <2>6. IsFiniteSet(R \cup {a}) /\ Cardinality(R \cup {a}) = Cardinality(R) + 1
    BY <2>4, <2>5, FS_AddElement
  <2>7. Cardinality((R \cup {a}) \cup {b}) = (Cardinality(R) + 1) + 1
    BY <2>5, <2>6, FS_AddElement, Zenon
  <2>8. Cardinality(RequestsFor(rq2, t)) = Cardinality(R) + 2
    <3>1. (Cardinality(R) + 1) + 1 = Cardinality(R) + 2
      BY <2>4
    <3>. QED
      BY <2>3, <2>7, <3>1, Zenon
  <2>9. ASSUME NEW i \in RequestsFor(rq2, t), \A j \in RequestsFor(rq2, t) : j <= i
        PROVE  rq2[i] = Watch(t, {})
    <3>1. b <= i /\ (i \in R \/ i = a \/ i = b)
      BY <2>3, <2>9, Zenon
    <3>2. ~ (b <= a) /\ \A j \in R : ~ (b <= j)
      BY <2>2
    <3>3. i = b
      BY <3>1, <3>2, Zenon
    <3>. QED
      BY <1>5, <2>1, <3>3, Zenon
  <2>10. RequestsFor(rq2, t) # {}
    BY <2>3
  <2>. QED
    BY <2>1, <2>4, <2>8, <2>9, <2>10, Zenon
<1>. QED
  BY <1>1, <1>2, <1>6, <1>7, Zenon DEF TwoMore

-----------------------------------------------------------------------------
(***************************************************************************)
(* Types.                                                                  *)
(***************************************************************************)

\* Messages the server sends.
LEMMA MessageTypes ==
    /\ \A kind \in {"Added", "Removed", "Current"}, t \in Target :
          /\ About(kind, t) \in Response
          /\ About(kind, t).kind = kind /\ About(kind, t).target = t
    /\ \A t \in Target, d \in Doc, ds \in Docs :
          [kind |-> "Document", target |-> t, doc |-> d, docs |-> ds] \in Response
    /\ \A t \in Target, ds \in Docs : [kind |-> "Filter", target |-> t, docs |-> ds] \in Response
    /\ \A of \in Partial(Sent) : [kind |-> "Snapshot", of |-> of] \in Response
BY DEF About, Response

\* A target of the aggregator with its requests counted.
LEMMA PendingTypes ==
    ASSUME TypeOK, NEW t \in Target, NEW n \in Nat
    PROVE  /\ Pending(t, n) \in TargetState
           /\ Pending(t, n).outstanding = State(t).outstanding + n
           /\ Pending(t, n).current = State(t).current
           /\ Pending(t, n).next = State(t).next
<1>1. State(t) \in TargetState
  BY WatchTypes
<1>. QED
  BY <1>1 DEF Pending, TargetState

\* The types of the aggregator, kept when one target is replaced or removed.
LEMMA StatesTypes ==
    ASSUME TypeOK, NEW t \in Target, NEW v \in TargetState
    PROVE  /\ states' = With(states, t, v) =>
                 /\ DOMAIN states' \subseteq Target
                 /\ states' \in [DOMAIN states' -> TargetState]
                 /\ DOMAIN states' = DOMAIN states \cup {t} /\ states'[t] = v
                 /\ \A x \in DOMAIN states \ {t} : states'[x] = states[x]
           /\ states' = Without(states, t) =>
                 /\ DOMAIN states' \subseteq Target
                 /\ states' \in [DOMAIN states' -> TargetState]
                 /\ DOMAIN states' = DOMAIN states \ {t}
                 /\ \A x \in DOMAIN states \ {t} : states'[x] = states[x]
<1>1. states \in Partial(TargetState)
  BY WatchTypes
<1>2. ASSUME NEW f, f \in Partial(TargetState)
      PROVE  DOMAIN f \subseteq Target /\ f \in [DOMAIN f -> TargetState]
  BY <1>2, PartialFacts, Zenon
<1>3. /\ With(states, t, v) \in Partial(TargetState)
      /\ DOMAIN With(states, t, v) = DOMAIN states \cup {t} /\ With(states, t, v)[t] = v
      /\ \A x \in DOMAIN states \ {t} : With(states, t, v)[x] = states[x]
      /\ Without(states, t) \in Partial(TargetState)
      /\ DOMAIN Without(states, t) = DOMAIN states \ {t}
      /\ \A x \in DOMAIN states \ {t} : Without(states, t)[x] = states[x]
  <2>1. states \in [DOMAIN states -> TargetState] /\ DOMAIN states \subseteq Target
    BY DEF TypeOK
  <2>. QED
    BY <1>1, <2>1, PartialFacts DEF With, Without
<1>. QED
  BY <1>2, <1>3, Zenon

\* A message read.
LEMMA MessageTaken ==
    ASSUME TypeOK, NEW kind, Message(kind)
    PROVE  /\ responses # <<>> /\ Head(responses) \in Response
           /\ Head(responses).kind = kind
           /\ responses' = Tail(responses) /\ responses' \in Seq(Response)
           /\ kind # "Snapshot" => Head(responses).target \in Target
<1>1. Head(responses) \in Response /\ Tail(responses) \in Seq(Response)
  BY TailPlaces DEF TypeOK, Message
<1>. QED
  BY <1>1, ResponseFacts DEF Message

\* A request taken, and the answer to it sent.
LEMMA RequestAnswered ==
    ASSUME TypeOK, requests # <<>>, requests' = Tail(requests)
    PROVE  /\ Head(requests) \in Request /\ Head(requests).target \in Target
           /\ requests' \in Seq(Request) /\ UNION Head(requests).token \in Docs
<1>1. Head(requests) \in Request /\ Tail(requests) \in Seq(Request)
  BY TailPlaces DEF TypeOK
<1>. QED
  BY <1>1, RequestFacts

\* A message sent.
LEMMA MessageAdded ==
    ASSUME TypeOK, NEW m \in Response, Respond(m)
    PROVE  responses' \in Seq(Response) /\ responses' = Append(responses, m)
BY AppendPlaces DEF TypeOK, Respond

\* What was sent of one target changes.
LEMMA SentChanged ==
    ASSUME TypeOK, NEW t \in DOMAIN server, NEW v \in Sent,
           server' = [x \in DOMAIN server |-> IF x = t THEN v ELSE server[x]]
    PROVE  /\ server' \in Partial(Sent) /\ DOMAIN server' = DOMAIN server
           /\ server'[t] = v /\ \A x \in DOMAIN server \ {t} : server'[x] = server[x]
<1>1. DOMAIN server \subseteq Target /\ server \in [DOMAIN server -> Sent]
  BY PartialFacts DEF TypeOK
<1>2. /\ server' \in [DOMAIN server -> Sent] /\ DOMAIN server' = DOMAIN server
      /\ server'[t] = v /\ \A x \in DOMAIN server \ {t} : server'[x] = server[x]
  BY <1>1
<1>. QED
  BY <1>1, <1>2, PartialFacts

\* What the server does of one target.
LEMMA ServerChanges ==
    ASSUME TypeOK, NEW t \in Target
    PROVE  /\ ServerCurrent(t) =>
                 /\ t \in DOMAIN server /\ server' \in Partial(Sent)
                 /\ DOMAIN server' = DOMAIN server
                 /\ server'[t].sent = server[t].sent
                 /\ server'[t].forgot = server[t].forgot /\ server'[t].current
                 /\ \A x \in DOMAIN server \ {t} : server'[x] = server[x]
           /\ ServerFilter(t) =>
                 /\ t \in DOMAIN server /\ server' \in Partial(Sent)
                 /\ DOMAIN server' = DOMAIN server
                 /\ server'[t].sent = results[t] /\ server'[t].forgot = {}
                 /\ server'[t].current = server[t].current
                 /\ \A x \in DOMAIN server \ {t} : server'[x] = server[x]
           /\ \A d \in Doc : ServerDocument(t, d) =>
                 /\ t \in DOMAIN server /\ server' \in Partial(Sent)
                 /\ DOMAIN server' = DOMAIN server
                 /\ server'[t].sent = (IF d \in results[t] THEN server[t].sent \cup {d}
                                       ELSE server[t].sent \ {d})
                 /\ server'[t].forgot = server[t].forgot \ {d}
                 /\ server'[t].current = server[t].current
                 /\ \A x \in DOMAIN server \ {t} : server'[x] = server[x]
<1>. DEFINE Now(v) == /\ t \in DOMAIN server
                      /\ server' = [x \in DOMAIN server |-> IF x = t THEN v ELSE server[x]]
<1>1. t \in DOMAIN server => /\ server[t] \in Sent /\ server[t].sent \in Docs
                             /\ server[t].forgot \in Docs
                             /\ server[t].current \in BOOLEAN
  BY WatchTypes
<1>2. results[t] \in Docs
  BY DEF TypeOK
<1>3. ASSUME NEW v \in Sent, Now(v)
      PROVE  /\ t \in DOMAIN server /\ server' \in Partial(Sent)
             /\ DOMAIN server' = DOMAIN server /\ server'[t] = v
             /\ \A x \in DOMAIN server \ {t} : server'[x] = server[x]
  BY <1>3, SentChanged, Zenon
<1>4. ASSUME ServerCurrent(t)
      PROVE  \E v \in Sent : /\ Now(v) /\ v.sent = server[t].sent
                             /\ v.forgot = server[t].forgot /\ v.current
  <2>1. PICK v : v = [server[t] EXCEPT !.current = TRUE]
    OBVIOUS
  <2>2. Now(v)
    BY <1>4, <2>1 DEF ServerCurrent
  <2>3. /\ v \in Sent /\ v.sent = server[t].sent /\ v.forgot = server[t].forgot
        /\ v.current
    BY <1>1, <2>1, <2>2 DEF Sent
  <2>. QED
    BY <2>2, <2>3, Zenon
<1>5. ASSUME ServerFilter(t)
      PROVE  \E v \in Sent : /\ Now(v) /\ v.sent = results[t] /\ v.forgot = {}
                             /\ v.current = server[t].current
  <2>1. PICK v : v = [server[t] EXCEPT !.sent = results[t], !.forgot = {}]
    OBVIOUS
  <2>2. Now(v)
    BY <1>5, <2>1 DEF ServerFilter
  <2>3. /\ v \in Sent /\ v.sent = results[t] /\ v.forgot = {}
        /\ v.current = server[t].current
    BY <1>1, <1>2, <2>1, <2>2 DEF Sent, Docs
  <2>. QED
    BY <2>2, <2>3, Zenon
<1>6. ASSUME NEW d \in Doc, ServerDocument(t, d)
      PROVE  \E v \in Sent : /\ Now(v)
                             /\ v.sent = (IF d \in results[t] THEN server[t].sent \cup {d}
                                          ELSE server[t].sent \ {d})
                             /\ v.forgot = server[t].forgot \ {d}
                             /\ v.current = server[t].current
  <2>1. PICK v : v = [server[t] EXCEPT
                         !.sent = IF d \in results[t] THEN @ \cup {d} ELSE @ \ {d},
                         !.forgot = @ \ {d}]
    OBVIOUS
  <2>2. Now(v)
    BY <1>6, <2>1 DEF ServerDocument
  <2>3. /\ v \in Sent /\ v.current = server[t].current
        /\ v.forgot = server[t].forgot \ {d}
        /\ v.sent = (IF d \in results[t] THEN server[t].sent \cup {d}
                     ELSE server[t].sent \ {d})
    BY <1>1, <2>1, <2>2 DEF Sent, Docs
  <2>. QED
    BY <2>2, <2>3, Zenon
<1>. HIDE DEF Now
<1>8. ASSUME ServerCurrent(t)
      PROVE  /\ t \in DOMAIN server /\ server' \in Partial(Sent)
             /\ DOMAIN server' = DOMAIN server
             /\ server'[t].sent = server[t].sent
             /\ server'[t].forgot = server[t].forgot /\ server'[t].current
             /\ \A x \in DOMAIN server \ {t} : server'[x] = server[x]
  BY <1>3, <1>4, <1>8, Zenon
<1>9. ASSUME ServerFilter(t)
      PROVE  /\ t \in DOMAIN server /\ server' \in Partial(Sent)
             /\ DOMAIN server' = DOMAIN server
             /\ server'[t].sent = results[t] /\ server'[t].forgot = {}
             /\ server'[t].current = server[t].current
             /\ \A x \in DOMAIN server \ {t} : server'[x] = server[x]
  BY <1>3, <1>5, <1>9, Zenon
<1>10. ASSUME NEW d \in Doc, ServerDocument(t, d)
       PROVE  /\ t \in DOMAIN server /\ server' \in Partial(Sent)
              /\ DOMAIN server' = DOMAIN server
              /\ server'[t].sent = (IF d \in results[t] THEN server[t].sent \cup {d}
                                    ELSE server[t].sent \ {d})
              /\ server'[t].forgot = server[t].forgot \ {d}
              /\ server'[t].current = server[t].current
              /\ \A x \in DOMAIN server \ {t} : server'[x] = server[x]
  BY <1>3, <1>6, <1>10, Zenon
<1>. QED
  BY <1>8, <1>9, <1>10

\* The server keeps the types, and what is listened to.
LEMMA ServerTypes ==
    ASSUME TypeOK, Server
    PROVE  TypeOK' /\ DOMAIN listen' = DOMAIN listen
<1>1. CASE ServerWatch
  <2>1. PICK forgot \in {{}, (UNION Head(requests).token) \ results[Head(requests).target]} :
           server' = With(server, Head(requests).target,
                          [sent |-> UNION Head(requests).token, current |-> FALSE,
                           forgot |-> forgot])
    BY <1>1 DEF ServerWatch
  <2>2. /\ requests' \in Seq(Request) /\ Head(requests).target \in Target
        /\ UNION Head(requests).token \in Docs
    BY <1>1, RequestAnswered DEF ServerWatch
  <2>3. [sent |-> UNION Head(requests).token, current |-> FALSE, forgot |-> forgot] \in Sent
    BY <2>1, <2>2 DEF Sent, Docs
  <2>4. server' \in Partial(Sent)
    BY <2>1, <2>2, <2>3, WithFacts DEF TypeOK
  <2>5. responses' \in Seq(Response)
    BY <1>1, <2>2, MessageTypes, MessageAdded DEF ServerWatch
  <2>. QED
    BY <1>1, <2>2, <2>4, <2>5 DEF ServerWatch, TypeOK, aggregator, views, ghosts
<1>2. CASE ServerUnwatch
  <2>1. requests' \in Seq(Request) /\ Head(requests).target \in Target
    BY <1>2, RequestAnswered DEF ServerUnwatch
  <2>2. server' \in Partial(Sent)
    BY <1>2, PartialFacts DEF ServerUnwatch, Without, TypeOK
  <2>3. responses' \in Seq(Response)
    BY <1>2, <2>1, MessageTypes, MessageAdded DEF ServerUnwatch
  <2>. QED
    BY <1>2, <2>1, <2>2, <2>3 DEF ServerUnwatch, TypeOK, aggregator, views, ghosts
<1>3. CASE ServerSnapshot
  <2>1. responses' \in Seq(Response)
    BY <1>3, MessageTypes, MessageAdded DEF ServerSnapshot, TypeOK
  <2>. QED
    BY <1>3, <2>1 DEF ServerSnapshot, TypeOK, aggregator, views, ghosts
<1>4. ASSUME NEW t \in Target, ServerCurrent(t) PROVE TypeOK' /\ DOMAIN listen' = DOMAIN listen
  <2>1. responses' \in Seq(Response)
    BY <1>4, MessageTypes, MessageAdded DEF ServerCurrent
  <2>2. server' \in Partial(Sent)
    BY <1>4, ServerChanges
  <2>. QED
    BY <1>4, <2>1, <2>2 DEF ServerCurrent, TypeOK, aggregator, views, ghosts
<1>5. ASSUME NEW t \in Target, ServerFilter(t) PROVE TypeOK' /\ DOMAIN listen' = DOMAIN listen
  <2>1. responses' \in Seq(Response)
    BY <1>5, MessageTypes, MessageAdded DEF ServerFilter, TypeOK
  <2>2. server' \in Partial(Sent)
    BY <1>5, ServerChanges
  <2>. QED
    BY <1>5, <2>1, <2>2 DEF ServerFilter, TypeOK, aggregator, views, ghosts
<1>6. ASSUME NEW t \in Target, NEW d \in Doc, ServerDocument(t, d)
      PROVE  TypeOK' /\ DOMAIN listen' = DOMAIN listen
  <2>1. responses' \in Seq(Response)
    BY <1>6, MessageTypes, MessageAdded DEF ServerDocument, TypeOK
  <2>2. server' \in Partial(Sent)
    BY <1>6, ServerChanges
  <2>. QED
    BY <1>6, <2>1, <2>2 DEF ServerDocument, TypeOK, aggregator, views, ghosts
<1>. QED
  BY <1>1, <1>2, <1>3, <1>4, <1>5, <1>6 DEF Server

-----------------------------------------------------------------------------
(***************************************************************************)
(* Steps of the server.                                                    *)
(***************************************************************************)

\* The client's side does not change.
LEMMA ClientUnchanged ==
    ASSUME UNCHANGED <<open, listen, aggregator, stored, views, ghosts>>, NEW t \in Target
    PROVE  /\ Quiet(t)
           /\ requests' = requests /\ LastRequest(t) => NoRequest(t)
BY DEF aggregator, views, ghosts, Quiet, State, NoRequest, LastRequest

\* The request to watch t is taken and answered: the trace begins anew.
LEMMA WatchTaken ==
    ASSUME WatchInv, ServerWatch, NEW t \in Target, t = Head(requests).target
    PROVE  TargetInv(t)'
<1>. DEFINE m == About("Added", t)
<1>0. PICK had : had = UNION Head(requests).token
  OBVIOUS
<1>1. had \in Docs /\ requests # <<>> /\ requests' = Tail(requests)
  BY <1>0, RequestAnswered DEF WatchInv, ServerWatch
<1>2. TypeOK /\ TargetInv(t) /\ responses \in Seq(Response)
  BY <1>1 DEF WatchInv, TypeOK
<1>3. Quiet(t) /\ keys' = keys /\ leftover' = leftover /\ listen' = listen
  BY <1>1, ClientUnchanged DEF ServerWatch, views, ghosts
<1>4. m \in Response /\ IsAnswer(m, t) /\ m.kind = "Added" /\ responses' = Append(responses, m)
  BY <1>1, <1>2, MessageTypes, MessageAdded DEF ServerWatch, IsAnswer
<1>5. /\ LastRequest(t)' /\ Cardinality(RequestsFor(requests', t)) \in Nat
      /\ Cardinality(RequestsFor(requests, t)) = Cardinality(RequestsFor(requests', t)) + 1
      /\ RequestsFor(requests', t) = {} =>
            /\ t \in DOMAIN listen
            /\ t \notin leftover => had = keys[t]
  BY <1>0, <1>1, <1>2, <1>3, LastRequestTaken DEF TargetInv, Watching, ServerWatch
<1>6. PICK forgot \in {{}, had \ results[t]} :
          server' = With(server, t, [sent |-> had, current |-> FALSE, forgot |-> forgot])
  BY <1>0 DEF ServerWatch
<1>7. /\ t \in DOMAIN server' /\ server'[t].sent = had /\ ~ server'[t].current
      /\ server'[t].forgot \subseteq had
  BY <1>6 DEF With
<1>8. /\ AnswersFor(responses', t) = AnswersFor(responses, t) \cup {Len(responses) + 1}
      /\ OfThisWatch(responses', t) = {}
      /\ AnswersFor(responses, t) \in SUBSET (1..Len(responses))
      /\ Cardinality(AnswersFor(responses, t)) \in Nat
      /\ Cardinality(AnswersFor(responses', t)) = Cardinality(AnswersFor(responses, t)) + 1
  BY <1>1, <1>2, <1>4, ResponseAdded
<1>9. Len(responses) \in Nat /\ responses'[Len(responses) + 1] = m
  BY <1>2, <1>4, AppendPlaces
<1>. HIDE DEF m
<1>10. ~ Settled(t)'
  BY <1>8 DEF Settled
<1>11. Watching(t)'
  <2>1. AnswersCounted(t)'
    <3>1. State(t).outstanding =
              Cardinality(RequestsFor(requests, t)) + Cardinality(AnswersFor(responses, t))
      BY <1>2 DEF TargetInv, Watching, AnswersCounted
    <3>2. Cardinality(RequestsFor(requests, t)) + Cardinality(AnswersFor(responses, t)) =
              Cardinality(RequestsFor(requests', t)) + Cardinality(AnswersFor(responses', t))
      BY <1>5, <1>8
    <3>. QED
      BY <1>3, <3>1, <3>2 DEF AnswersCounted, Quiet
  <2>2. LastAnswer(t)'
    <3>. SUFFICES ASSUME RequestsFor(requests', t) = {}, NEW i \in AnswersFor(responses', t),
                         \A j \in AnswersFor(responses', t) : j <= i
         PROVE  responses'[i].kind = "Added" <=> t \in DOMAIN listen'
      BY DEF LastAnswer
    <3>1. i = Len(responses) + 1
      BY <1>8, <1>9
    <3>. QED
      BY <1>3, <1>4, <1>5, <1>9, <3>1
  <2>. QED
    BY <1>2, <1>3, <1>5, <2>1, <2>2 DEF TargetInv, Watching, Quiet
<1>12. InServer(t)'
  BY <1>7, <1>8, <1>10 DEF InServer, InOrder
<1>13. Following(t)'
  <2>. SUFFICES ASSUME Served(t)', t \notin leftover
       PROVE \E f \in [0..Len(responses') -> Docs] :
                Traced(responses', t, keys[t], server'[t].sent, f)
    BY <1>3, <1>10 DEF Following
  <2>1. had = keys[t]
    BY <1>5 DEF Served
  <2>. QED
    BY <1>1, <1>2, <1>4, <1>7, <2>1, TraceBegins
<1>14. InCache(t)'
  BY <1>2, <1>3 DEF TargetInv, InCache, Quiet
<1>. QED
  BY <1>11, <1>12, <1>13, <1>14 DEF TargetInv

\* The request to stop is taken and answered.
LEMMA UnwatchTaken ==
    ASSUME WatchInv, ServerUnwatch, NEW t \in Target, t = Head(requests).target
    PROVE  TargetInv(t)'
<1>. DEFINE m == About("Removed", t)
<1>1. requests # <<>> /\ requests' = Tail(requests)
  BY RequestAnswered DEF WatchInv, ServerUnwatch
<1>2. TypeOK /\ TargetInv(t) /\ responses \in Seq(Response)
  BY <1>1 DEF WatchInv, TypeOK
<1>3. Quiet(t) /\ keys' = keys /\ leftover' = leftover /\ listen' = listen
  BY <1>1, ClientUnchanged DEF ServerUnwatch, views, ghosts
<1>4. m \in Response /\ IsAnswer(m, t) /\ m.kind = "Removed" /\ responses' = Append(responses, m)
  BY <1>1, <1>2, MessageTypes, MessageAdded DEF ServerUnwatch, IsAnswer
<1>5. /\ LastRequest(t)' /\ Cardinality(RequestsFor(requests', t)) \in Nat
      /\ Cardinality(RequestsFor(requests, t)) = Cardinality(RequestsFor(requests', t)) + 1
      /\ RequestsFor(requests', t) = {} => t \notin DOMAIN listen
  BY <1>1, <1>2, <1>3, LastRequestTaken DEF TargetInv, Watching, ServerUnwatch
<1>6. t \notin DOMAIN server'
  BY DEF ServerUnwatch, Without
<1>8. /\ AnswersFor(responses', t) = AnswersFor(responses, t) \cup {Len(responses) + 1}
      /\ AnswersFor(responses, t) \in SUBSET (1..Len(responses))
      /\ Cardinality(AnswersFor(responses, t)) \in Nat
      /\ Cardinality(AnswersFor(responses', t)) = Cardinality(AnswersFor(responses, t)) + 1
  BY <1>1, <1>2, <1>4, ResponseAdded
<1>9. Len(responses) \in Nat /\ responses'[Len(responses) + 1] = m
  BY <1>2, <1>4, AppendPlaces
<1>. HIDE DEF m
<1>10. ~ Served(t)' /\ ~ Settled(t)'
  BY <1>3, <1>5 DEF Settled, Served
<1>11. Watching(t)'
  <2>1. AnswersCounted(t)'
    <3>1. State(t).outstanding =
              Cardinality(RequestsFor(requests, t)) + Cardinality(AnswersFor(responses, t))
      BY <1>2 DEF TargetInv, Watching, AnswersCounted
    <3>2. Cardinality(RequestsFor(requests, t)) + Cardinality(AnswersFor(responses, t)) =
              Cardinality(RequestsFor(requests', t)) + Cardinality(AnswersFor(responses', t))
      BY <1>5, <1>8
    <3>. QED
      BY <1>3, <3>1, <3>2 DEF AnswersCounted, Quiet
  <2>2. LastAnswer(t)'
    <3>. SUFFICES ASSUME RequestsFor(requests', t) = {}, NEW i \in AnswersFor(responses', t),
                         \A j \in AnswersFor(responses', t) : j <= i
         PROVE  responses'[i].kind = "Added" <=> t \in DOMAIN listen'
      BY DEF LastAnswer
    <3>1. i = Len(responses) + 1
      BY <1>8, <1>9
    <3>. QED
      BY <1>3, <1>4, <1>5, <1>9, <3>1
  <2>. QED
    BY <1>2, <1>3, <1>5, <2>1, <2>2 DEF TargetInv, Watching, Quiet
<1>12. InServer(t)' /\ Following(t)'
  BY <1>6, <1>10 DEF InServer, Following
<1>14. InCache(t)'
  BY <1>2, <1>3 DEF TargetInv, InCache, Quiet
<1>. QED
  BY <1>11, <1>12, <1>14 DEF TargetInv

\* A step of the server keeps what is true of each target.
LEMMA ServerKeeps ==
    ASSUME WatchInv, Server, NEW x \in Target
    PROVE  TargetInv(x)'
<1>1. TypeOK /\ TargetInv(x)
  BY DEF WatchInv
<1>2. LastRequest(x) /\ (x \in DOMAIN server => server[x].forgot \subseteq server[x].sent)
  BY <1>1 DEF TargetInv, Watching, InServer
<1>3. x \in DOMAIN server => server[x].sent \in Docs
  BY <1>1, WatchTypes
<1>4. ASSUME UNCHANGED requests, UNCHANGED <<open, listen, aggregator, stored, views, ghosts>>
      PROVE  Quiet(x) /\ NoRequest(x)
  BY <1>2, <1>4, ClientUnchanged
<1>5. CASE ServerWatch
  <2>1. PICK t \in Target : t = Head(requests).target
    BY <1>1, <1>5, RequestAnswered DEF ServerWatch
  <2>2. CASE x = t
    BY <1>5, <2>1, <2>2, WatchTaken
  <2>3. CASE x # t
    <3>1. /\ Quiet(x) /\ listen' = listen /\ keys' = keys /\ leftover' = leftover
          /\ requests # <<>> /\ requests' = Tail(requests)
      BY <1>5, ClientUnchanged DEF ServerWatch, views, ghosts
    <3>2. NoRequest(x)
      BY <1>1, <1>2, <2>1, <2>3, <3>1, LastRequestTaken
    <3>3. /\ x \in DOMAIN server' <=> x \in DOMAIN server
          /\ x \in DOMAIN server => server'[x] = server[x]
      BY <1>5, <2>1, <2>3 DEF ServerWatch, With
    <3>4. PICK m \in Response : /\ m = About("Added", t) /\ responses' = Append(responses, m)
                                /\ m.kind = "Added" /\ m.target = t
      BY <1>1, <1>5, <2>1, MessageTypes, MessageAdded DEF ServerWatch
    <3>. QED
      BY <1>2, <1>3, <2>3, <3>1, <3>2, <3>3, <3>4, MessageSent DEF Is, IsAnswer, Tells
  <2>. QED
    BY <2>2, <2>3
<1>6. CASE ServerUnwatch
  <2>1. PICK t \in Target : t = Head(requests).target
    BY <1>1, <1>6, RequestAnswered DEF ServerUnwatch
  <2>2. CASE x = t
    BY <1>6, <2>1, <2>2, UnwatchTaken
  <2>3. CASE x # t
    <3>1. /\ Quiet(x) /\ listen' = listen /\ keys' = keys /\ leftover' = leftover
          /\ requests # <<>> /\ requests' = Tail(requests)
      BY <1>6, ClientUnchanged DEF ServerUnwatch, views, ghosts
    <3>2. NoRequest(x)
      BY <1>1, <1>2, <2>1, <2>3, <3>1, LastRequestTaken
    <3>3. /\ x \in DOMAIN server' <=> x \in DOMAIN server
          /\ x \in DOMAIN server => server'[x] = server[x]
      BY <1>6, <2>1, <2>3 DEF ServerUnwatch, Without
    <3>4. PICK m \in Response : /\ m = About("Removed", t) /\ responses' = Append(responses, m)
                                /\ m.kind = "Removed" /\ m.target = t
      BY <1>1, <1>6, <2>1, MessageTypes, MessageAdded DEF ServerUnwatch
    <3>. QED
      BY <1>2, <1>3, <2>3, <3>1, <3>2, <3>3, <3>4, MessageSent DEF Is, IsAnswer, Tells
  <2>. QED
    BY <2>2, <2>3
<1>7. CASE ServerSnapshot
  <2>1. Quiet(x) /\ NoRequest(x)
    BY <1>4, <1>7 DEF ServerSnapshot
  <2>2. PICK m \in Response : /\ m.kind = "Snapshot" /\ m.of = server
                              /\ responses' = Append(responses, m)
    <3>1. [kind |-> "Snapshot", of |-> server] \in Response
      BY <1>1, MessageTypes DEF TypeOK
    <3>. QED
      BY <1>1, <1>7, <3>1, MessageAdded DEF ServerSnapshot
  <2>3. server' = server
    BY <1>7 DEF ServerSnapshot
  <2>. QED
    BY <1>2, <1>3, <2>1, <2>2, <2>3, MessageSent DEF Is, IsAnswer, Tells
<1>8. ASSUME NEW t \in Target, ServerCurrent(t) PROVE TargetInv(x)'
  <2>1. Quiet(x) /\ NoRequest(x)
    BY <1>4, <1>8 DEF ServerCurrent
  <2>2. PICK m \in Response : /\ m.kind = "Current" /\ m.target = t
                              /\ responses' = Append(responses, m)
    BY <1>1, <1>8, MessageTypes, MessageAdded DEF ServerCurrent
  <2>3. /\ t \in DOMAIN server /\ DOMAIN server' = DOMAIN server /\ ~ server[t].current
        /\ server'[t].sent = server[t].sent /\ server'[t].forgot = server[t].forgot
        /\ server'[t].current
        /\ \A y \in DOMAIN server \ {t} : server'[y] = server[y]
    BY <1>1, <1>8, ServerChanges DEF ServerCurrent
  <2>. QED
    BY <1>2, <1>3, <2>1, <2>2, <2>3, MessageSent DEF Is, IsAnswer, Tells
<1>9. ASSUME NEW t \in Target, ServerFilter(t) PROVE TargetInv(x)'
  <2>1. Quiet(x) /\ NoRequest(x)
    BY <1>4, <1>9 DEF ServerFilter
  <2>2. results[t] \in Docs
    BY <1>1 DEF TypeOK
  <2>3. PICK m \in Response : /\ m.kind = "Filter" /\ m.target = t /\ m.docs = results[t]
                              /\ responses' = Append(responses, m)
    BY <1>1, <1>9, <2>2, MessageTypes, MessageAdded DEF ServerFilter
  <2>4. /\ t \in DOMAIN server /\ DOMAIN server' = DOMAIN server /\ server[t].current
        /\ server'[t].sent = results[t] /\ server'[t].forgot = {}
        /\ server'[t].current = server[t].current
        /\ \A y \in DOMAIN server \ {t} : server'[y] = server[y]
    BY <1>1, <1>9, ServerChanges DEF ServerFilter
  <2>5. x = t => results[t] \subseteq server[t].sent /\ results[t] # server[t].sent
    BY <1>2, <1>9 DEF ServerFilter, Told
  <2>. QED
    BY <1>2, <1>3, <2>1, <2>2, <2>3, <2>4, <2>5, MessageSent DEF Is, IsAnswer, Tells
<1>10. ASSUME NEW t \in Target, NEW d \in Doc, ServerDocument(t, d) PROVE TargetInv(x)'
  <2>1. Quiet(x) /\ NoRequest(x)
    BY <1>4, <1>10 DEF ServerDocument
  <2>2. results[t] \in Docs
    BY <1>1 DEF TypeOK
  <2>3. PICK m \in Response : /\ m.kind = "Document" /\ m.target = t /\ m.doc = d
                              /\ m.docs = results[t] /\ responses' = Append(responses, m)
    BY <1>1, <1>10, <2>2, MessageTypes, MessageAdded DEF ServerDocument
  <2>4. /\ t \in DOMAIN server /\ DOMAIN server' = DOMAIN server
        /\ server'[t].sent = (IF d \in results[t] THEN server[t].sent \cup {d}
                              ELSE server[t].sent \ {d})
        /\ server'[t].forgot = server[t].forgot \ {d}
        /\ server'[t].current = server[t].current
        /\ \A y \in DOMAIN server \ {t} : server'[y] = server[y]
    BY <1>1, <1>10, ServerChanges
  <2>5. x = t => server'[t].sent \in Docs /\ server'[t].forgot \subseteq server'[t].sent
    BY <1>2, <1>3, <2>4 DEF Docs
  <2>. QED
    BY <1>2, <1>3, <2>1, <2>2, <2>3, <2>4, <2>5, MessageSent DEF Is, IsAnswer, Tells
<1>. QED
  BY <1>5, <1>6, <1>7, <1>8, <1>9, <1>10 DEF Server

-----------------------------------------------------------------------------
(***************************************************************************)
(* Messages read.                                                          *)
(***************************************************************************)

\* A target is active on a stream just when the last answer for it was read.
LEMMA ActiveIsSettled ==
    ASSUME WatchInv, open, NEW t \in Target
    PROVE  Active(t) <=> Settled(t)
<1>1. TypeOK /\ AnswersCounted(t)
  BY DEF WatchInv, TargetInv, Watching
<1>2. /\ RequestsFor(requests, t) \in SUBSET (1..Len(requests)) /\ Len(requests) \in Nat
      /\ AnswersFor(responses, t) \in SUBSET (1..Len(responses)) /\ Len(responses) \in Nat
  BY <1>1, LenProperties DEF TypeOK, RequestsFor, AnswersFor
<1>3. /\ IsFiniteSet(RequestsFor(requests, t)) /\ IsFiniteSet(AnswersFor(responses, t))
      /\ Cardinality(RequestsFor(requests, t)) \in Nat
      /\ Cardinality(AnswersFor(responses, t)) \in Nat
  BY <1>2, PlacesFinite
<1>4. /\ Cardinality(RequestsFor(requests, t)) = 0 <=> RequestsFor(requests, t) = {}
      /\ Cardinality(AnswersFor(responses, t)) = 0 <=> AnswersFor(responses, t) = {}
  BY <1>3, FS_EmptySet
<1>5. State(t).outstanding = 0 <=> RequestsFor(requests, t) = {} /\ AnswersFor(responses, t) = {}
  BY <1>1, <1>3, <1>4 DEF AnswersCounted
<1>. QED
  BY <1>5 DEF Active, Settled, Served

\* The last answer stays the last when a message is read.
LEMMA LastAnswerRead ==
    ASSUME TypeOK, responses # <<>>, responses' = Tail(responses), NEW t \in Target,
           LastAnswer(t), requests' = requests, listen' = listen
    PROVE  /\ LastAnswer(t)'
           /\ Cardinality(AnswersFor(responses', t)) \in Nat
           /\ Cardinality(AnswersFor(responses, t)) =
                 Cardinality(AnswersFor(responses', t))
                     + (IF IsAnswer(Head(responses), t) THEN 1 ELSE 0)
           /\ ~ IsAnswer(Head(responses), t) =>
                 (AnswersFor(responses', t) = {} <=> AnswersFor(responses, t) = {})
           /\ /\ RequestsFor(requests, t) = {} /\ AnswersFor(responses', t) = {}
              /\ IsAnswer(Head(responses), t)
              => (Head(responses).kind = "Added" <=> t \in DOMAIN listen)
<1>1. PICK n \in Nat \ {0} :
         /\ n = Len(responses) /\ Head(responses) = responses[1]
         /\ \A j \in 1..(n - 1) : responses'[j] = responses[j + 1]
  BY TailPlaces DEF TypeOK
<1>2. /\ AnswersFor(responses', t) = {i \in 1..(n - 1) : i + 1 \in AnswersFor(responses, t)}
      /\ AnswersFor(responses, t) \in SUBSET (1..n)
      /\ 1 \in AnswersFor(responses, t) <=> IsAnswer(Head(responses), t)
      /\ Cardinality(AnswersFor(responses', t)) \in Nat
      /\ Cardinality(AnswersFor(responses, t)) =
            Cardinality(AnswersFor(responses', t))
                + (IF IsAnswer(Head(responses), t) THEN 1 ELSE 0)
  BY <1>1, ResponseRead DEF TypeOK
<1>3. ASSUME NEW j \in AnswersFor(responses, t)
      PROVE  j = 1 \/ (j - 1 \in AnswersFor(responses', t) /\ j = (j - 1) + 1)
  BY <1>2
<1>4. LastAnswer(t)'
  <2>. SUFFICES ASSUME RequestsFor(requests, t) = {}, NEW i \in AnswersFor(responses', t),
                       \A j \in AnswersFor(responses', t) : j <= i
       PROVE  responses'[i].kind = "Added" <=> t \in DOMAIN listen
    BY DEF LastAnswer
  <2>1. i \in 1..(n - 1) /\ i + 1 \in AnswersFor(responses, t) /\ responses'[i] = responses[i + 1]
    BY <1>1, <1>2
  <2>2. ASSUME NEW j \in AnswersFor(responses, t) PROVE j <= i + 1
    <3>1. CASE j = 1
      BY <2>1, <3>1
    <3>2. CASE j - 1 \in AnswersFor(responses', t)
      BY <1>1, <1>2, <2>1, <3>2
    <3>. QED
      BY <1>3, <3>1, <3>2
  <2>. QED
    BY <2>1, <2>2 DEF LastAnswer
<1>5. ASSUME RequestsFor(requests, t) = {}, AnswersFor(responses', t) = {},
             IsAnswer(Head(responses), t)
      PROVE  Head(responses).kind = "Added" <=> t \in DOMAIN listen
  <2>1. \A j \in AnswersFor(responses, t) : j <= 1
    BY <1>3, <1>5
  <2>. QED
    BY <1>1, <1>2, <1>5, <2>1 DEF LastAnswer
<1>6. ~ IsAnswer(Head(responses), t) =>
          (AnswersFor(responses', t) = {} <=> AnswersFor(responses, t) = {})
  BY <1>2, <1>3
<1>. QED
  BY <1>2, <1>4, <1>5, <1>6

\* A message is read that is no answer for t; what it does to the state of t
\* fits what it told.
LEMMA MessageRead ==
    ASSUME WatchInv, NEW t \in Target, responses # <<>>, responses' = Tail(responses),
           ~ IsAnswer(Head(responses), t),
           UNCHANGED <<server, open, requests, listen, stored, views, ghosts>>,
           State(t)'.outstanding = State(t).outstanding,
           t \in DOMAIN states => t \in DOMAIN states',
           State(t).outstanding > 0 => State(t)'.current = State(t).current,
           Settled(t) /\ State(t)'.current /\ t \notin relisted =>
              /\ server[t].current
              /\ \A i \in DOMAIN responses' :
                    responses'[i].kind = "Snapshot" => responses'[i].of[t].current,
           Settled(t) /\ t \notin leftover =>
              \A before, after \in Docs :
                 Tells(Head(responses), t, before, after) /\ (before = State(t).next \/ Broken(t))
                    => after = State(t)'.next \/ Broken(t)'
    PROVE  TargetInv(t)'
<1>1. TypeOK /\ TargetInv(t) /\ responses \in Seq(Response)
  BY DEF WatchInv, TypeOK
<1>2. /\ LastAnswer(t)'
      /\ Cardinality(AnswersFor(responses', t)) = Cardinality(AnswersFor(responses, t))
      /\ AnswersFor(responses', t) = {} <=> AnswersFor(responses, t) = {}
  <2>1. /\ LastAnswer(t)'
        /\ Cardinality(AnswersFor(responses', t)) \in Nat
        /\ Cardinality(AnswersFor(responses, t)) = Cardinality(AnswersFor(responses', t)) + 0
        /\ AnswersFor(responses', t) = {} <=> AnswersFor(responses, t) = {}
    BY <1>1, LastAnswerRead DEF TargetInv, Watching
  <2>. QED
    BY <2>1
<1>3. (Served(t)' <=> Served(t)) /\ (Settled(t)' <=> Settled(t))
  BY <1>2 DEF Served, Settled
<1>4. Watching(t)'
  <2>1. AnswersCounted(t)'
    BY <1>1, <1>2 DEF TargetInv, Watching, AnswersCounted
  <2>2. LastRequest(t)'
    BY <1>1 DEF TargetInv, Watching, LastRequest, views, ghosts
  <2>. QED
    BY <1>1, <1>2, <2>1, <2>2 DEF TargetInv, Watching, ghosts
<1>5. InServer(t)'
  <2>1. Served(t) => t \in DOMAIN server /\ InOrder(responses', t, server[t].current)
    BY <1>1, OrderIsLeft DEF TargetInv, InServer
  <2>. QED
    BY <1>1, <1>3, <2>1 DEF TargetInv, InServer, ghosts
<1>6. Following(t)'
  <2>. SUFFICES ASSUME Served(t), t \notin leftover
       PROVE \E f \in [0..Len(responses') -> Docs] :
                /\ Traced(responses', t, keys[t], server[t].sent, f)
                /\ Settled(t) => f[0] = State(t)'.next \/ Broken(t)'
    BY <1>3, Zenon DEF Following, views, ghosts
  <2>1. PICK f \in [0..Len(responses) -> Docs] :
            /\ Traced(responses, t, keys[t], server[t].sent, f)
            /\ Settled(t) => f[0] = State(t).next \/ Broken(t)
    BY <1>1 DEF TargetInv, Following
  <2>2. PICK g \in [0..Len(responses') -> Docs] :
            /\ Traced(responses', t, keys[t], server[t].sent, g)
            /\ g[0] = f[1] /\ f[0] \in Docs /\ f[1] \in Docs
            /\ AnswersFor(responses, t) = {} => Tells(Head(responses), t, f[0], g[0])
    BY <1>1, <2>1, TraceIsLeft
  <2>3. Settled(t) => g[0] = State(t)'.next \/ Broken(t)'
    BY <2>1, <2>2, Zenon DEF Settled
  <2>. QED
    BY <2>2, <2>3
<1>7. InCache(t)'
  BY <1>1 DEF TargetInv, InCache, views, ghosts
<1>. QED
  BY <1>4, <1>5, <1>6, <1>7 DEF TargetInv

\* A message about another is read.
LEMMA ReadElsewhere ==
    ASSUME WatchInv, NEW t \in Target, responses # <<>>, responses' = Tail(responses),
           Head(responses).kind # "Snapshot", Head(responses).target # t,
           UNCHANGED <<server, open, requests, listen, stored, views, ghosts>>,
           t \in DOMAIN states' <=> t \in DOMAIN states,
           t \in DOMAIN states => states'[t] = states[t],
           t \in resets' <=> t \in resets
    PROVE  TargetInv(t)'
<1>1. State(t)' = State(t)
  BY DEF State, views
<1>2. TargetInv(t) /\ responses \in Seq(Response)
  BY DEF WatchInv, TypeOK
<1>3. \A i \in DOMAIN responses' : i + 1 \in DOMAIN responses /\ responses'[i] = responses[i + 1]
  BY <1>2, TailPlaces
<1>4. Settled(t) /\ State(t)'.current /\ t \notin relisted =>
         /\ server[t].current
         /\ \A i \in DOMAIN responses' :
               responses'[i].kind = "Snapshot" => responses'[i].of[t].current
  BY <1>1, <1>2, <1>3 DEF TargetInv, InServer
<1>5. Broken(t) => Broken(t)'
  BY <1>1, <1>3 DEF Broken
<1>. QED
  BY <1>1, <1>4, <1>5, MessageRead DEF IsAnswer, Tells, Is

\* An answer for t is read.
LEMMA AnswerRead ==
    ASSUME WatchInv, NEW t \in Target, responses # <<>>, responses' = Tail(responses),
           IsAnswer(Head(responses), t),
           UNCHANGED <<server, open, requests, listen, stored, views, ghosts>>,
           State(t)'.outstanding = State(t).outstanding - 1,
           State(t)'.current => State(t).current,
           Settled(t)' => State(t)'.next = keys[t],
           open /\ t \in DOMAIN listen => t \in DOMAIN states'
    PROVE  TargetInv(t)'
<1>1. TypeOK /\ TargetInv(t) /\ responses \in Seq(Response) /\ State(t).outstanding \in Nat
  BY WatchTypes DEF WatchInv, TypeOK
<1>2. /\ LastAnswer(t)'
      /\ Cardinality(AnswersFor(responses', t)) \in Nat
      /\ Cardinality(AnswersFor(responses, t)) = Cardinality(AnswersFor(responses', t)) + 1
  BY <1>1, LastAnswerRead DEF TargetInv, Watching
<1>3. Served(t)' <=> Served(t)
  BY DEF Served
<1>4. State(t).outstanding > 0 /\ AnswersCounted(t)'
  <2>1. /\ Cardinality(RequestsFor(requests, t)) \in Nat
        /\ State(t).outstanding =
              Cardinality(RequestsFor(requests, t)) + Cardinality(AnswersFor(responses, t))
    <3>1. RequestsFor(requests, t) \in SUBSET (1..Len(requests)) /\ Len(requests) \in Nat
      BY <1>1, LenProperties DEF TypeOK, RequestsFor
    <3>. QED
      BY <1>1, <3>1, PlacesFinite DEF TargetInv, Watching, AnswersCounted
  <2>2. State(t)'.outstanding =
            Cardinality(RequestsFor(requests, t)) + Cardinality(AnswersFor(responses', t))
    BY <1>2, <2>1
  <2>. QED
    BY <1>2, <2>1, <2>2 DEF AnswersCounted
<1>5. Watching(t)'
  <2>1. LastRequest(t)'
    BY <1>1 DEF TargetInv, Watching, LastRequest, views, ghosts
  <2>. QED
    BY <1>1, <1>2, <1>4, <2>1 DEF TargetInv, Watching, ghosts
<1>6. InServer(t)'
  <2>1. Served(t) => t \in DOMAIN server /\ InOrder(responses', t, server[t].current)
    BY <1>1, OrderIsLeft DEF TargetInv, InServer
  <2>2. Served(t) /\ t \notin relisted => ~ State(t)'.current
    BY <1>1, <1>4 DEF TargetInv, Watching, Served
  <2>. QED
    BY <1>1, <1>3, <2>1, <2>2 DEF TargetInv, InServer, Settled, ghosts
<1>7. Following(t)'
  <2>. SUFFICES ASSUME Served(t), t \notin leftover
       PROVE \E f \in [0..Len(responses') -> Docs] :
                /\ Traced(responses', t, keys[t], server[t].sent, f)
                /\ Settled(t)' => f[0] = State(t)'.next
    BY <1>3, Zenon DEF Following, views, ghosts
  <2>1. PICK f \in [0..Len(responses) -> Docs] :
            Traced(responses, t, keys[t], server[t].sent, f)
    BY <1>1 DEF TargetInv, Following
  <2>2. PICK g \in [0..Len(responses') -> Docs] :
            /\ Traced(responses', t, keys[t], server[t].sent, g)
            /\ AnswersFor(responses', t) = {} => g[0] = keys[t]
    BY <1>1, <2>1, TraceIsLeft
  <2>. QED
    BY <2>2 DEF Settled
<1>8. InCache(t)'
  BY <1>1 DEF TargetInv, InCache, views, ghosts
<1>. QED
  BY <1>5, <1>6, <1>7, <1>8 DEF TargetInv

\* The answers.
LEMMA AnswersKeep ==
    ASSUME WatchInv, TargetAdded \/ TargetRemoved, NEW x \in Target
    PROVE  TargetInv(x)' /\ TypeOK'
<1>1. TypeOK /\ TargetInv(x) /\ Closed
  BY DEF WatchInv
<1>2. PICK kind \in {"Added", "Removed"} : Message(kind)
  BY DEF TargetAdded, TargetRemoved
<1>3. PICK t \in Target : t = Head(responses).target
  BY <1>1, <1>2, MessageTaken
<1>4. /\ responses # <<>> /\ responses' = Tail(responses) /\ responses' \in Seq(Response)
      /\ Head(responses).kind \in {"Added", "Removed"} /\ IsAnswer(Head(responses), t)
  BY <1>1, <1>2, <1>3, MessageTaken DEF IsAnswer
<1>5. UNCHANGED <<external, server, open, requests, listen, resets, stored, views, ghosts, counts>>
  BY DEF TargetAdded, TargetRemoved, external
<1>6. /\ State(t).outstanding \in Nat \ {0} /\ State(t) \in TargetState
      /\ t \in DOMAIN states
  <2>1. TargetInv(t) /\ responses \in Seq(Response) /\ requests \in Seq(Request)
    BY <1>1 DEF WatchInv, TypeOK
  <2>2. /\ Cardinality(AnswersFor(responses', t)) \in Nat
        /\ Cardinality(AnswersFor(responses, t)) = Cardinality(AnswersFor(responses', t)) + 1
    BY <1>1, <1>4, <1>5, <2>1, LastAnswerRead DEF TargetInv, Watching
  <2>3. Cardinality(RequestsFor(requests, t)) \in Nat
    <3>1. RequestsFor(requests, t) \in SUBSET (1..Len(requests)) /\ Len(requests) \in Nat
      BY <2>1, LenProperties DEF RequestsFor
    <3>. QED
      BY <3>1, PlacesFinite
  <2>4. State(t).outstanding =
            Cardinality(RequestsFor(requests, t)) + Cardinality(AnswersFor(responses, t))
    BY <2>1 DEF TargetInv, Watching, AnswersCounted
  <2>5. State(t).outstanding \in Nat \ {0}
    BY <2>2, <2>3, <2>4
  <2>. QED
    BY <1>1, <2>5, WatchTypes DEF State
<1>7. PICK s \in TargetState :
         /\ s = Answered(t) /\ s.outstanding = State(t).outstanding - 1
         /\ s.current = State(t).current /\ s.next = State(t).next
  <2>1. PICK s : s = [State(t) EXCEPT !.outstanding = @ - 1]
    OBVIOUS
  <2>2. /\ s \in TargetState /\ s.outstanding = State(t).outstanding - 1
        /\ s.current = State(t).current /\ s.next = State(t).next
    BY <1>6, <2>1 DEF TargetState
  <2>. QED
    BY <2>1, <2>2, Zenon DEF Answered
<1>8. PICK r \in TargetState :
         /\ r = IF s.outstanding = 0 THEN [s EXCEPT !.next = keys[t]] ELSE s
         /\ r.outstanding = s.outstanding /\ r.current = s.current
         /\ s.outstanding = 0 => r.next = keys[t]
  <2>1. keys[t] \in Docs
    BY <1>1, WatchTypes
  <2>2. PICK r : r = [s EXCEPT !.next = keys[t]]
    OBVIOUS
  <2>3. r \in TargetState /\ r.outstanding = s.outstanding /\ r.current = s.current
        /\ r.next = keys[t]
    BY <1>7, <2>1, <2>2 DEF TargetState
  <2>4. CASE s.outstanding = 0
    BY <2>2, <2>3, <2>4, Zenon
  <2>5. CASE s.outstanding # 0
    BY <1>7, <2>5, Zenon
  <2>. QED
    BY <2>4, <2>5
<1>9. \/ TargetAdded /\ states' = With(states, t, r)
      \/ TargetRemoved /\ s.outstanding = 0 /\ states' = Without(states, t)
      \/ TargetRemoved /\ s.outstanding # 0 /\ states' = With(states, t, s)
  BY <1>3, <1>7, <1>8, Zenon DEF TargetAdded, TargetRemoved
<1>10. /\ DOMAIN states' \subseteq Target /\ states' \in [DOMAIN states' -> TargetState]
       /\ \A y \in DOMAIN states \ {t} : y \in DOMAIN states' /\ states'[y] = states[y]
       /\ DOMAIN states' \subseteq DOMAIN states
  <2>1. CASE states' = Without(states, t)
    BY <1>1, <1>7, <2>1, StatesTypes
  <2>2. CASE states' = With(states, t, r)
    BY <1>1, <1>6, <1>8, <2>2, StatesTypes
  <2>3. CASE states' = With(states, t, s)
    BY <1>1, <1>6, <1>7, <2>3, StatesTypes
  <2>. QED
    BY <1>9, <2>1, <2>2, <2>3
<1>11. TypeOK'
  BY <1>1, <1>4, <1>5, <1>10 DEF TypeOK, external, views, ghosts
<1>12. CASE x # t
  <2>1. x \in DOMAIN states' <=> x \in DOMAIN states
    BY <1>10, <1>12
  <2>2. x \in DOMAIN states => states'[x] = states[x]
    BY <1>10, <1>12
  <2>3. TargetInv(x)'
    BY <1>3, <1>4, <1>5, <1>12, <2>1, <2>2, ReadElsewhere
  <2>. QED
    BY <1>11, <2>3
<1>13. CASE x = t /\ states' = With(states, t, r) /\ TargetAdded
  <2>1. t \in DOMAIN states' /\ State(t)' = r
    BY <1>13 DEF With, State
  <2>2. ASSUME Settled(t)' PROVE State(t)'.next = keys[t]
    <3>1. RequestsFor(requests, t) = {} /\ AnswersFor(responses', t) = {}
      BY <1>5, <2>2 DEF Settled, Served
    <3>2. Cardinality(RequestsFor(requests, t)) = 0 /\ Cardinality(AnswersFor(responses', t)) = 0
      BY <3>1, FS_EmptySet
    <3>3. Cardinality(AnswersFor(responses, t)) = 0 + 1
      BY <1>1, <1>4, <1>5, <1>13, <3>2, LastAnswerRead DEF TargetInv, Watching
    <3>4. State(t).outstanding = 1
      BY <1>1, <1>13, <3>2, <3>3 DEF TargetInv, Watching, AnswersCounted
    <3>. QED
      BY <1>7, <1>8, <2>1, <3>4
  <2>3. TargetInv(t)'
    BY <1>4, <1>5, <1>7, <1>8, <2>1, <2>2, AnswerRead
  <2>. QED
    BY <1>11, <1>13, <2>3
<1>14. CASE x = t /\ TargetRemoved
  <2>1. Head(responses).kind = "Removed"
    BY <1>14 DEF TargetRemoved, Message
  <2>2. ~ Settled(t)'
    <3>. SUFFICES ASSUME Settled(t)' PROVE FALSE
      OBVIOUS
    <3>1. RequestsFor(requests, t) = {} /\ AnswersFor(responses', t) = {} /\ t \in DOMAIN listen
      BY <1>5 DEF Settled, Served
    <3>. QED
      BY <1>1, <1>4, <1>5, <1>14, <2>1, <3>1, LastAnswerRead DEF TargetInv, Watching
  <2>3. CASE s.outstanding = 0 /\ states' = Without(states, t)
    <3>1. State(t)' = [outstanding |-> 0, current |-> FALSE, next |-> keys[t]]
      BY <1>5, <2>3 DEF Without, State, views
    <3>2. State(t)'.outstanding = State(t).outstanding - 1 /\ ~ State(t)'.current
      <4>1. State(t)'.outstanding = 0 /\ ~ State(t)'.current
        BY <3>1
      <4>. QED
        BY <1>7, <2>3, <4>1, Zenon
    <3>3. ~ (open /\ t \in DOMAIN listen)
      <4>1. /\ Cardinality(AnswersFor(responses', t)) \in Nat
            /\ Cardinality(AnswersFor(responses, t)) = Cardinality(AnswersFor(responses', t)) + 1
        BY <1>1, <1>4, <1>5, <1>14, LastAnswerRead DEF TargetInv, Watching
      <4>2. /\ RequestsFor(requests, t) \in SUBSET (1..Len(requests)) /\ Len(requests) \in Nat
            /\ AnswersFor(responses', t) \in SUBSET (1..Len(responses')) /\ Len(responses') \in Nat
        BY <1>1, <1>4, LenProperties DEF TypeOK, RequestsFor, AnswersFor
      <4>3. /\ Cardinality(RequestsFor(requests, t)) \in Nat
            /\ IsFiniteSet(RequestsFor(requests, t)) /\ IsFiniteSet(AnswersFor(responses', t))
        BY <4>2, PlacesFinite
      <4>4. /\ State(t).outstanding = 1
            /\ State(t).outstanding =
                 Cardinality(RequestsFor(requests, t)) + Cardinality(AnswersFor(responses, t))
        BY <1>1, <1>6, <1>7, <1>14, <2>3 DEF TargetInv, Watching, AnswersCounted
      <4>5. Cardinality(RequestsFor(requests, t)) = 0 /\ Cardinality(AnswersFor(responses', t)) = 0
        BY <4>1, <4>3, <4>4
      <4>6. RequestsFor(requests, t) = {} /\ AnswersFor(responses', t) = {}
        BY <4>3, <4>5, FS_EmptySet
      <4>. QED
        BY <1>5, <2>2, <4>6 DEF Settled, Served
    <3>4. TargetInv(t)'
      BY <1>4, <1>5, <2>2, <3>2, <3>3, AnswerRead
    <3>. QED
      BY <1>11, <1>14, <3>4
  <2>4. CASE s.outstanding # 0 /\ states' = With(states, t, s)
    <3>1. t \in DOMAIN states' /\ State(t)' = s
      BY <2>4 DEF With, State
    <3>2. TargetInv(t)'
      BY <1>4, <1>5, <1>7, <2>2, <3>1, AnswerRead
    <3>. QED
      BY <1>11, <1>14, <3>2
  <2>. QED
    BY <1>9, <1>14, <2>1, <2>3, <2>4 DEF TargetAdded, Message
<1>. QED
  BY <1>9, <1>11, <1>12, <1>13, <1>14

\* What is read behind the first message.
LEMMA BehindHead ==
    ASSUME TypeOK, responses # <<>>, responses' = Tail(responses)
    PROVE  /\ Head(responses) = responses[1] /\ 1 \in 1..Len(responses)
           /\ \A i \in DOMAIN responses' :
                 /\ i + 1 \in 1 + 1..Len(responses) /\ i + 1 \in DOMAIN responses
                 /\ responses'[i] = responses[i + 1]
BY TailPlaces DEF TypeOK

\* Messages of a settled watch: all there are.
LEMMA AllOfThisWatch ==
    ASSUME WatchInv, responses # <<>>, NEW t \in Target, Settled(t)
    PROVE  /\ t \in DOMAIN server /\ InOrder(responses, t, server[t].current)
           /\ 1 \in OfThisWatch(responses, t)
<1>1. TypeOK /\ TargetInv(t) /\ responses \in Seq(Response)
  BY DEF WatchInv, TypeOK
<1>2. OfThisWatch(responses, t) = 1..Len(responses) /\ Len(responses) \in Nat \ {0}
  BY <1>1, ResponseRead, TailPlaces DEF Settled
<1>. QED
  BY <1>1, <1>2 DEF TargetInv, InServer, Settled

\* The target's state changes, or nothing does.
LEMMA MessageKeeps ==
    ASSUME WatchInv, NEW kind \in {"Current", "Document", "Filter"}, Message(kind),
           UNCHANGED <<external, open, requests, listen, stored, views, ghosts, counts>>,
           NEW t \in Target, t = Head(responses).target,
           NEW s \in TargetState,
           \/ states' = states /\ resets' = resets
           \/ /\ Settled(t) /\ states' = With(states, t, s)
              /\ resets' = resets \/ resets' = resets \cup {t},
           NEW x \in Target, x # t
    PROVE  TargetInv(x)'
<1>1. TypeOK
  BY DEF WatchInv
<1>2. /\ responses # <<>> /\ responses' = Tail(responses)
      /\ Head(responses).kind # "Snapshot"
  BY <1>1, MessageTaken
<1>3. /\ x \in DOMAIN states' <=> x \in DOMAIN states
      /\ x \in DOMAIN states => states'[x] = states[x]
      /\ x \in resets' <=> x \in resets
  BY DEF With
<1>. QED
  BY <1>2, <1>3, ReadElsewhere DEF external

\* ... and so do the types.
LEMMA MessageTypesKept ==
    ASSUME TypeOK, NEW kind, Message(kind),
           UNCHANGED <<external, open, requests, listen, stored, views, ghosts, counts>>,
           NEW t \in Target, NEW s \in TargetState,
           states' = states \/ states' = With(states, t, s),
           resets' = resets \/ resets' = resets \cup {t}
    PROVE  TypeOK'
<1>1. responses' \in Seq(Response)
  BY MessageTaken
<1>2. DOMAIN states' \subseteq Target /\ states' \in [DOMAIN states' -> TargetState]
  <2>1. CASE states' = states
    BY <2>1 DEF TypeOK
  <2>2. CASE states' = With(states, t, s)
    BY <2>2, StatesTypes
  <2>. QED
    BY <2>1, <2>2
<1>. QED
  BY <1>1, <1>2 DEF TypeOK, external, views, ghosts

\* CURRENT.
LEMMA CurrentKeeps ==
    ASSUME WatchInv, TargetCurrent, NEW x \in Target
    PROVE  TargetInv(x)' /\ TypeOK'
<1>1. TypeOK /\ TargetInv(x) /\ Closed
  BY DEF WatchInv
<1>2. PICK t \in Target : t = Head(responses).target
  BY <1>1, MessageTaken DEF TargetCurrent
<1>3. /\ responses # <<>> /\ responses' = Tail(responses) /\ Is(Head(responses), "Current", t)
      /\ ~ IsAnswer(Head(responses), t) /\ open
  BY <1>1, <1>2, MessageTaken DEF TargetCurrent, Is, IsAnswer, Closed
<1>4. State(t) \in TargetState
  BY <1>1, WatchTypes
<1>5. PICK s \in TargetState : /\ s = [State(t) EXCEPT !.current = TRUE]
                               /\ s.outstanding = State(t).outstanding
                               /\ s.next = State(t).next
  <2>1. PICK s : s = [State(t) EXCEPT !.current = TRUE]
    OBVIOUS
  <2>2. s \in TargetState /\ s.outstanding = State(t).outstanding /\ s.next = State(t).next
    BY <1>4, <2>1 DEF TargetState
  <2>. QED
    BY <2>1, <2>2, Zenon
<1>6. \/ ~ Settled(t) /\ states' = states
      \/ Settled(t) /\ states' = With(states, t, s)
  BY <1>2, <1>3, <1>5, ActiveIsSettled, Zenon DEF TargetCurrent
<1>7. UNCHANGED <<external, open, requests, listen, resets, stored, views, ghosts, counts>>
  BY DEF TargetCurrent
<1>8. TypeOK'
  BY <1>1, <1>6, <1>7, MessageTypesKept DEF TargetCurrent
<1>9. CASE x # t
  <2>1. TargetInv(x)'
    BY <1>2, <1>6, <1>7, <1>9, MessageKeeps DEF TargetCurrent
  <2>. QED
    BY <1>8, <2>1
<1>10. CASE x = t
  <2>1. /\ State(t)'.outstanding = State(t).outstanding /\ State(t)'.next = State(t).next
        /\ t \in DOMAIN states => t \in DOMAIN states'
        /\ ~ Settled(t) => State(t)'.current = State(t).current
    <3>1. CASE states' = states /\ ~ Settled(t)
      BY <1>7, <3>1 DEF State, views
    <3>2. CASE states' = With(states, t, s) /\ Settled(t)
      <4>1. State(t)' = s /\ t \in DOMAIN states'
        BY <3>2 DEF State, With
      <4>. QED
        BY <1>5, <3>2, <4>1
    <3>. QED
      BY <1>6, <3>1, <3>2
  <2>2. State(t).outstanding > 0 => ~ Settled(t)
    BY <1>3, ActiveIsSettled DEF Active
  <2>3. ASSUME Settled(t)
        PROVE  /\ server[t].current
               /\ \A i \in 1 + 1..Len(responses) :
                     responses[i].kind = "Snapshot" => responses[i].of[t].current
    BY <1>1, <1>3, <2>3, AllOfThisWatch, BehindHead DEF InOrder
  <2>4. ~ Broken(t)
    BY <1>1, <1>3, BehindHead DEF Broken
  <2>5. \A before, after : Tells(Head(responses), t, before, after) => after = before
    BY <1>3 DEF Tells, Is
  <2>6. TargetInv(t)'
    BY <1>1, <1>3, <1>7, <2>1, <2>2, <2>3, <2>4, <2>5, BehindHead, MessageRead DEF external
  <2>. QED
    BY <1>8, <1>10, <2>6
<1>. QED
  BY <1>9, <1>10

\* A document.
LEMMA DocumentKeeps ==
    ASSUME WatchInv, DocumentChange, NEW x \in Target
    PROVE  TargetInv(x)' /\ TypeOK'
<1>1. TypeOK /\ TargetInv(x) /\ Closed
  BY DEF WatchInv
<1>2. PICK t \in Target : t = Head(responses).target
  BY <1>1, MessageTaken DEF DocumentChange
<1>3. /\ responses # <<>> /\ responses' = Tail(responses) /\ Is(Head(responses), "Document", t)
      /\ ~ IsAnswer(Head(responses), t) /\ open /\ Head(responses).doc \in Doc
  BY <1>1, <1>2, MessageTaken, ResponseFacts DEF DocumentChange, Is, IsAnswer, Closed
<1>4. State(t) \in TargetState /\ State(t).next \in Docs
  BY <1>1, WatchTypes
<1>5. PICK next \in Docs :
         next = IF Head(responses).doc \in Head(responses).docs
                THEN State(t).next \cup {Head(responses).doc}
                ELSE State(t).next \ {Head(responses).doc}
  BY <1>3, <1>4 DEF Docs
<1>6. PICK s \in TargetState : /\ s = [State(t) EXCEPT !.next = next]
                               /\ s.outstanding = State(t).outstanding
                               /\ s.current = State(t).current /\ s.next = next
  <2>1. PICK s : s = [State(t) EXCEPT !.next = next]
    OBVIOUS
  <2>2. /\ s \in TargetState /\ s.outstanding = State(t).outstanding
        /\ s.current = State(t).current /\ s.next = next
    BY <1>4, <2>1 DEF TargetState
  <2>. QED
    BY <2>1, <2>2, Zenon
<1>7. \/ ~ Settled(t) /\ states' = states
      \/ Settled(t) /\ states' = With(states, t, s)
  BY <1>2, <1>3, <1>5, <1>6, ActiveIsSettled, Zenon DEF DocumentChange
<1>8. UNCHANGED <<external, open, requests, listen, resets, stored, views, ghosts, counts>>
  BY DEF DocumentChange
<1>9. TypeOK'
  BY <1>1, <1>7, <1>8, MessageTypesKept DEF DocumentChange
<1>10. CASE x # t
  <2>1. TargetInv(x)'
    BY <1>2, <1>7, <1>8, <1>10, MessageKeeps DEF DocumentChange
  <2>. QED
    BY <1>9, <2>1
<1>11. CASE x = t
  <2>1. /\ State(t)'.outstanding = State(t).outstanding
        /\ State(t)'.current = State(t).current
        /\ Settled(t) => State(t)'.next = next
        /\ t \in DOMAIN states => t \in DOMAIN states'
    <3>1. CASE states' = states /\ ~ Settled(t)
      BY <1>8, <3>1 DEF State, views
    <3>2. CASE states' = With(states, t, s) /\ Settled(t)
      <4>1. State(t)' = s /\ t \in DOMAIN states'
        BY <3>2 DEF State, With
      <4>. QED
        BY <1>6, <3>2, <4>1
    <3>. QED
      BY <1>7, <3>1, <3>2
  <2>2. Settled(t) /\ State(t)'.current /\ t \notin relisted =>
           /\ server[t].current
           /\ \A i \in DOMAIN responses' :
                 responses'[i].kind = "Snapshot" => responses'[i].of[t].current
    BY <1>1, <1>3, <1>11, <2>1, BehindHead DEF TargetInv, InServer
  <2>3. Broken(t) => Broken(t)'
    BY <1>1, <1>3, <1>8, <2>1, BehindHead DEF Broken, external
  <2>4. ASSUME NEW before, NEW after, Tells(Head(responses), t, before, after),
               before = State(t).next
        PROVE  after = next
    BY <1>3, <1>5, <2>4, Zenon DEF Tells
  <2>5. TargetInv(t)'
    BY <1>3, <1>8, <2>1, <2>2, <2>3, <2>4, MessageRead DEF external
  <2>. QED
    BY <1>9, <1>11, <2>5
<1>. QED
  BY <1>10, <1>11

\* The number of documents.
LEMMA FilterKeeps ==
    ASSUME WatchInv, ExistenceFilter, NEW x \in Target
    PROVE  TargetInv(x)' /\ TypeOK'
<1>1. TypeOK /\ TargetInv(x) /\ Closed
  BY DEF WatchInv
<1>2. PICK t \in Target : t = Head(responses).target
  BY <1>1, MessageTaken DEF ExistenceFilter
<1>3. /\ responses # <<>> /\ responses' = Tail(responses) /\ Is(Head(responses), "Filter", t)
      /\ ~ IsAnswer(Head(responses), t) /\ open /\ Head(responses).docs \in Docs
  BY <1>1, <1>2, MessageTaken, ResponseFacts DEF ExistenceFilter, Is, IsAnswer, Closed
<1>4. State(t) \in TargetState /\ State(t).next \in Docs /\ State(t).outstanding \in Nat
  BY <1>1, WatchTypes
<1>5. PICK s \in TargetState : /\ s = [outstanding |-> 0, current |-> FALSE, next |-> {}]
                               /\ s.outstanding = 0 /\ ~ s.current
  <2>1. PICK s : s = [outstanding |-> 0, current |-> FALSE, next |-> {}]
    OBVIOUS
  <2>2. s \in TargetState /\ s.outstanding = 0 /\ ~ s.current
    BY <2>1 DEF TargetState, Docs
  <2>. QED
    BY <2>1, <2>2, Zenon
<1>6. \/ /\ Settled(t) /\ Cardinality(State(t).next) # Cardinality(Head(responses).docs)
         /\ states' = With(states, t, s) /\ resets' = resets \cup {t}
      \/ /\ ~ Settled(t) \/ Cardinality(State(t).next) = Cardinality(Head(responses).docs)
         /\ states' = states /\ resets' = resets
  BY <1>2, <1>3, <1>5, ActiveIsSettled, Zenon DEF ExistenceFilter, aggregator
<1>7. UNCHANGED <<external, open, requests, listen, stored, views, ghosts, counts>>
  BY DEF ExistenceFilter
<1>8. TypeOK'
  BY <1>1, <1>6, <1>7, MessageTypesKept DEF ExistenceFilter
<1>9. CASE x # t
  <2>1. TargetInv(x)'
    BY <1>2, <1>6, <1>7, <1>9, MessageKeeps DEF ExistenceFilter
  <2>. QED
    BY <1>8, <2>1
<1>10. CASE x = t
  <2>1. CASE states' = states /\ resets' = resets
             /\ (~ Settled(t) \/ Cardinality(State(t).next) = Cardinality(Head(responses).docs))
    <3>1. State(t)' = State(t)
      BY <1>7, <2>1 DEF State, views
    <3>2. Settled(t) /\ State(t)'.current /\ t \notin relisted =>
             /\ server[t].current
             /\ \A i \in DOMAIN responses' :
                   responses'[i].kind = "Snapshot" => responses'[i].of[t].current
      BY <1>1, <1>3, <1>10, <3>1, BehindHead DEF TargetInv, InServer
    <3>3. Broken(t) => Broken(t)'
      BY <1>1, <1>3, <1>7, <2>1, <3>1, BehindHead DEF Broken, external
    <3>4. ASSUME NEW before, NEW after, Settled(t),
                 Tells(Head(responses), t, before, after), before = State(t).next
          PROVE  FALSE
      <4>1. before \in Docs /\ after \subseteq before /\ after # before
            /\ after = Head(responses).docs
        BY <1>3, <1>4, <3>4, Zenon DEF Tells
      <4>2. IsFiniteSet(before)
        BY <4>1, WatchAssumption, FS_Subset DEF Docs
      <4>3. Cardinality(before) # Cardinality(after)
        BY <4>1, <4>2, FS_Subset
      <4>. QED
        BY <2>1, <3>4, <4>1, <4>3
    <3>5. TargetInv(t)'
      BY <1>3, <1>7, <2>1, <3>1, <3>2, <3>3, <3>4, MessageRead DEF external
    <3>. QED
      BY <1>8, <1>10, <3>5
  <2>2. CASE Settled(t) /\ states' = With(states, t, s) /\ resets' = resets \cup {t}
    <3>1. State(t)' = s /\ t \in DOMAIN states'
      BY <2>2 DEF State, With
    <3>2. State(t).outstanding = 0
      BY <1>3, <2>2, ActiveIsSettled DEF Active
    <3>3. /\ server[t].current
          /\ \A i \in 1 + 1..Len(responses) : ~ Is(responses[i], "Current", t)
      BY <1>1, <1>3, <2>2, AllOfThisWatch, BehindHead DEF InOrder
    <3>4. Broken(t)'
      BY <1>1, <1>3, <1>5, <1>7, <2>2, <3>1, <3>3, BehindHead DEF Broken, external
    <3>5. TargetInv(t)'
      BY <1>3, <1>5, <1>7, <3>1, <3>2, <3>4, MessageRead DEF external
    <3>. QED
      BY <1>8, <1>10, <3>5
  <2>. QED
    BY <1>6, <2>1, <2>2
<1>. QED
  BY <1>9, <1>10

-----------------------------------------------------------------------------
(***************************************************************************)
(* Listeners and the stream.                                               *)
(***************************************************************************)

\* Nothing is asked for or answered in empty queues.
LEMMA EmptyQueues ==
    ASSUME NEW t \in Target
    PROVE  /\ RequestsFor(<<>>, t) = {} /\ AnswersFor(<<>>, t) = {}
           /\ Cardinality({}) = 0
           /\ t \notin DOMAIN <<>>
BY FS_EmptySet DEF RequestsFor, AnswersFor

\* The empty queue, and the function on no target.
LEMMA EmptyPartial ==
    ASSUME NEW S
    PROVE  /\ <<>> \in Seq(S) /\ <<>> \in Partial(S)
           /\ DOMAIN <<>> = {} /\ <<>> \in [DOMAIN <<>> -> S]
<1>1. <<>> \in Seq(S) /\ Len(<<>>) = 0
  BY EmptySeq
<1>2. <<>> \in [1..0 -> S] /\ DOMAIN <<>> = 1..0
  BY <1>1, LenProperties
<1>3. 1..0 = {}
  OBVIOUS
<1>. QED
  BY <1>1, <1>2, <1>3, PartialFacts

\* Nothing is counted where nothing is asked for.
LEMMA NothingCounted ==
    ASSUME NEW t \in Target, RequestsFor(requests', t) = {}, AnswersFor(responses', t) = {},
           State(t)'.outstanding = 0
    PROVE  AnswersCounted(t)' /\ LastRequest(t)' /\ LastAnswer(t)'
<1>1. Cardinality(RequestsFor(requests', t)) = 0 /\ Cardinality(AnswersFor(responses', t)) = 0
  BY FS_EmptySet
<1>2. 0 = 0 + 0
  OBVIOUS
<1>3. AnswersCounted(t)'
  BY <1>1, <1>2, Zenon DEF AnswersCounted
<1>. QED
  BY <1>3, Zenon DEF LastRequest, LastAnswer

\* While there is no stream.
LEMMA WhileClosed ==
    ASSUME WatchInv, ~ open, NEW t \in Target
    PROVE  /\ requests = <<>> /\ responses = <<>> /\ server = <<>> /\ resets = {}
           /\ RequestsFor(requests, t) = {} /\ AnswersFor(responses, t) = {}
           /\ t \notin DOMAIN states /\ State(t).outstanding = 0 /\ t \notin DOMAIN server
BY EmptyQueues DEF WatchInv, Closed, State

\* A listener is added: it is asked for from the stored token, if there is a
\* stream.
LEMMA ListenKeeps ==
    ASSUME WatchInv, NEW t \in Target, Listen(t), NEW x \in Target
    PROVE  TargetInv(x)' /\ TypeOK'
<1>1. TypeOK /\ TargetInv(x) /\ TargetInv(t)
  BY DEF WatchInv
<1>2. /\ stored[t] \in Token /\ Watch(t, stored[t]) \in Request
      /\ Pending(t, 1) \in TargetState
  BY <1>1, WatchTypes, PendingTypes DEF Watch, Request
<1>3. UNCHANGED <<external, server, open, responses, resets, stored, keys, current, leftover>>
  BY DEF Listen, external
<1>4. \/ /\ open /\ requests' = Append(requests, Watch(t, stored[t]))
         /\ states' = With(states, t, Pending(t, 1))
      \/ ~ open /\ requests' = requests /\ states' = states
  BY DEF Listen
<1>5. /\ t \notin DOMAIN listen /\ listen' = With(listen, t, stored[t])
      /\ at' = [at EXCEPT ![t] = {}]
      /\ relisted' = (relisted \ {t}) \cup (IF State(t).current THEN {t} ELSE {})
  BY DEF Listen
<1>6. /\ listen' \in Partial(Token) /\ DOMAIN listen' = DOMAIN listen \cup {t}
      /\ listen'[t] = stored[t] /\ \A y \in DOMAIN listen : listen'[y] = listen[y]
  <2>1. DOMAIN listen \subseteq Target /\ listen \in [DOMAIN listen -> Token]
    BY <1>1, PartialFacts DEF TypeOK
  <2>2. /\ DOMAIN listen' = DOMAIN listen \cup {t} /\ listen'[t] = stored[t]
        /\ \A y \in DOMAIN listen : listen'[y] = listen[y]
        /\ listen' = [y \in DOMAIN listen \cup {t} |-> listen'[y]]
    BY <1>5 DEF With
  <2>3. listen' \in [DOMAIN listen' -> Token]
    BY <1>2, <2>1, <2>2
  <2>. QED
    BY <2>1, <2>2, <2>3, PartialFacts
<1>7. TypeOK'
  <2>1. requests' \in Seq(Request)
    BY <1>1, <1>2, <1>4, AppendPlaces DEF TypeOK
  <2>2. DOMAIN states' \subseteq Target /\ states' \in [DOMAIN states' -> TargetState]
    <3>1. CASE states' = states
      BY <1>1, <3>1 DEF TypeOK
    <3>2. CASE states' = With(states, t, Pending(t, 1))
      BY <1>1, <1>2, <3>2, StatesTypes
    <3>. QED
      BY <1>4, <3>1, <3>2
  <2>3. at' \in [Target -> Token]
    BY <1>1, <1>5, TokenFacts DEF TypeOK
  <2>4. relisted' \subseteq Target
    BY <1>1, <1>5 DEF TypeOK
  <2>. QED
    BY <1>1, <1>3, <1>6, <2>1, <2>2, <2>3, <2>4 DEF TypeOK, external
<1>8. CASE x # t
  <2>1. NoRequest(x)
    <3>1. LastRequest(x)
      BY <1>1 DEF TargetInv, Watching
    <3>2. CASE requests' = requests
      BY <1>3, <1>6, <1>8, <3>1, <3>2 DEF NoRequest, LastRequest
    <3>3. CASE requests' = Append(requests, Watch(t, stored[t]))
      <4>1. Watch(t, stored[t]).target # x
        BY <1>8 DEF Watch
      <4>. QED
        BY <1>1, <1>2, <1>3, <1>6, <1>8, <3>1, <3>3, <4>1, RequestElsewhere
    <3>. QED
      BY <1>4, <3>2, <3>3
  <2>2. /\ x \in DOMAIN states' <=> x \in DOMAIN states
        /\ x \in DOMAIN states => states'[x] = states[x]
    BY <1>4, <1>8 DEF With
  <2>3. State(x)' = State(x)
    BY <1>3, <2>2 DEF State
  <2>4. at'[x] = at[x]
    BY <1>1, <1>5, <1>8 DEF TypeOK
  <2>5. Quiet(x)
    BY <1>3, <1>5, <1>6, <1>8, <2>2, <2>3, <2>4 DEF Quiet
  <2>6. TargetInv(x)'
    BY <1>3, <2>1, <2>5, Elsewhere
  <2>. QED
    BY <1>7, <2>6
<1>9. CASE x = t
  <2>1. ~ Served(t)' /\ ~ Settled(t)'
    <3>1. CASE ~ open
      BY <1>3, <3>1 DEF Served, Settled
    <3>2. CASE requests' = Append(requests, Watch(t, stored[t]))
      <4>1. Watch(t, stored[t]).target = t
        BY DEF Watch
      <4>. QED
        BY <1>1, <1>2, <3>2, <4>1, RequestSent DEF Served, Settled
    <3>. QED
      BY <1>4, <3>1, <3>2
  <2>2. /\ State(t)'.current = State(t).current
        /\ open => t \in DOMAIN states' /\ State(t)'.outstanding = State(t).outstanding + 1
        /\ ~ open => State(t)'.outstanding = State(t).outstanding
    <3>1. CASE states' = states /\ ~ open
      <4>1. State(t)' = State(t)
        BY <1>3, <3>1 DEF State
      <4>. QED
        BY <3>1, <4>1
    <3>2. CASE states' = With(states, t, Pending(t, 1)) /\ open
      <4>1. State(t)' = Pending(t, 1) /\ t \in DOMAIN states'
        BY <3>2 DEF State, With
      <4>. QED
        BY <1>1, <3>2, <4>1, PendingTypes
    <3>. QED
      BY <1>4, <3>1, <3>2
  <2>3. AnswersCounted(t)' /\ LastRequest(t)' /\ LastAnswer(t)'
    <3>1. CASE ~ open
      BY <1>1, <1>3, <1>4, <2>2, <3>1, WhileClosed
         DEF TargetInv, Watching, AnswersCounted, LastRequest, LastAnswer
    <3>2. CASE open
      <4>1. requests' = Append(requests, Watch(t, stored[t])) /\ Watch(t, stored[t]).target = t
            /\ Watch(t, stored[t]).op = "Watch" /\ Watch(t, stored[t]).token = stored[t]
        BY <1>4, <3>2 DEF Watch
      <4>2. /\ RequestsFor(requests', t) # {}
            /\ Cardinality(RequestsFor(requests, t)) \in Nat
            /\ Cardinality(RequestsFor(requests', t)) = Cardinality(RequestsFor(requests, t)) + 1
            /\ \A i \in RequestsFor(requests', t) :
                  (\A j \in RequestsFor(requests', t) : j <= i) =>
                      requests'[i] = Watch(t, stored[t])
        BY <1>1, <1>2, <4>1, RequestSent
      <4>3. AnswersCounted(t)'
        <5>1. AnswersFor(responses, t) \in SUBSET (1..Len(responses)) /\ Len(responses) \in Nat
          BY <1>1, LenProperties DEF TypeOK, AnswersFor
        <5>2. Cardinality(AnswersFor(responses, t)) \in Nat
          BY <5>1, PlacesFinite
        <5>. QED
          BY <1>1, <1>3, <2>2, <3>2, <4>2, <5>2 DEF TargetInv, Watching, AnswersCounted
      <4>4. LastRequest(t)'
        <5>1. t \notin leftover => UNION stored[t] = keys[t]
          BY <1>1 DEF TargetInv, InCache
        <5>. QED
          BY <1>3, <1>6, <4>1, <4>2, <5>1 DEF LastRequest
      <4>. QED
        BY <4>2, <4>3, <4>4 DEF LastAnswer
    <3>. QED
      BY <3>1, <3>2
  <2>4. Watching(t)'
    <3>1. State(t).current => t \in relisted'
      BY <1>5
    <3>. QED
      BY <1>3, <2>2, <2>3, <3>1 DEF Watching
  <2>5. InServer(t)' /\ Following(t)'
    BY <1>1, <1>3, <2>1 DEF TargetInv, InServer, Following
  <2>6. InCache(t)'
    <3>1. at'[t] = {} /\ t \notin current
      BY <1>1, <1>5 DEF TypeOK
    <3>. QED
      BY <1>1, <1>3, <1>6, <3>1 DEF TargetInv, InCache
  <2>. QED
    BY <1>7, <1>9, <2>4, <2>5, <2>6 DEF TargetInv
<1>. QED
  BY <1>8, <1>9

\* A listener is removed: the server is told, if there is a stream.
LEMMA StopListeningKeeps ==
    ASSUME WatchInv, NEW t \in Target, StopListening(t), NEW x \in Target
    PROVE  TargetInv(x)' /\ TypeOK'
<1>1. TypeOK /\ TargetInv(x) /\ TargetInv(t)
  BY DEF WatchInv
<1>2. /\ Unwatch(t) \in Request /\ Unwatch(t).target = t /\ Unwatch(t).op = "Unwatch"
      /\ Pending(t, 1) \in TargetState
  BY <1>1, TokenFacts, PendingTypes DEF Unwatch, Request
<1>3. /\ UNCHANGED <<external, server, open, responses, resets, stored, keys, at, ghosts>>
      /\ relisted' = relisted /\ leftover' = leftover
  BY DEF StopListening, external, ghosts
<1>4. \/ /\ open /\ requests' = Append(requests, Unwatch(t))
         /\ states' = With(states, t, Pending(t, 1))
      \/ ~ open /\ requests' = requests /\ states' = states
  BY DEF StopListening, SendUnwatch
<1>5. t \in DOMAIN listen /\ listen' = Without(listen, t) /\ current' = current \ {t}
  BY DEF StopListening
<1>6. /\ listen' \in Partial(Token) /\ DOMAIN listen' = DOMAIN listen \ {t}
      /\ \A y \in DOMAIN listen \ {t} : listen'[y] = listen[y]
  <2>1. DOMAIN listen \subseteq Target /\ listen \in [DOMAIN listen -> Token]
    BY <1>1, PartialFacts DEF TypeOK
  <2>2. /\ DOMAIN listen' = DOMAIN listen \ {t}
        /\ \A y \in DOMAIN listen \ {t} : listen'[y] = listen[y]
        /\ listen' = [y \in DOMAIN listen \ {t} |-> listen'[y]]
    BY <1>5 DEF Without
  <2>3. listen' \in [DOMAIN listen' -> Token]
    BY <2>1, <2>2
  <2>. QED
    BY <2>1, <2>2, <2>3, PartialFacts
<1>7. TypeOK'
  <2>1. requests' \in Seq(Request)
    <3>1. requests \in Seq(Request)
      BY <1>1 DEF TypeOK
    <3>2. Append(requests, Unwatch(t)) \in Seq(Request)
      BY <1>2, <3>1, AppendProperties
    <3>. QED
      BY <1>4, <3>1, <3>2, Zenon
  <2>2. DOMAIN states' \subseteq Target /\ states' \in [DOMAIN states' -> TargetState]
    <3>1. CASE states' = states
      BY <1>1, <3>1 DEF TypeOK
    <3>2. CASE states' = With(states, t, Pending(t, 1))
      BY <1>1, <1>2, <3>2, StatesTypes
    <3>. QED
      BY <1>4, <3>1, <3>2
  <2>3. current' \subseteq DOMAIN listen'
    BY <1>1, <1>5, <1>6 DEF TypeOK
  <2>. QED
    BY <1>1, <1>3, <1>6, <2>1, <2>2, <2>3 DEF TypeOK, external
<1>8. CASE x # t
  <2>1. NoRequest(x)
    <3>1. LastRequest(x)
      BY <1>1 DEF TargetInv, Watching
    <3>2. CASE requests' = requests
      BY <1>3, <1>6, <1>8, <3>1, <3>2 DEF NoRequest, LastRequest
    <3>3. CASE requests' = Append(requests, Unwatch(t))
      BY <1>1, <1>2, <1>3, <1>6, <1>8, <3>1, <3>3, RequestElsewhere
    <3>. QED
      BY <1>4, <3>2, <3>3
  <2>2. /\ x \in DOMAIN states' <=> x \in DOMAIN states
        /\ x \in DOMAIN states => states'[x] = states[x]
    BY <1>4, <1>8 DEF With
  <2>3. State(x)' = State(x)
    BY <1>3, <2>2 DEF State
  <2>4. Quiet(x)
    BY <1>3, <1>5, <1>6, <1>8, <2>2, <2>3 DEF Quiet
  <2>5. TargetInv(x)'
    BY <1>3, <2>1, <2>4, Elsewhere
  <2>. QED
    BY <1>7, <2>5
<1>9. CASE x = t
  <2>1. t \notin DOMAIN listen' /\ ~ Served(t)' /\ ~ Settled(t)'
    BY <1>6 DEF Served, Settled
  <2>2. /\ open => State(t)'.outstanding = State(t).outstanding + 1
        /\ ~ open => State(t)'.outstanding = State(t).outstanding
    <3>1. CASE states' = states /\ ~ open
      <4>1. State(t)' = State(t)
        BY <1>3, <3>1 DEF State
      <4>. QED
        BY <3>1, <4>1
    <3>2. CASE states' = With(states, t, Pending(t, 1)) /\ open
      <4>1. State(t)' = Pending(t, 1)
        BY <3>2 DEF State, With
      <4>. QED
        BY <1>1, <3>2, <4>1, PendingTypes
    <3>. QED
      BY <1>4, <3>1, <3>2
  <2>3. AnswersCounted(t)' /\ LastRequest(t)' /\ LastAnswer(t)'
    <3>1. CASE ~ open
      BY <1>1, <1>3, <1>4, <2>2, <3>1, WhileClosed
         DEF TargetInv, Watching, AnswersCounted, LastRequest, LastAnswer
    <3>2. CASE open
      <4>1. /\ RequestsFor(requests', t) # {}
            /\ Cardinality(RequestsFor(requests, t)) \in Nat
            /\ Cardinality(RequestsFor(requests', t)) = Cardinality(RequestsFor(requests, t)) + 1
            /\ \A i \in RequestsFor(requests', t) :
                  (\A j \in RequestsFor(requests', t) : j <= i) => requests'[i] = Unwatch(t)
        BY <1>1, <1>2, <1>4, <3>2, RequestSent
      <4>2. AnswersCounted(t)'
        <5>1. AnswersFor(responses, t) \in SUBSET (1..Len(responses)) /\ Len(responses) \in Nat
          BY <1>1, LenProperties DEF TypeOK, AnswersFor
        <5>2. Cardinality(AnswersFor(responses, t)) \in Nat
          BY <5>1, PlacesFinite
        <5>. QED
          BY <1>1, <1>3, <2>2, <3>2, <4>1, <5>2 DEF TargetInv, Watching, AnswersCounted
      <4>3. LastRequest(t)'
        BY <1>2, <2>1, <4>1 DEF LastRequest
      <4>. QED
        BY <4>1, <4>2, <4>3 DEF LastAnswer
    <3>. QED
      BY <3>1, <3>2
  <2>4. Watching(t)'
    BY <2>1, <2>3 DEF Watching
  <2>5. InServer(t)' /\ Following(t)'
    BY <1>1, <1>3, <2>1 DEF TargetInv, InServer, Following
  <2>6. InCache(t)'
    BY <1>1, <1>3, <1>5, <2>1 DEF TargetInv, InCache
  <2>. QED
    BY <1>7, <1>9, <2>4, <2>5, <2>6 DEF TargetInv
<1>. QED
  BY <1>8, <1>9

\* Nothing is left of a stream that is lost.
LEMMA CloseTypes ==
    ASSUME TypeOK, OnWatchStreamClose
    PROVE  TypeOK' /\ Closed'
<1>1. /\ requests' = <<>> /\ responses' = <<>> /\ states' = <<>> /\ resets' = {}
      /\ server' = <<>> /\ ~ open' /\ open' \in BOOLEAN /\ news' = FALSE
      /\ UNCHANGED <<results, listen, stored, views, ghosts>>
  BY DEF OnWatchStreamClose
<1>2. requests' \in Seq(Request) /\ responses' \in Seq(Response)
  BY <1>1, EmptyPartial
<1>3. server' \in Partial(Sent)
  BY <1>1, EmptyPartial
<1>4. DOMAIN states' \subseteq Target /\ states' \in [DOMAIN states' -> TargetState]
  BY <1>1, EmptyPartial
<1>5. TypeOK'
  BY <1>1, <1>2, <1>3, <1>4 DEF TypeOK, views, ghosts
<1>. QED
  BY <1>1, <1>5 DEF Closed

\* The stream is lost.
LEMMA CloseKeeps ==
    ASSUME WatchInv, OnWatchStreamClose, NEW t \in Target
    PROVE  TargetInv(t)' /\ TypeOK' /\ Closed'
<1>1. TypeOK /\ TargetInv(t)
  BY DEF WatchInv
<1>2. /\ requests' = <<>> /\ responses' = <<>> /\ states' = <<>> /\ resets' = {}
      /\ server' = <<>> /\ ~ open' /\ open' \in BOOLEAN /\ news' = FALSE
      /\ UNCHANGED <<results, listen, stored, views, ghosts>>
  BY DEF OnWatchStreamClose
<1>3. Closed'
  BY <1>2 DEF Closed
<1>4. /\ RequestsFor(requests', t) = {} /\ AnswersFor(responses', t) = {}
      /\ t \notin DOMAIN states' /\ t \notin DOMAIN server'
      /\ State(t)'.outstanding = 0
  BY <1>2, EmptyQueues DEF State
<1>5. ~ Served(t)' /\ ~ Settled(t)'
  BY <1>2 DEF Served, Settled
<1>6. Watching(t)'
  <2>1. ~ (State(t)'.outstanding > 0)
    BY <1>4
  <2>2. AnswersCounted(t)' /\ LastRequest(t)' /\ LastAnswer(t)'
    BY <1>4, NothingCounted
  <2>. QED
    BY <1>2, <2>1, <2>2, Zenon DEF Watching
<1>7. InServer(t)' /\ Following(t)'
  BY <1>4, <1>5 DEF InServer, Following
<1>8. InCache(t)'
  BY <1>1, <1>2 DEF TargetInv, InCache, views, ghosts
<1>9. TypeOK'
  BY <1>1, CloseTypes
<1>. QED
  BY <1>3, <1>6, <1>7, <1>8, <1>9 DEF TargetInv

\* The stream is opened: all that is listened to is asked for once.
LEMMA OpenKeeps ==
    ASSUME WatchInv, OnWatchStreamOpen, NEW t \in Target
    PROVE  TargetInv(t)' /\ TypeOK'
<1>1. TypeOK /\ TargetInv(t) /\ IsFiniteSet(DOMAIN listen)
  BY DEF WatchInv
<1>2. /\ ~ open /\ responses = <<>> /\ server = <<>> /\ t \notin DOMAIN server
      /\ AnswersFor(responses, t) = {}
  BY WhileClosed DEF OnWatchStreamOpen
<1>3. /\ open' /\ resets' = {} /\ open' \in BOOLEAN
      /\ UNCHANGED <<results, server, news, responses, listen, stored, views, ghosts>>
  BY DEF OnWatchStreamOpen, external
<1>4. states' = [y \in DOMAIN listen |->
                    [outstanding |-> 1, current |-> FALSE, next |-> keys[y]]]
  BY DEF OnWatchStreamOpen
<1>5. DOMAIN listen \subseteq Target /\ listen \in [DOMAIN listen -> Token]
  BY <1>1, PartialFacts DEF TypeOK
<1>6. PICK all : all = SetToSeq(DOMAIN listen)
  OBVIOUS
<1>7. /\ Len(all) \in Nat /\ all \in [1..Len(all) -> DOMAIN listen]
      /\ DOMAIN all = 1..Len(all)
      /\ \A y \in DOMAIN listen : \E k \in 1..Len(all) : all[k] = y
      /\ \A j, k \in 1..Len(all) : all[j] = all[k] => j = k
  <2>1. Lists(all, DOMAIN listen)
    BY <1>1, <1>6, Listed, Zenon
  <2>. QED
    BY <2>1 DEF Lists
<1>8. requests' = [i \in 1..Len(all) |-> Watch(all[i], listen[all[i]])]
  BY <1>6, <1>7, Zenon DEF OnWatchStreamOpen
<1>9. \A i \in 1..Len(all) :
         /\ requests'[i] \in Request /\ requests'[i].target = all[i]
         /\ requests'[i].op = "Watch" /\ requests'[i].token = listen[all[i]]
  BY <1>5, <1>7, <1>8 DEF Watch, Request
<1>10. /\ requests' \in Seq(Request) /\ DOMAIN requests' = 1..Len(all)
  <2>1. requests' \in [1..Len(all) -> Request]
    BY <1>8, <1>9
  <2>. QED
    BY <1>7, <2>1, SeqOfFunction
<1>11. \A y \in DOMAIN listen :
          [outstanding |-> 1, current |-> FALSE, next |-> keys[y]] \in TargetState
  BY <1>1, <1>5 DEF TypeOK, TargetState
<1>12. TypeOK'
  <2>1. DOMAIN states' \subseteq Target /\ states' \in [DOMAIN states' -> TargetState]
    BY <1>4, <1>5, <1>11
  <2>. QED
    BY <1>1, <1>3, <1>10, <2>1 DEF TypeOK, views, ghosts
<1>13. ~ Settled(t)' /\ ~ Served(t)'
  BY <1>3, <1>7, <1>9, <1>10 DEF Settled, Served, RequestsFor
<1>14. Watching(t)'
  <2>1. CASE t \in DOMAIN listen
    <3>1. PICK k \in 1..Len(all) : all[k] = t
      BY <1>7, <2>1
    <3>2. RequestsFor(requests', t) = {k}
      BY <1>7, <1>9, <1>10, <3>1 DEF RequestsFor
    <3>3. Cardinality(RequestsFor(requests', t)) = 1
      BY <3>2, FS_Singleton
    <3>4. /\ t \in DOMAIN states' /\ State(t)'.outstanding = 1 /\ ~ State(t)'.current
      BY <1>4, <2>1 DEF State
    <3>5. AnswersCounted(t)'
      <4>1. AnswersFor(responses', t) = {}
        BY <1>2, <1>3, Zenon
      <4>2. Cardinality(AnswersFor(responses', t)) = 0
        BY <4>1, FS_EmptySet, Zenon
      <4>3. 1 = 1 + 0
        OBVIOUS
      <4>. QED
        BY <3>3, <3>4, <4>2, <4>3, Zenon DEF AnswersCounted
    <3>6. LastRequest(t)'
      <4>1. t \notin leftover => UNION listen[t] = keys[t]
        BY <1>1, <2>1 DEF TargetInv, InCache
      <4>. QED
        BY <1>3, <1>9, <2>1, <3>1, <3>2, <4>1 DEF LastRequest, views, ghosts
    <3>. QED
      BY <1>2, <1>3, <3>4, <3>5, <3>6 DEF Watching, LastAnswer
  <2>2. CASE t \notin DOMAIN listen
    <3>1. RequestsFor(requests', t) = {}
      BY <1>7, <1>9, <1>10, <2>2 DEF RequestsFor
    <3>2. State(t)'.outstanding = 0
      BY <1>4, <2>2 DEF State
    <3>3. AnswersCounted(t)' /\ LastRequest(t)' /\ LastAnswer(t)'
      BY <1>2, <1>3, <3>1, <3>2, NothingCounted
    <3>. QED
      BY <1>3, <2>2, <3>3 DEF Watching
  <2>. QED
    BY <2>1, <2>2
<1>15. InServer(t)' /\ Following(t)'
  BY <1>2, <1>3, <1>13 DEF InServer, Following
<1>16. InCache(t)'
  BY <1>1, <1>3 DEF TargetInv, InCache, views, ghosts
<1>. QED
  BY <1>12, <1>14, <1>15, <1>16 DEF TargetInv

-----------------------------------------------------------------------------
(***************************************************************************)
(* A snapshot.                                                             *)
(***************************************************************************)

\* The requests of a snapshot.
LEMMA SnapshotAsks ==
    ASSUME TypeOK, IsFiniteSet(DOMAIN listen), Snapshot
    PROVE  /\ requests' \in Seq(Request)
           /\ \A t \in Target \ Again :
                 /\ RequestsFor(requests', t) = RequestsFor(requests, t)
                 /\ \A i \in RequestsFor(requests, t) : requests'[i] = requests[i]
           /\ \A t \in Again :
                 /\ RequestsFor(requests', t) # {}
                 /\ Cardinality(RequestsFor(requests, t)) \in Nat
                 /\ Cardinality(RequestsFor(requests', t)) =
                       Cardinality(RequestsFor(requests, t)) + 2
                 /\ \A i \in RequestsFor(requests', t) :
                       (\A j \in RequestsFor(requests', t) : j <= i) =>
                          requests'[i] = Watch(t, {})
<1>1. PICK again : again = SetToSeq(Again)
  OBVIOUS
<1>2. IsFiniteSet(Again) /\ Again \subseteq Target
  <2>1. Again \in SUBSET DOMAIN listen
    BY DEF Again
  <2>2. DOMAIN listen \subseteq Target
    BY PartialFacts DEF TypeOK
  <2>. QED
    BY <2>1, <2>2, FS_Subset
<1>3. /\ again \in Seq(Again) /\ again \in [1..Len(again) -> Again] /\ Len(again) \in Nat
      /\ \A x \in Again : \E k \in 1..Len(again) : again[k] = x
      /\ \A j, k \in 1..Len(again) : again[j] = again[k] => j = k
  <2>1. Lists(again, Again)
    BY <1>1, <1>2, Listed, Zenon
  <2>. QED
    BY <2>1 DEF Lists
<1>4. again \in Seq(Target)
  BY <1>2, <1>3
<1>5. PICK two : two = [i \in 1..2 * Len(again) |->
                  IF i % 2 = 1 THEN Unwatch(again[(i + 1) \div 2])
                  ELSE Watch(again[i \div 2], {})]
  OBVIOUS
<1>6. requests' = requests \o two
  BY <1>1, <1>5, Zenon DEF Snapshot
<1>7. /\ two \in Seq(Request) /\ Len(two) = 2 * Len(again)
      /\ \A k \in 1..Len(again) :
            two[2 * k - 1].target = again[k] /\ two[2 * k] = Watch(again[k], {})
  BY <1>4, <1>5, TwoForEach, Zenon
<1>8. requests \in Seq(Request)
  BY DEF TypeOK
<1>9. requests' \in Seq(Request) /\ TwoMore(requests, requests', again)
  <2>1. \A j, k \in 1..Len(again) : again[j] = again[k] => j = k
    BY <1>3
  <2>2. /\ Len(two) = 2 * Len(again)
        /\ \A k \in 1..Len(again) :
              two[2 * k - 1].target = again[k] /\ two[2 * k] = Watch(again[k], {})
    BY <1>7
  <2>3. again \in Seq(Target) /\ two \in Seq(Request) /\ requests \in Seq(Request)
    BY <1>4, <1>7, <1>8
  <2>. QED
    BY <1>6, <2>1, <2>2, <2>3, TwoSent, Zenon
<1>10. ASSUME NEW t \in Target \ Again
       PROVE  /\ RequestsFor(requests', t) = RequestsFor(requests, t)
              /\ \A i \in RequestsFor(requests, t) : requests'[i] = requests[i]
  <2>1. \A k \in 1..Len(again) : again[k] # t
    BY <1>3
  <2>. QED
    BY <1>9, <2>1, Zenon DEF TwoMore
<1>11. ASSUME NEW t \in Again
       PROVE  /\ RequestsFor(requests', t) # {}
              /\ Cardinality(RequestsFor(requests, t)) \in Nat
              /\ Cardinality(RequestsFor(requests', t)) =
                    Cardinality(RequestsFor(requests, t)) + 2
              /\ \A i \in RequestsFor(requests', t) :
                    (\A j \in RequestsFor(requests', t) : j <= i) =>
                       requests'[i] = Watch(t, {})
  <2>1. PICK k \in 1..Len(again) : again[k] = t
    BY <1>3
  <2>. QED
    BY <1>9, <2>1, Zenon DEF TwoMore
<1>. QED
  BY <1>9, <1>10, <1>11

\* What a snapshot does of one target.
LEMMA SnapshotOf ==
    ASSUME WatchInv, Snapshot, NEW m, m = Head(responses), NEW t \in Target
    PROVE  /\ m \in Response /\ m.kind = "Snapshot" /\ m.of \in Partial(Sent)
           /\ open /\ responses # <<>> /\ responses' = Tail(responses)
           /\ ~ IsAnswer(m, t)
           /\ t \in Changed <=> Settled(t)
           /\ DOMAIN listen' = DOMAIN listen
           /\ t \in Again <=> t \in resets /\ t \in DOMAIN listen
           /\ t \in DOMAIN listen => listen'[t] =
                 IF t \in Again THEN {} ELSE IF t \in Changed THEN TokenOf(m, t) ELSE listen[t]
           /\ stored'[t] = IF t \notin Changed THEN stored[t]
                           ELSE IF t \in resets THEN {} ELSE TokenOf(m, t)
           /\ at'[t] = IF t \notin Changed THEN at[t]
                       ELSE IF /\ t \in DOMAIN m.of /\ m.of[t].current
                               /\ t \in resets => State(t).current
                            THEN {m.of[t].sent} ELSE {}
           /\ DOMAIN states' = DOMAIN states
           /\ t \in Again => State(t)' = Pending(t, 2)
           /\ t \notin Again /\ t \in DOMAIN states => State(t)' = State(t)
           /\ t \in Changed => t \in DOMAIN states /\ keys'[t] = State(t).next
           /\ t \notin Changed => keys'[t] = keys[t]
           /\ t \in Changed => (t \in current' <=> State(t).current)
           /\ t \notin Changed => (t \in current' <=> t \in current)
           /\ t \in leftover' <=>
                 t \in leftover \/ (t \in resets /\ (t \notin Changed \/ State(t).next # {}))
           /\ t \in relisted' <=> t \in relisted \/ (t \in Again /\ State(t).current)
           /\ UNCHANGED <<server, open>> /\ resets' = {}
<1>1. TypeOK /\ TargetInv(t) /\ Closed
  BY DEF WatchInv
<1>2. /\ m \in Response /\ m.kind = "Snapshot" /\ m.of \in Partial(Sent)
      /\ responses # <<>> /\ responses' = Tail(responses) /\ open
      /\ ~ IsAnswer(m, t)
  BY <1>1, MessageTaken, ResponseFacts DEF Snapshot, Closed, IsAnswer
<1>3. t \in Changed <=> Settled(t)
  <2>1. open /\ t \in DOMAIN listen => t \in DOMAIN states
    BY <1>1 DEF TargetInv, Watching
  <2>2. Active(t) <=> Settled(t)
    BY <1>2, ActiveIsSettled
  <2>. QED
    BY <1>2, <2>1, <2>2 DEF Changed, Active
<1>4. /\ DOMAIN listen' = DOMAIN listen
      /\ t \in Again <=> t \in resets /\ t \in DOMAIN listen
      /\ t \in DOMAIN listen => listen'[t] =
            IF t \in Again THEN {} ELSE IF t \in Changed THEN TokenOf(m, t) ELSE listen[t]
  BY DEF Snapshot, Again
<1>5. t \in Changed => t \in DOMAIN states /\ states[t] = State(t)
  BY DEF Changed, State
<1>6. stored'[t] = IF t \notin Changed THEN stored[t]
                   ELSE IF t \in resets THEN {} ELSE TokenOf(m, t)
  BY DEF Snapshot
<1>7. at'[t] = IF t \notin Changed THEN at[t]
               ELSE IF /\ t \in DOMAIN m.of /\ m.of[t].current
                       /\ t \in resets => states[t].current
                    THEN {m.of[t].sent} ELSE {}
  BY DEF Snapshot
<1>8. /\ DOMAIN states' = DOMAIN states
      /\ t \in DOMAIN states => states'[t] = IF t \in Again THEN Pending(t, 2) ELSE states[t]
      /\ keys'[t] = IF t \in Changed THEN states[t].next ELSE keys[t]
      /\ UNCHANGED <<server, open>> /\ resets' = {}
  BY DEF Snapshot, external
<1>9. /\ t \in Changed => (t \in current' <=> states[t].current)
      /\ t \notin Changed => (t \in current' <=> t \in current)
  BY DEF Snapshot, CurrentAfter
<1>10. /\ t \in leftover' <=>
             t \in leftover \/ (t \in resets /\ (t \notin Changed \/ states[t].next # {}))
       /\ t \in relisted' <=> t \in relisted \/ (t \in Again /\ State(t).current)
  BY DEF Snapshot
<1>11. t \in Again => t \in DOMAIN states
  BY <1>1, <1>2, <1>4 DEF TargetInv, Watching
<1>12. /\ t \in Again => State(t)' = Pending(t, 2)
       /\ t \notin Again /\ t \in DOMAIN states => State(t)' = State(t)
  BY <1>8, <1>11 DEF State
<1>13. at'[t] = IF t \notin Changed THEN at[t]
                ELSE IF /\ t \in DOMAIN m.of /\ m.of[t].current
                        /\ t \in resets => State(t).current
                     THEN {m.of[t].sent} ELSE {}
  BY <1>5, <1>7, Zenon
<1>14. /\ t \in Changed => t \in DOMAIN states /\ keys'[t] = State(t).next
       /\ t \notin Changed => keys'[t] = keys[t]
  BY <1>5, <1>8
<1>15. /\ t \in Changed => (t \in current' <=> State(t).current)
       /\ t \in leftover' <=>
             t \in leftover \/ (t \in resets /\ (t \notin Changed \/ State(t).next # {}))
  BY <1>5, <1>9, <1>10, Zenon
<1>. QED
  BY <1>2, <1>3, <1>4, <1>6, <1>8, <1>9, <1>10, <1>12, <1>13, <1>14, <1>15, Zenon

\* With no answer on its way the trace has no base.
LEMMA AnyBase ==
    ASSUME NEW rs, NEW t, NEW base, NEW other, NEW sent, NEW f,
           Traced(rs, t, base, sent, f), AnswersFor(rs, t) = {}
    PROVE  Traced(rs, t, other, sent, f)
BY DEF Traced

\* A snapshot that does not tell about t.
LEMMA SnapshotPasses ==
    ASSUME WatchInv, Snapshot, NEW t \in Target, t \notin Changed, t \notin Again
    PROVE  TargetInv(t)'
<1>1. TypeOK /\ TargetInv(t) /\ responses \in Seq(Response) /\ IsFiniteSet(DOMAIN listen)
  BY DEF WatchInv, TypeOK
<1>2. PICK m : m = Head(responses)
  OBVIOUS
<1>3. /\ open /\ responses # <<>> /\ responses' = Tail(responses) /\ ~ IsAnswer(m, t)
      /\ ~ Settled(t) /\ DOMAIN listen' = DOMAIN listen
      /\ t \in DOMAIN listen => listen'[t] = listen[t]
      /\ stored'[t] = stored[t] /\ at'[t] = at[t] /\ keys'[t] = keys[t]
      /\ DOMAIN states' = DOMAIN states
      /\ t \in DOMAIN states => State(t)' = State(t)
      /\ t \in current' <=> t \in current
      /\ t \in leftover => t \in leftover'
      /\ t \in relisted' <=> t \in relisted
      /\ UNCHANGED <<server, open>>
  BY <1>2, SnapshotOf, Zenon
<1>4. State(t)'.outstanding = State(t).outstanding /\ State(t)'.current = State(t).current
  <2>1. CASE t \in DOMAIN states
    BY <1>3, <2>1
  <2>2. CASE t \notin DOMAIN states
    BY <1>3, <2>2 DEF State
  <2>. QED
    BY <2>1, <2>2
<1>5. /\ RequestsFor(requests', t) = RequestsFor(requests, t)
      /\ \A i \in RequestsFor(requests, t) : requests'[i] = requests[i]
  BY <1>1, SnapshotAsks
<1>6. /\ Cardinality(AnswersFor(responses', t)) = Cardinality(AnswersFor(responses, t))
      /\ AnswersFor(responses', t) = {} <=> AnswersFor(responses, t) = {}
      /\ AnswersFor(responses', t) =
            {i \in 1..(Len(responses) - 1) : i + 1 \in AnswersFor(responses, t)}
  <2>1. /\ AnswersFor(responses', t) =
              {i \in 1..(Len(responses) - 1) : i + 1 \in AnswersFor(responses, t)}
        /\ AnswersFor(responses, t) \in SUBSET (1..Len(responses))
        /\ 1 \notin AnswersFor(responses, t)
        /\ Cardinality(AnswersFor(responses', t)) \in Nat
        /\ Cardinality(AnswersFor(responses, t)) = Cardinality(AnswersFor(responses', t)) + 0
    BY <1>1, <1>2, <1>3, ResponseRead
  <2>2. \A j \in AnswersFor(responses, t) :
           j - 1 \in 1..(Len(responses) - 1) /\ (j - 1) + 1 = j
    BY <1>1, <1>3, <2>1, TailPlaces
  <2>. QED
    BY <2>1, <2>2
<1>7. (Served(t)' <=> Served(t)) /\ ~ Settled(t)'
  BY <1>3, <1>5, <1>6 DEF Served, Settled
<1>8. Watching(t)'
  <2>1. AnswersCounted(t)'
    BY <1>1, <1>4, <1>5, <1>6, Zenon DEF TargetInv, Watching, AnswersCounted
  <2>2. LastRequest(t)'
    <3>. SUFFICES ASSUME NEW i \in RequestsFor(requests, t),
                         \A j \in RequestsFor(requests, t) : j <= i
         PROVE  /\ requests'[i].op = "Watch" <=> t \in DOMAIN listen
                /\ t \in DOMAIN listen \ leftover => UNION requests'[i].token = keys[t]
      BY <1>3, <1>5, Zenon DEF LastRequest
    <3>. QED
      BY <1>1, <1>5 DEF TargetInv, Watching, LastRequest
  <2>3. LastAnswer(t)'
    <3>. SUFFICES ASSUME RequestsFor(requests, t) = {}, NEW i \in AnswersFor(responses', t),
                         \A j \in AnswersFor(responses', t) : j <= i
         PROVE  responses'[i].kind = "Added" <=> t \in DOMAIN listen
      BY <1>3, <1>5, Zenon DEF LastAnswer
    <3>1. /\ i \in 1..(Len(responses) - 1) /\ i + 1 \in AnswersFor(responses, t)
          /\ responses'[i] = responses[i + 1]
      BY <1>1, <1>3, <1>6, TailPlaces
    <3>2. ASSUME NEW j \in AnswersFor(responses, t) PROVE j <= i + 1
      <4>1. j \in 1..Len(responses) /\ Len(responses) \in Nat \ {0} /\ j # 1
        BY <1>1, <1>2, <1>3, ResponseRead, TailPlaces
      <4>2. j - 1 \in 1..(Len(responses) - 1) /\ (j - 1) + 1 = j
        BY <4>1
      <4>3. j - 1 <= i
        BY <1>6, <4>2
      <4>. QED
        BY <3>1, <4>1, <4>3
    <3>. QED
      BY <1>1, <3>1, <3>2 DEF TargetInv, Watching, LastAnswer
  <2>. QED
    BY <1>1, <1>3, <1>4, <2>1, <2>2, <2>3 DEF TargetInv, Watching
<1>9. InServer(t)'
  <2>1. Served(t) => t \in DOMAIN server /\ InOrder(responses', t, server[t].current)
    BY <1>1, <1>3, OrderIsLeft DEF TargetInv, InServer
  <2>. QED
    BY <1>1, <1>3, <1>7, <2>1 DEF TargetInv, InServer
<1>10. Following(t)'
  <2>. SUFFICES ASSUME Served(t), t \notin leftover
       PROVE \E f \in [0..Len(responses') -> Docs] :
                Traced(responses', t, keys[t], server[t].sent, f)
    BY <1>3, <1>7, Zenon DEF Following
  <2>1. PICK f \in [0..Len(responses) -> Docs] :
            Traced(responses, t, keys[t], server[t].sent, f)
    BY <1>1 DEF TargetInv, Following
  <2>. QED
    BY <1>1, <1>3, <2>1, TraceIsLeft
<1>11. InCache(t)'
  BY <1>1, <1>3 DEF TargetInv, InCache
<1>. QED
  BY <1>8, <1>9, <1>10, <1>11 DEF TargetInv

\* A snapshot that tells about t.
LEMMA SnapshotTells ==
    ASSUME WatchInv, Snapshot, NEW t \in Target, t \in Changed, t \notin Again
    PROVE  TargetInv(t)'
<1>1. TypeOK /\ TargetInv(t) /\ responses \in Seq(Response) /\ IsFiniteSet(DOMAIN listen)
  BY DEF WatchInv, TypeOK
<1>2. PICK m : m = Head(responses)
  OBVIOUS
<1>3. /\ m \in Response /\ m.kind = "Snapshot" /\ m.of \in Partial(Sent)
      /\ open /\ responses # <<>> /\ responses' = Tail(responses) /\ ~ IsAnswer(m, t)
      /\ Settled(t) /\ DOMAIN listen' = DOMAIN listen
      /\ t \in DOMAIN listen => listen'[t] = TokenOf(m, t)
      /\ t \notin resets => stored'[t] = TokenOf(m, t)
      /\ t \notin resets => at'[t] = IF t \in DOMAIN m.of /\ m.of[t].current
                                     THEN {m.of[t].sent} ELSE {}
      /\ keys'[t] = State(t).next
      /\ DOMAIN states' = DOMAIN states /\ State(t)' = State(t)
      /\ t \in current' <=> State(t).current
      /\ t \in leftover => t \in leftover'
      /\ t \in relisted' <=> t \in relisted
      /\ UNCHANGED <<server, open>>
      /\ t \in Again <=> t \in resets /\ t \in DOMAIN listen
  BY <1>2, SnapshotOf, Zenon
<1>4. t \in DOMAIN listen /\ t \notin resets
  BY <1>3 DEF Settled, Served
<1>5. /\ RequestsFor(requests', t) = RequestsFor(requests, t) /\ RequestsFor(requests, t) = {}
      /\ AnswersFor(responses, t) = {} /\ AnswersFor(responses', t) = {}
  <2>1. RequestsFor(requests', t) = RequestsFor(requests, t)
    BY <1>1, SnapshotAsks
  <2>2. AnswersFor(responses', t) = {}
    BY <1>1, <1>3, ResponseRead DEF Settled
  <2>. QED
    BY <1>3, <2>1, <2>2 DEF Settled, Served
<1>6. Settled(t)'
  BY <1>3, <1>4, <1>5 DEF Settled, Served
<1>7. t \in DOMAIN server /\ t \in DOMAIN m.of /\ InOrder(responses, t, server[t].current)
  BY <1>1, <1>2, <1>3, AllOfThisWatch, BehindHead DEF InOrder
<1>8. m.of[t].sent \in Docs
  <2>1. m.of \in [DOMAIN m.of -> Sent]
    BY <1>3, PartialFacts
  <2>. QED
    BY <1>7, <2>1 DEF Sent
<1>9. ASSUME t \notin leftover
      PROVE  /\ m.of[t].sent = State(t).next
             /\ \E f \in [0..Len(responses') -> Docs] :
                   Traced(responses', t, keys'[t], server[t].sent, f) /\ f[0] = State(t).next
  <2>1. PICK f \in [0..Len(responses) -> Docs] :
            /\ Traced(responses, t, keys[t], server[t].sent, f)
            /\ f[0] = State(t).next \/ Broken(t)
    BY <1>1, <1>3, <1>9 DEF TargetInv, Following, Settled
  <2>2. f[0] = State(t).next
    BY <1>4, <2>1 DEF Broken
  <2>3. PICK g \in [0..Len(responses') -> Docs] :
            /\ Traced(responses', t, keys[t], server[t].sent, g)
            /\ Tells(m, t, f[0], g[0])
    BY <1>1, <1>2, <1>3, <1>5, <2>1, TraceIsLeft
  <2>4. g[0] = f[0] /\ m.of[t].sent = g[0]
    BY <1>3, <2>3 DEF Tells, Is
  <2>5. Traced(responses', t, keys'[t], server[t].sent, g)
    BY <1>5, <2>3, AnyBase
  <2>. QED
    BY <2>2, <2>3, <2>4, <2>5
<1>10. Watching(t)'
  <2>1. AnswersCounted(t)'
    BY <1>1, <1>3, <1>5, Zenon DEF TargetInv, Watching, AnswersCounted
  <2>2. LastRequest(t)' /\ LastAnswer(t)'
    BY <1>5 DEF LastRequest, LastAnswer
  <2>. QED
    BY <1>1, <1>3, <2>1, <2>2 DEF TargetInv, Watching
<1>11. InServer(t)'
  <2>1. InOrder(responses', t, server[t].current)
    BY <1>1, <1>3, <1>7, OrderIsLeft
  <2>2. ASSUME State(t).current, t \notin relisted
        PROVE  /\ server[t].current
               /\ \A i \in DOMAIN responses' :
                     responses'[i].kind = "Snapshot" => responses'[i].of[t].current
    BY <1>1, <1>3, <2>2, BehindHead DEF TargetInv, InServer
  <2>. QED
    BY <1>1, <1>3, <1>7, <2>1, <2>2 DEF TargetInv, InServer
<1>12. Following(t)'
  BY <1>3, <1>9, Zenon DEF Following
<1>13. InCache(t)'
  <2>1. TokenOf(m, t) = {m.of[t].sent} /\ UNION {m.of[t].sent} = m.of[t].sent
    BY <1>7 DEF TokenOf
  <2>2. ASSUME State(t).current, t \notin relisted PROVE m.of[t].current
    BY <1>1, <1>2, <1>3, <2>2, BehindHead, TailPlaces DEF TargetInv, InServer
  <2>3. \/ at'[t] = {m.of[t].sent}
        \/ at'[t] = {} /\ (t \in current' => t \in relisted')
    BY <1>3, <1>4, <1>7, <2>2
  <2>4. UNION stored'[t] = m.of[t].sent /\ UNION listen'[t] = m.of[t].sent
    BY <1>3, <1>4, <2>1
  <2>5. t \notin leftover' => keys'[t] = m.of[t].sent
    BY <1>3, <1>9
  <2>. QED
    BY <2>3, <2>4, <2>5 DEF InCache
<1>. QED
  BY <1>10, <1>11, <1>12, <1>13 DEF TargetInv

\* A snapshot after which t is watched again from the start.
LEMMA SnapshotResets ==
    ASSUME WatchInv, Snapshot, NEW t \in Target, t \in Again
    PROVE  TargetInv(t)'
<1>1. TypeOK /\ TargetInv(t) /\ responses \in Seq(Response) /\ IsFiniteSet(DOMAIN listen)
  BY DEF WatchInv, TypeOK
<1>2. PICK m : m = Head(responses)
  OBVIOUS
<1>3. /\ m \in Response /\ m.kind = "Snapshot" /\ m.of \in Partial(Sent)
      /\ open /\ responses # <<>> /\ responses' = Tail(responses) /\ ~ IsAnswer(m, t)
      /\ t \in Changed <=> Settled(t)
      /\ DOMAIN listen' = DOMAIN listen /\ t \in resets /\ t \in DOMAIN listen
      /\ listen'[t] = {}
      /\ t \in Changed => stored'[t] = {}
      /\ at'[t] = IF t \notin Changed THEN at[t]
                  ELSE IF t \in DOMAIN m.of /\ m.of[t].current /\ State(t).current
                       THEN {m.of[t].sent} ELSE {}
      /\ DOMAIN states' = DOMAIN states /\ State(t)' = Pending(t, 2)
      /\ t \in Changed => keys'[t] = State(t).next
      /\ t \in Changed => (t \in current' <=> State(t).current)
      /\ t \notin Changed => (t \in current' <=> t \in current)
      /\ t \in leftover' <=> t \in leftover \/ t \notin Changed \/ State(t).next # {}
      /\ t \in relisted' <=> t \in relisted \/ State(t).current
      /\ UNCHANGED <<server, open>>
  BY <1>2, SnapshotOf, Zenon
<1>4. /\ State(t)'.outstanding = State(t).outstanding + 2
      /\ State(t)'.current = State(t).current
  BY <1>1, <1>3, PendingTypes
<1>5. /\ RequestsFor(requests', t) # {}
      /\ Cardinality(RequestsFor(requests, t)) \in Nat
      /\ Cardinality(RequestsFor(requests', t)) = Cardinality(RequestsFor(requests, t)) + 2
      /\ \A i \in RequestsFor(requests', t) :
            (\A j \in RequestsFor(requests', t) : j <= i) => requests'[i] = Watch(t, {})
  BY <1>1, SnapshotAsks
<1>6. ~ Served(t)' /\ ~ Settled(t)'
  BY <1>5 DEF Served, Settled
<1>7. Watching(t)'
  <2>1. AnswersCounted(t)'
    <3>1. /\ Cardinality(AnswersFor(responses', t)) \in Nat
          /\ Cardinality(AnswersFor(responses, t)) = Cardinality(AnswersFor(responses', t)) + 0
      BY <1>1, <1>2, <1>3, ResponseRead
    <3>2. State(t).outstanding =
              Cardinality(RequestsFor(requests, t)) + Cardinality(AnswersFor(responses, t))
      BY <1>1 DEF TargetInv, Watching, AnswersCounted
    <3>3. State(t)'.outstanding =
              Cardinality(RequestsFor(requests', t)) + Cardinality(AnswersFor(responses', t))
      BY <1>4, <1>5, <3>1, <3>2
    <3>. QED
      BY <3>3 DEF AnswersCounted
  <2>2. LastRequest(t)'
    <3>1. Watch(t, {}).op = "Watch" /\ UNION Watch(t, {}).token = {}
      BY DEF Watch
    <3>2. t \notin leftover' => keys'[t] = {}
      BY <1>3
    <3>. QED
      BY <1>3, <1>5, <3>1, <3>2 DEF LastRequest
  <2>3. LastAnswer(t)'
    BY <1>5 DEF LastAnswer
  <2>. QED
    BY <1>1, <1>3, <1>4, <2>1, <2>2, <2>3 DEF TargetInv, Watching
<1>8. InServer(t)' /\ Following(t)'
  BY <1>1, <1>3, <1>6 DEF TargetInv, InServer, Following
<1>9. InCache(t)'
  <2>1. CASE t \notin Changed
    <3>1. t \in leftover'
      BY <1>3, <2>1
    <3>2. t \in current' /\ t \notin relisted' => at'[t] # {}
      BY <1>1, <1>3, <2>1 DEF TargetInv, InCache
    <3>. QED
      BY <3>1, <3>2 DEF InCache
  <2>2. CASE t \in Changed
    <3>1. t \notin leftover' => t \notin leftover /\ State(t).next = {} /\ keys'[t] = {}
      BY <1>3, <2>2
    <3>2. ASSUME t \notin leftover', at'[t] # {} PROVE at'[t] = {keys'[t]}
      <4>1. /\ t \in DOMAIN m.of /\ State(t).current /\ at'[t] = {m.of[t].sent}
        BY <1>3, <2>2, <3>2
      <4>2. PICK f \in [0..Len(responses) -> Docs] :
                /\ Traced(responses, t, keys[t], server[t].sent, f)
                /\ f[0] = State(t).next \/ Broken(t)
        BY <1>1, <1>3, <2>2, <3>1, <3>2 DEF TargetInv, Following, Settled
      <4>3. f[0] = State(t).next
        BY <4>1, <4>2 DEF Broken
      <4>4. PICK g \in [0..Len(responses') -> Docs] : Tells(m, t, f[0], g[0])
        BY <1>1, <1>2, <1>3, <2>2, <4>2, TraceIsLeft DEF Settled
      <4>5. m.of[t].sent = f[0]
        BY <1>3, <4>4 DEF Tells, Is
      <4>. QED
        BY <3>1, <3>2, <4>1, <4>3, <4>5
    <3>3. t \in current' => t \in relisted'
      BY <1>3, <2>2
    <3>4. stored'[t] = {} /\ listen'[t] = {} /\ UNION {} = {}
      BY <1>3, <2>2
    <3>. QED
      BY <3>1, <3>2, <3>3, <3>4 DEF InCache
  <2>. QED
    BY <2>1, <2>2
<1>. QED
  BY <1>7, <1>8, <1>9 DEF TargetInv


\* The types a snapshot keeps.
LEMMA SnapshotTypes ==
    ASSUME WatchInv, Snapshot
    PROVE  TypeOK'
<1>1. TypeOK /\ IsFiniteSet(DOMAIN listen)
  BY DEF WatchInv
<1>2. PICK m : m = Head(responses)
  OBVIOUS
<1>3. /\ m.of \in Partial(Sent) /\ responses' \in Seq(Response)
      /\ Message("Snapshot")
  BY <1>1, <1>2, MessageTaken, ResponseFacts DEF Snapshot
<1>4. requests' \in Seq(Request)
  BY <1>1, SnapshotAsks
<1>5. /\ DOMAIN listen \subseteq Target /\ listen \in [DOMAIN listen -> Token]
      /\ DOMAIN states \subseteq Target /\ states \in [DOMAIN states -> TargetState]
  BY <1>1, PartialFacts DEF TypeOK
<1>6. /\ Changed \subseteq DOMAIN listen /\ Changed \subseteq DOMAIN states
      /\ Again \subseteq DOMAIN listen
      /\ \A t \in Changed : states[t].next \in Docs
  BY <1>5 DEF Changed, Active, Again, TargetState
<1>7. \A t \in DOMAIN m.of : m.of[t].sent \in Docs /\ {m.of[t].sent} \in Token
  <2>1. m.of \in [DOMAIN m.of -> Sent]
    BY <1>3, PartialFacts
  <2>2. \A t \in DOMAIN m.of : m.of[t].sent \in Docs
    BY <2>1 DEF Sent
  <2>. QED
    BY <2>2, TokenFacts
<1>8. {} \in Token /\ \A t \in Target : TokenOf(m, t) \in Token
  BY <1>7, TokenFacts DEF TokenOf
<1>9. listen' \in Partial(Token) /\ DOMAIN listen' = DOMAIN listen
  <2>1. listen' = [t \in DOMAIN listen |->
            IF t \in Again THEN {} ELSE IF t \in Changed THEN TokenOf(m, t) ELSE listen[t]]
    BY <1>2 DEF Snapshot
  <2>2. DOMAIN listen' = DOMAIN listen /\ listen' \in [DOMAIN listen -> Token]
    BY <1>5, <1>8, <2>1
  <2>. QED
    BY <1>5, <2>2, PartialFacts
<1>10. stored' \in [Target -> Token]
  <2>1. stored' = [t \in Target |->
            IF t \notin Changed THEN stored[t]
            ELSE IF t \in resets THEN {} ELSE TokenOf(m, t)]
    BY <1>2 DEF Snapshot
  <2>. QED
    BY <1>1, <1>8, <2>1 DEF TypeOK
<1>11. at' \in [Target -> Token]
  <2>1. at' = [t \in Target |->
            IF t \notin Changed THEN at[t]
            ELSE IF /\ t \in DOMAIN m.of /\ m.of[t].current
                    /\ t \in resets => states[t].current
                 THEN {m.of[t].sent} ELSE {}]
    BY <1>2 DEF Snapshot
  <2>. QED
    BY <1>1, <1>7, <1>8, <2>1 DEF TypeOK
<1>12. DOMAIN states' \subseteq Target /\ states' \in [DOMAIN states' -> TargetState]
  <2>1. states' = [t \in DOMAIN states |-> IF t \in Again THEN Pending(t, 2) ELSE states[t]]
    BY DEF Snapshot
  <2>2. \A t \in DOMAIN states : Pending(t, 2) \in TargetState
    BY <1>1, <1>5, PendingTypes
  <2>. QED
    BY <1>5, <2>1, <2>2
<1>13. keys' \in [Target -> Docs]
  <2>1. keys' = [t \in Target |-> IF t \in Changed THEN states[t].next ELSE keys[t]]
    BY DEF Snapshot
  <2>. QED
    BY <1>1, <1>6, <2>1 DEF TypeOK
<1>14. current' \subseteq DOMAIN listen'
  BY <1>1, <1>6, <1>9 DEF Snapshot, CurrentAfter, TypeOK
<1>15. /\ resets' = {} /\ relisted' \subseteq Target /\ leftover' \subseteq Target
       /\ UNCHANGED <<results, server, news, open>>
  <2>1. resets \subseteq Target /\ Again \subseteq Target
    BY <1>1, <1>5, <1>6 DEF TypeOK
  <2>. QED
    BY <1>1, <2>1 DEF Snapshot, TypeOK, external
<1>. QED
  BY <1>1, <1>3, <1>4, <1>9, <1>10, <1>11, <1>12, <1>13, <1>14, <1>15 DEF TypeOK

-----------------------------------------------------------------------------
(***************************************************************************)
(* All steps.                                                              *)
(***************************************************************************)

\* The results of a target change at the server: nobody was told yet.
LEMMA ResultsKeep ==
    ASSUME WatchInv, NEW t \in Target, NEW d \in Doc, ResultsChange(t, d), NEW x \in Target
    PROVE  TargetInv(x)' /\ TypeOK'
<1>1. TypeOK /\ LastRequest(x)
  BY DEF WatchInv, TargetInv, Watching
<1>2. UNCHANGED <<server, news, open, requests, responses, listen, aggregator, stored,
                  views, ghosts>>
  BY DEF ResultsChange, wire
<1>3. Quiet(x) /\ NoRequest(x)
  BY <1>1, <1>2, ClientUnchanged
<1>4. TargetInv(x)'
  BY <1>2, <1>3, Elsewhere
<1>5. results' \in [Target -> Docs]
  <2>1. PICK ds : ds = IF d \in results[t] THEN results[t] \ {d} ELSE results[t] \cup {d}
    OBVIOUS
  <2>2. results[t] \in Docs
    BY <1>1, WatchTypes
  <2>3. ds \in Docs
    BY <2>1, <2>2 DEF Docs
  <2>4. results' = [results EXCEPT ![t] = ds]
    BY <2>1 DEF ResultsChange
  <2>. QED
    BY <1>1, <2>3, <2>4 DEF TypeOK
<1>. QED
  BY <1>1, <1>2, <1>4, <1>5 DEF TypeOK, aggregator, views, ghosts

\* Only when it is lost does a stream close, and until it is opened nothing is
\* asked for and nothing is told.
LEMMA ClosedKept ==
    ASSUME WatchInv, Next, ~ OnWatchStreamClose
    PROVE  Closed'
<1>1. Closed /\ TypeOK
  BY DEF WatchInv
<1>2. CASE Client
  <2>1. CASE OnWatchStreamOpen
    BY <2>1 DEF OnWatchStreamOpen, Closed
  <2>2. CASE ~ OnWatchStreamOpen
    <3>1. PICK kind : Message(kind)
      BY <1>2, <2>2 DEF Client, Snapshot, TargetAdded, TargetRemoved, TargetCurrent,
                        DocumentChange, ExistenceFilter
    <3>2. open
      BY <1>1, <3>1 DEF Closed, Message
    <3>3. open' = open
      BY <1>2, <2>2 DEF Client, Snapshot, TargetAdded, TargetRemoved, TargetCurrent,
                        DocumentChange, ExistenceFilter
    <3>. QED
      BY <3>2, <3>3 DEF Closed
  <2>. QED
    BY <2>1, <2>2
<1>3. CASE Server
  <2>1. open' = open
    BY <1>3 DEF Server, ServerWatch, ServerUnwatch, ServerSnapshot, ServerCurrent,
                ServerFilter, ServerDocument
  <2>2. open
    <3>1. ASSUME NEW t \in Target, t \in DOMAIN server PROVE open
      BY <1>1, <3>1, WhileClosed
    <3>2. ASSUME requests # <<>> PROVE open
      BY <1>1, <3>2 DEF Closed
    <3>. QED
      BY <1>3, <3>1, <3>2 DEF Server, ServerWatch, ServerUnwatch, ServerSnapshot,
                              ServerCurrent, ServerFilter, ServerDocument
  <2>. QED
    BY <2>1, <2>2 DEF Closed
<1>4. ASSUME NEW t \in Target, Listen(t) PROVE Closed'
  BY <1>1, <1>4 DEF Listen, Closed, external
<1>5. ASSUME NEW t \in Target, StopListening(t) PROVE Closed'
  BY <1>1, <1>5 DEF StopListening, Closed, external
<1>6. ASSUME NEW t \in Target, NEW d \in Doc, ResultsChange(t, d) PROVE Closed'
  BY <1>1, <1>6 DEF ResultsChange, Closed, wire, aggregator
<1>. QED
  BY <1>2, <1>3, <1>4, <1>5, <1>6 DEF Next

\* What is listened to stays finite.
LEMMA FinitelyMany ==
    ASSUME WatchInv, Next
    PROVE  IsFiniteSet(DOMAIN listen')
<1>1. IsFiniteSet(DOMAIN listen) /\ TypeOK
  BY DEF WatchInv
<1>2. CASE Client
  <2>1. DOMAIN listen' = DOMAIN listen
    BY <1>2 DEF Client, OnWatchStreamOpen, Snapshot, TargetAdded, TargetRemoved,
                TargetCurrent, DocumentChange, ExistenceFilter
  <2>. QED
    BY <1>1, <2>1
<1>3. CASE Server
  BY <1>1, <1>3, ServerTypes
<1>4. CASE OnWatchStreamClose
  BY <1>1, <1>4 DEF OnWatchStreamClose
<1>5. ASSUME NEW t \in Target, Listen(t) PROVE IsFiniteSet(DOMAIN listen')
  <2>1. DOMAIN listen' = DOMAIN listen \cup {t}
    BY <1>5 DEF Listen, With
  <2>. QED
    BY <1>1, <2>1, FS_AddElement
<1>6. ASSUME NEW t \in Target, StopListening(t) PROVE IsFiniteSet(DOMAIN listen')
  <2>1. DOMAIN listen' = DOMAIN listen \ {t}
    BY <1>6 DEF StopListening, Without
  <2>. QED
    BY <1>1, <2>1, FS_RemoveElement
<1>7. ASSUME NEW t \in Target, NEW d \in Doc, ResultsChange(t, d)
      PROVE  IsFiniteSet(DOMAIN listen')
  BY <1>1, <1>7 DEF ResultsChange
<1>. QED
  BY <1>2, <1>3, <1>4, <1>5, <1>6, <1>7 DEF Next

\* Each step keeps what is true of each target.
LEMMA TargetKept ==
    ASSUME WatchInv, Next, NEW x \in Target
    PROVE  TargetInv(x)' /\ TypeOK'
<1>1. TypeOK
  BY DEF WatchInv
<1>2. CASE Client
  <2>1. CASE Snapshot
    <3>1. TargetInv(x)'
      BY <2>1, SnapshotPasses, SnapshotTells, SnapshotResets
    <3>. QED
      BY <2>1, <3>1, SnapshotTypes
  <2>. QED
    BY <1>2, <2>1, OpenKeeps, AnswersKeep, CurrentKeeps, DocumentKeeps, FilterKeeps DEF Client
<1>3. CASE Server
  BY <1>1, <1>3, ServerKeeps, ServerTypes
<1>4. CASE OnWatchStreamClose
  BY <1>4, CloseKeeps
<1>5. ASSUME NEW t \in Target, Listen(t) PROVE TargetInv(x)' /\ TypeOK'
  BY <1>5, ListenKeeps
<1>6. ASSUME NEW t \in Target, StopListening(t) PROVE TargetInv(x)' /\ TypeOK'
  BY <1>6, StopListeningKeeps
<1>7. ASSUME NEW t \in Target, NEW d \in Doc, ResultsChange(t, d)
      PROVE  TargetInv(x)' /\ TypeOK'
  BY <1>7, ResultsKeep
<1>. QED
  BY <1>2, <1>3, <1>4, <1>5, <1>6, <1>7 DEF Next

\* Each step keeps the types, whether or not there is a target to speak of.
LEMMA TypesKept ==
    ASSUME WatchInv, Next
    PROVE  TypeOK'
<1>1. TypeOK /\ Closed
  BY DEF WatchInv
<1>2. ASSUME NEW x \in Target PROVE TypeOK'
  BY <1>2, TargetKept
<1>. SUFFICES ASSUME Target = {} PROVE TypeOK'
  BY <1>2
<1>3. CASE Client
  <2>1. CASE Snapshot
    BY <2>1, SnapshotTypes
  <2>2. CASE OnWatchStreamOpen
    <3>1. DOMAIN listen = {} /\ listen \in [DOMAIN listen -> Token]
      BY <1>1, PartialFacts DEF TypeOK
    <3>2. listen = [t \in {} |-> listen[t]] /\ <<>> = [t \in {} |-> listen[t]]
      BY <3>1
    <3>. QED
      BY <2>2, <3>2 DEF OnWatchStreamOpen
  <2>3. CASE ~ Snapshot /\ ~ OnWatchStreamOpen
    <3>1. PICK kind : kind # "Snapshot" /\ Message(kind)
      BY <1>3, <2>3 DEF Client, TargetAdded, TargetRemoved, TargetCurrent,
                        DocumentChange, ExistenceFilter
    <3>. QED
      BY <1>1, <3>1, MessageTaken
  <2>. QED
    BY <2>1, <2>2, <2>3
<1>4. CASE Server
  BY <1>1, <1>4, ServerTypes
<1>5. CASE OnWatchStreamClose
  BY <1>1, <1>5, CloseTypes
<1>. QED
  BY <1>3, <1>4, <1>5 DEF Next

\* Each step keeps the invariant.
LEMMA WatchStep ==
    ASSUME WatchInv, [Next]_vars
    PROVE  WatchInv'
<1>1. CASE Next
  <2>1. Closed'
    BY <1>1, ClosedKept, CloseTypes DEF WatchInv
  <2>2. IsFiniteSet(DOMAIN listen')
    BY <1>1, FinitelyMany
  <2>3. \A x \in Target : TargetInv(x)'
    BY <1>1, TargetKept
  <2>4. TypeOK'
    BY <1>1, TypesKept
  <2>. QED
    BY <2>1, <2>2, <2>3, <2>4 DEF WatchInv
<1>2. CASE UNCHANGED vars
  <2>1. UNCHANGED <<results, server, news, open, requests, responses, listen, states,
                    resets, stored, keys, current, at, relisted, leftover>>
    BY <1>2 DEF vars, external, wire, aggregator, views, ghosts
  <2>2. TypeOK' /\ IsFiniteSet(DOMAIN listen') /\ Closed'
    BY <2>1 DEF WatchInv, TypeOK, Closed
  <2>3. ASSUME NEW t \in Target PROVE TargetInv(t)'
    <3>1. LastRequest(t)
      BY DEF WatchInv, TargetInv, Watching
    <3>2. Quiet(t) /\ NoRequest(t)
      BY <2>1, <3>1, ClientUnchanged DEF aggregator, views, ghosts
    <3>. QED
      BY <2>1, <3>2, Elsewhere
  <2>. QED
    BY <2>2, <2>3 DEF WatchInv
<1>. QED
  BY <1>1, <1>2

\* At first nothing is listened to.
LEMMA WatchStart ==
    ASSUME Init
    PROVE  WatchInv
<1>1. DOMAIN listen = {} /\ DOMAIN server = {} /\ DOMAIN states = {}
  BY EmptyPartial DEF Init
<1>2. TypeOK
  <2>1. requests \in Seq(Request) /\ responses \in Seq(Response)
    BY EmptyPartial DEF Init
  <2>2. server \in Partial(Sent) /\ listen \in Partial(Token)
    BY EmptyPartial DEF Init
  <2>3. states \in [DOMAIN states -> TargetState]
    BY EmptyPartial DEF Init
  <2>4. {} \in Token /\ {} \in Docs
    BY TokenFacts DEF Docs
  <2>. QED
    BY <1>1, <2>1, <2>2, <2>3, <2>4 DEF Init, TypeOK
<1>3. IsFiniteSet(DOMAIN listen)
  BY <1>1, FS_EmptySet
<1>4. Closed
  BY DEF Init, Closed
<1>5. ASSUME NEW t \in Target PROVE TargetInv(t)
  <2>1. /\ RequestsFor(requests, t) = {} /\ AnswersFor(responses, t) = {}
        /\ State(t).outstanding = 0 /\ ~ State(t).current
    BY <1>1, EmptyQueues DEF Init, State
  <2>2. Cardinality(RequestsFor(requests, t)) + Cardinality(AnswersFor(responses, t)) = 0
    BY <2>1, EmptyQueues
  <2>3. Watching(t)
    BY <1>1, <2>1, <2>2 DEF Init, Watching, AnswersCounted, LastRequest, LastAnswer
  <2>4. InServer(t) /\ Following(t)
    BY <1>1 DEF Init, InServer, Following, Settled, Served
  <2>5. InCache(t)
    BY <1>1, TokenFacts DEF Init, InCache
  <2>. QED
    BY <2>3, <2>4, <2>5 DEF TargetInv
<1>. QED
  BY <1>2, <1>3, <1>4, <1>5 DEF WatchInv

\* The invariant holds in all states.
LEMMA WatchInvariant ==
    Spec => []WatchInv
<1>1. Init => WatchInv
  BY WatchStart
<1>2. WatchInv /\ [Next]_vars => WatchInv'
  BY WatchStep
<1>. QED
  BY <1>1, <1>2, PTL DEF Spec

-----------------------------------------------------------------------------
(***************************************************************************)
(* What a listener can rely on.                                            *)
(***************************************************************************)

\* A target counts just the requests whose answers it has not read
\* (TargetState::outstanding_responses_), so that what is told of an earlier
\* watch is never taken for the present one's.
THEOREM NoAnswerIsMiscounted ==
    Spec => []OutstandingAreUnanswered
<1>1. WatchInv => OutstandingAreUnanswered
  BY DEF WatchInv, TargetInv, Watching, AnswersCounted, OutstandingAreUnanswered
<1>. QED
  BY <1>1, WatchInvariant, PTL

\* A stored resume token stands for the documents in the cache, however
\* listeners come and go and streams are lost (LocalStore's TargetData).
THEOREM TokensStandForTheCache ==
    Spec => []TokenIsOfKeys
<1>1. ASSUME WatchInv, NEW t \in Target \ leftover, stored[t] # {}
      PROVE  stored[t] = {keys[t]}
  <2>1. stored[t] \in Token /\ UNION stored[t] = keys[t]
    BY <1>1, WatchTypes DEF WatchInv, TargetInv, InCache
  <2>2. PICK token \in Token : token = stored[t]
    BY <2>1
  <2>3. token = {} \/ token = {UNION token}
    BY TokenFacts
  <2>. QED
    BY <1>1, <2>1, <2>2, <2>3, Zenon
<1>2. WatchInv => TokenIsOfKeys
  BY <1>1 DEF TokenIsOfKeys
<1>. QED
  BY <1>2, WatchInvariant, PTL

\* What the server sent of a target, up to a snapshot that is consistent, is
\* what its view has, no document more or less (View::ApplyChanges).
THEOREM ViewsHaveWhatTheyWereTold ==
    Spec => []KeysAreTold
<1>1. ASSUME WatchInv, NEW t \in DOMAIN listen \ leftover, at[t] # {}
      PROVE  at[t] = {keys[t]}
  <2>1. t \in Target
    BY <1>1, PartialFacts DEF WatchInv, TypeOK
  <2>. QED
    BY <1>1, <2>1 DEF WatchInv, TargetInv, InCache
<1>2. WatchInv => KeysAreTold
  BY <1>1 DEF KeysAreTold
<1>. QED
  BY <1>2, WatchInvariant, PTL

\* A view does not call itself current before the server told it all
\* (View::ApplyTargetChange).
THEOREM CurrentViewsAreTold ==
    Spec => []CurrentIsConfirmed
<1>1. ASSUME WatchInv, NEW t \in current \ relisted PROVE at[t] # {}
  <2>1. t \in Target
    BY <1>1, PartialFacts DEF WatchInv, TypeOK
  <2>. QED
    BY <1>1, <2>1 DEF WatchInv, TargetInv, InCache
<1>2. WatchInv => CurrentIsConfirmed
  BY <1>1 DEF CurrentIsConfirmed
<1>. QED
  BY <1>2, WatchInvariant, PTL

\* The parts of the state keep their types: a count of unanswered requests is
\* never below 0, and a view is current only while it is listened to.
THEOREM WatchTyped ==
    Spec => []TypeOK
<1>1. WatchInv => TypeOK
  BY DEF WatchInv
<1>. QED
  BY <1>1, WatchInvariant, PTL

-----------------------------------------------------------------------------
(***************************************************************************)
(* The online state, the watch stream and the views fit each other.        *)
(***************************************************************************)

\* Only a stream in use has called a target current.
ConfirmedOnline == confirmed # {} => state = "Online"

OnlineInv ==
    OnlineTypeOK /\ TrackerAsserts /\ StreamAsNeeded /\ CurrentIsSentAgain /\ ConfirmedOnline

USE DEF OnlineInv, OnlineTypeOK, TrackerAsserts, StreamAsNeeded, CurrentIsSentAgain,
        ConfirmedOnline, Started, Outdated

\* A client without listeners satisfies the invariant.
LEMMA OnlineStart == OnlineInit => OnlineInv
<1> SUFFICES ASSUME OnlineInit PROVE OnlineInv
  OBVIOUS
<1>1. OnlineTypeOK
  BY DEF OnlineInit
<1>2. TrackerAsserts
  BY DEF OnlineInit
<1>3. StreamAsNeeded
  BY DEF OnlineInit
<1>4. CurrentIsSentAgain /\ ConfirmedOnline
  BY DEF OnlineInit
<1> QED  BY <1>1, <1>2, <1>3, <1>4

\* A listener added, which starts the stream unless it is started.
LEMMA AddListenerStep ==
    ASSUME OnlineInv, NEW q \in Query, AddQueryListener(q)
    PROVE  OnlineInv'
<1>1. CASE Started(stream)
  BY <1>1 DEF AddQueryListener, tracker
<1>2. CASE ~ Started(stream)
  BY <1>2 DEF AddQueryListener, Start, WatchStreamStart, tracker
<1> QED  BY <1>1, <1>2

\* A listener removed, perhaps the last one of a stream that is not open.
LEMMA RemoveListenerStep ==
    ASSUME OnlineInv, NEW q \in Query, RemoveQueryListener(q)
    PROVE  OnlineInv'
<1>1. CASE listening' = {} /\ stream # "Open"
  BY <1>1 DEF RemoveQueryListener, UpdateState, Broadcast
<1>2. CASE ~ (listening' = {} /\ stream # "Open")
  BY <1>2 DEF RemoveQueryListener, tracker
<1> QED  BY <1>1, <1>2

\* The token arrives, or the delay of a failed stream is over.
LEMMA WorkerStep ==
    ASSUME OnlineInv, Worker
    PROVE  OnlineInv'
<1>1. CASE ResumeStart
  <2>1. UNCHANGED <<listening, idle, state, failed, timer, raised, currentViews, confirmed,
                    restarts, untimed>>
    BY <1>1 DEF ResumeStart, tracker, listeners, bounds
  <2>2. CASE "now" \in asked /\ asked' = asked \ {"now"} /\ stream' = "Open"
    BY <2>1, <2>2
  <2>3. CASE "before" \in asked /\ asked' = asked \ {"before"} /\ stream' = stream
    BY <2>1, <2>3
  <2> QED  BY <1>1, <2>2, <2>3 DEF ResumeStart
<1>2. CASE BackoffElapsed
  BY <1>2 DEF BackoffElapsed, Start, tracker, listeners, bounds
<1> QED  BY <1>1, <1>2 DEF Worker

\* A message makes the client online and some targets current.
LEMMA MessageStep ==
    ASSUME OnlineInv, NEW made \in SUBSET Query, OnWatchStreamChange(made)
    PROVE  OnlineInv'
  BY DEF OnWatchStreamChange, UpdateState, Broadcast, bounds

\* The stream ends with an error.
LEMMA StreamErrorStep ==
    ASSUME OnlineInv, StreamError
    PROVE  OnlineInv'
<1>1. CASE listening = {}
  BY <1>1 DEF StreamError, UpdateState, Broadcast, bounds
<1>2. CASE listening # {}
  <2>1. stream' = "Backoff" /\ asked' = Outdated(asked)
    BY <1>2 DEF StreamError, Start
  <2>2. /\ idle' = FALSE /\ confirmed' = {} /\ listening' = listening
        /\ restarts' = restarts /\ untimed' = untimed
    BY DEF StreamError, bounds
  <2>3. \/ state' = "Unknown" /\ failed' = FALSE /\ timer' = TRUE
        \/ state' = "Offline" /\ failed' = TRUE /\ timer' = FALSE
    BY <1>2 DEF StreamError
  <2>4. Broadcast(state', raised, currentViews)
    BY <1>2 DEF StreamError
  <2> QED  BY <2>1, <2>2, <2>3, <2>4 DEF Broadcast
<1> QED  BY <1>1, <1>2

\* A timer ends: that of the online state, or that of an unused stream.
LEMMA TimeoutStep ==
    ASSUME OnlineInv, OnlineStateTimeout \/ IdleTimeout
    PROVE  OnlineInv'
<1>1. CASE OnlineStateTimeout
  BY <1>1 DEF OnlineStateTimeout, Broadcast, bounds
<1>2. CASE IdleTimeout
  BY <1>2 DEF IdleTimeout, UpdateState, Broadcast, bounds
<1> QED  BY <1>1, <1>2

\* The network has changed.
LEMMA RestartStep ==
    ASSUME OnlineInv, RestartNetwork
    PROVE  OnlineInv'
<1>1. /\ idle' = FALSE /\ confirmed' = {} /\ listening' = listening
      /\ restarts' = restarts + 1 /\ untimed' = FALSE
      /\ state' = "Unknown" /\ failed' = FALSE
      /\ timer' \in BOOLEAN /\ (timer' => listening # {})
      /\ raised' = raised /\ currentViews' = currentViews
  BY DEF RestartNetwork, Broadcast
<1> DEFINE a == IF Started(stream) THEN Outdated(asked) ELSE asked
<1>2. "now" \notin a /\ a \subseteq {"now", "before"}
  <2>1. CASE Started(stream)
    BY <2>1
  <2>2. CASE ~ Started(stream)
    BY <2>2
  <2> QED  BY <2>1, <2>2
<1>3. \/ listening = {} /\ stream' = "Initial" /\ asked' = a
      \/ stream' = "Starting" /\ asked' = a \cup {"now"}
  BY DEF RestartNetwork, Start
<1> HIDE DEF a
<1>4. "now" \in asked' <=> stream' = "Starting"
  BY <1>2, <1>3
<1>5. asked' \subseteq {"now", "before"}
  BY <1>2, <1>3
<1>6. stream' \in {"Initial", "Starting"} /\ (listening # {} => stream' = "Starting")
  BY <1>3
<1>7. restarts' \in Nat
  BY <1>1
<1>8. OnlineTypeOK'
  BY <1>1, <1>5, <1>6, <1>7, Zenon
<1>9. TrackerAsserts'
  BY <1>1, <1>6
<1>10. StreamAsNeeded'
  BY <1>1, <1>4, <1>6
<1>11. CurrentIsSentAgain' /\ ConfirmedOnline'
  BY <1>1
<1> QED  BY <1>8, <1>9, <1>10, <1>11

\* Every step keeps the invariant.
LEMMA OnlineStep == OnlineInv /\ [OnlineNext]_onlineVars => OnlineInv'
<1> SUFFICES ASSUME OnlineInv, [OnlineNext]_onlineVars PROVE OnlineInv'
  OBVIOUS
<1>1. CASE UNCHANGED onlineVars
  BY <1>1 DEF onlineVars, tracker, listeners, bounds
<1>2. CASE OnlineNext
  <2> HIDE DEF OnlineInv
  <2> QED  BY <1>2, AddListenerStep, RemoveListenerStep, WorkerStep, MessageStep,
              StreamErrorStep, TimeoutStep, RestartStep DEF OnlineNext
<1> QED  BY <1>1, <1>2

\* The invariant holds in every state, for any queries.
LEMMA OnlineInvariant == OnlineSpec => []OnlineInv
<1> HIDE DEF OnlineInv
<1> QED  BY OnlineStart, OnlineStep, PTL DEF OnlineSpec

\* The assertions of online_state_tracker.cc hold whatever order streams fail,
\* listeners go and networks change in.
THEOREM TrackerIsSound == OnlineSpec => []TrackerAsserts
  BY OnlineInvariant, PTL

\* Whoever is listening has a stream that is open or on its way, and one token
\* is waited for (the assertions of remote_store.cc and stream.cc).
THEOREM StreamIsThere == OnlineSpec => []StreamAsNeeded
  BY OnlineInvariant, PTL

\* No view stays "from cache" that the stream in use has called current
\* (View::ApplyOnlineStateChange).
THEOREM CurrentComesAgain == OnlineSpec => []CurrentIsSentAgain
  BY OnlineInvariant, PTL

=============================================================================
