--------------------------- MODULE UserDataProofs ---------------------------
(***************************************************************************)
(* For any users and competitions: what a user's devices keep of friends   *)
(* and requests (Friends), and what the list of competitions shows         *)
(* (CompetitionsList).                                                     *)
(*                                                                         *)
(* A list of friends passes through five places: the document, the version *)
(* received, hostUser, an acceptance and the queue.  The invariant says of *)
(* each of them that it only names users whose request the server has.     *)
(* What makes it hold while the copies are stale is that requests are      *)
(* never taken away from a document (RequestsKept).                        *)
(*                                                                         *)
(* The closure that fills the list of competitions skips results without   *)
(* documents.  That the list is the last result nevertheless rests on the  *)
(* order of results: none without documents comes after one with some.     *)
(***************************************************************************)
EXTENDS Friends, CompetitionsList, SequenceTheorems, FiniteSetTheorems,
        WellFoundedInduction, TLAPS

\* Among the requests n that u has is one of f, or f is u.
HasAsked(n, u, f) == f = u \/ \E x \in n : x.userFriend = f

AllHaveAsked(n, u, friends) == \A f \in Listed(friends) : HasAsked(n, u, f)

\* A version of the document of u that names nobody else.
Honest(n, u, d) ==
    /\ AllHaveAsked(n, u, d.friends)
    /\ \A x \in d.notificationArray : HasAsked(n, u, x.userFriend)

\* A write that device u may have in its queue.
HonestWrite(n, u, w) ==
    IF w.field = "friends" THEN w.to = u /\ AllHaveAsked(n, u, w.value)
                           ELSE w.value.userFriend = u

HonestAcceptance(n, a) ==
    HasAsked(n, a.by, a.friend) /\ AllHaveAsked(n, a.by, a.friends)

DocumentsHonest ==
    \A u \in User : /\ Honest(doc[u].notificationArray, u, doc[u])
                    /\ Honest(doc[u].notificationArray, u, received[u])

HostsHonest ==
    \A u \in User : hostUser[u] # nil =>
        Honest(doc[u].notificationArray, u, hostUser[u])

QueuesHonest ==
    \A u \in User : \A i \in DOMAIN queue[u] :
        HonestWrite(doc[u].notificationArray, u, queue[u][i])

AcceptancesHonest ==
    \A a \in asking : HonestAcceptance(doc[a.by].notificationArray, a)

FriendsInv ==
    TypeOK /\ DocumentsHonest /\ HostsHonest /\ QueuesHonest /\ AcceptancesHonest

-----------------------------------------------------------------------------
\* More requests do not make a document, a write or an acceptance dishonest.
LEMMA MoreRequests ==
    ASSUME NEW n, NEW m, n \subseteq m, NEW u, NEW d
    PROVE  /\ Honest(n, u, d) => Honest(m, u, d)
           /\ HonestWrite(n, u, d) => HonestWrite(m, u, d)
           /\ HonestAcceptance(n, d) => HonestAcceptance(m, d)
BY DEF Honest, HonestWrite, HonestAcceptance, AllHaveAsked, HasAsked

\* The two kinds of writes are told apart by their field.
LEMMA WriteKinds ==
    ASSUME NEW w \in Union \cup Replace
    PROVE  /\ w.to \in User
           /\ w.field = "friends" => w \in Replace /\ w.value \in FriendList
           /\ w.field # "friends" => w \in Union /\ w.value \in Notification
BY DEF Union, Replace

\* A write leaves a document a document, and takes no request away.
LEMMA WrittenDocument ==
    ASSUME NEW d \in UserDocument, NEW w \in Union \cup Replace
    PROVE  /\ Written(d, w) \in UserDocument
           /\ d.notificationArray \subseteq Written(d, w).notificationArray
           /\ w.field = "friends" =>
                 /\ Written(d, w).friends = w.value
                 /\ Written(d, w).notificationArray = d.notificationArray
           /\ w.field # "friends" =>
                 /\ Written(d, w).friends = d.friends
                 /\ Written(d, w).notificationArray = d.notificationArray \cup {w.value}
BY WriteKinds DEF Written, UserDocument

\* The last of a device's writes of one kind is one of them.
LEMMA LastWaiting ==
    ASSUME TypeOK, NEW u \in User, NEW S \in SUBSET DOMAIN queue[u], S # {}
    PROVE  Max(S) \in S
<1>1. queue[u] \in Seq(Union \cup Replace)
  BY DEF TypeOK
<1>2. DOMAIN queue[u] = 1..Len(queue[u]) /\ Len(queue[u]) \in Nat
  BY <1>1, LenProperties
<1>. DEFINE R == {k \in Nat : \E i \in S : k = Len(queue[u]) - i}
<1>3. R \in SUBSET Nat /\ R # {}
  <2>1. PICK i \in S : TRUE
    OBVIOUS
  <2>2. Len(queue[u]) - i \in Nat
    BY <1>2
  <2>. QED
    BY <2>2
<1>4. PICK k \in R : \A j \in R : ~ (<<j, k>> \in OpToRel(<, Nat))
  BY <1>3, NatLessThanWellFounded, WFMin
<1>5. PICK i \in S : k = Len(queue[u]) - i
  OBVIOUS
<1>6. ASSUME NEW j \in S PROVE i >= j
  <2>1. i \in Nat /\ j \in Nat /\ Len(queue[u]) - j \in R
    BY <1>2
  <2>2. ~ (Len(queue[u]) - j < k)
    BY <1>3, <1>4, <2>1 DEF OpToRel
  <2>. QED
    BY <1>2, <1>5, <2>1, <2>2
<1>. QED
  BY <1>6 DEF Max

\* What the profile reads is a document, and honest: the requests of the own
\* queue are requests to oneself.
LEMMA LocalHonest ==
    ASSUME FriendsInv, NEW u \in User
    PROVE  Local(u) \in UserDocument /\ Honest(doc[u].notificationArray, u, Local(u))
<1>. DEFINE replaced == Waiting(u, u, "friends")
            unions == Waiting(u, u, "notificationArray")
            sent == {queue[u][i].value : i \in unions}
            friends == IF replaced = {} THEN received[u].friends
                       ELSE queue[u][Max(replaced)].value
            n == doc[u].notificationArray
<1>1. queue[u] \in Seq(Union \cup Replace) /\ received[u] \in UserDocument
  BY DEF FriendsInv, TypeOK
<1>2. \A i \in DOMAIN queue[u] : queue[u][i] \in Union \cup Replace
  BY <1>1, LenProperties, ElementOfSeq
<1>3. \A i \in unions : /\ queue[u][i].value \in Notification
                       /\ queue[u][i].value.userFriend = u
  <2>. SUFFICES ASSUME NEW i \in unions
                PROVE  /\ queue[u][i].value \in Notification
                       /\ queue[u][i].value.userFriend = u
    OBVIOUS
  <2>1. i \in DOMAIN queue[u] /\ queue[u][i].field = "notificationArray"
    BY DEF Waiting
  <2>2. HonestWrite(n, u, queue[u][i])
    BY <2>1 DEF FriendsInv, QueuesHonest
  <2>. QED
    BY <1>2, <2>1, <2>2, WriteKinds DEF HonestWrite
<1>4. friends \in FriendList /\ AllHaveAsked(n, u, friends)
  <2>1. CASE replaced = {}
    BY <1>1, <2>1 DEF FriendsInv, DocumentsHonest, Honest, UserDocument
  <2>2. CASE replaced # {}
    <3>1. Max(replaced) \in replaced
      BY <2>2, LastWaiting DEF Waiting, FriendsInv
    <3>. DEFINE i == Max(replaced)
    <3>2. i \in DOMAIN queue[u] /\ queue[u][i].field = "friends"
      BY <3>1 DEF Waiting
    <3>3. HonestWrite(n, u, queue[u][i])
      BY <3>2 DEF FriendsInv, QueuesHonest
    <3>4. queue[u][i].value \in FriendList /\ AllHaveAsked(n, u, queue[u][i].value)
      BY <1>2, <3>2, <3>3, WriteKinds DEF HonestWrite
    <3>. QED
      BY <2>2, <3>4
  <2>. QED
    BY <2>1, <2>2
<1>5. /\ received[u].notificationArray \cup sent \in SUBSET Notification
      /\ \A x \in received[u].notificationArray \cup sent : HasAsked(n, u, x.userFriend)
  BY <1>1, <1>3 DEF FriendsInv, DocumentsHonest, Honest, HasAsked, UserDocument
<1>6. Local(u) = [notificationArray |-> received[u].notificationArray \cup sent,
                  friends |-> friends]
  BY DEF Local
<1>. HIDE DEF friends, sent, n
<1>7. Local(u) \in UserDocument /\ Honest(n, u, Local(u))
  BY <1>4, <1>5, <1>6 DEF UserDocument, Honest
<1>. QED
  BY <1>7 DEF n

-----------------------------------------------------------------------------
\* Documents of new users satisfy the invariant.
LEMMA FriendsInit == Init => FriendsInv
<1>. SUFFICES ASSUME Init PROVE FriendsInv
  OBVIOUS
<1>1. ASSUME NEW u \in User
      PROVE  /\ doc[u].notificationArray = {}
             /\ doc[u].friends = nil \/ doc[u].friends = <<>>
             /\ received[u] = doc[u] /\ queue[u] = <<>> /\ hostUser[u] = nil
  BY DEF Init
<1>2. <<>> \in Seq(User) /\ <<>> \in Seq(Union \cup Replace)
  BY EmptySeq
<1>3. TypeOK
  BY <1>2 DEF Init, TypeOK, UserDocument, FriendList
<1>4. Listed(nil) = {} /\ Listed(<<>>) = {}
  BY DEF Listed, ToSet
<1>5. DocumentsHonest
  <2>. SUFFICES ASSUME NEW u \in User
                PROVE  /\ Honest(doc[u].notificationArray, u, doc[u])
                       /\ Honest(doc[u].notificationArray, u, received[u])
    BY DEF DocumentsHonest
  <2>1. doc[u].notificationArray = {} /\ Listed(doc[u].friends) = {}
    BY <1>1, <1>4
  <2>. QED
    BY <1>1, <2>1 DEF Honest, AllHaveAsked
<1>6. HostsHonest /\ AcceptancesHonest
  BY <1>1 DEF HostsHonest, AcceptancesHonest, Init
<1>7. QueuesHonest
  BY <1>1, EmptySeq DEF QueuesHonest
<1>. QED
  BY <1>3, <1>5, <1>6, <1>7 DEF FriendsInv

-----------------------------------------------------------------------------
\* A write that u may make is put at the end of its queue.
LEMMA Queued ==
    ASSUME FriendsInv, NEW u \in User, NEW w \in Union \cup Replace,
           HonestWrite(doc[u].notificationArray, u, w), UNCHANGED doc,
           queue' = [queue EXCEPT ![u] = Append(@, w)]
    PROVE  queue' \in [User -> Seq(Union \cup Replace)] /\ QueuesHonest'
<1>1. queue \in [User -> Seq(Union \cup Replace)]
  BY DEF FriendsInv, TypeOK
<1>2. queue'[u] = Append(queue[u], w) /\ \A v \in User \ {u} : queue'[v] = queue[v]
  BY <1>1
<1>3. /\ Append(queue[u], w) \in Seq(Union \cup Replace)
      /\ Len(Append(queue[u], w)) = Len(queue[u]) + 1
      /\ \A i \in 1..Len(queue[u]) : Append(queue[u], w)[i] = queue[u][i]
      /\ Append(queue[u], w)[Len(queue[u]) + 1] = w
  BY <1>1, AppendProperties
<1>4. /\ DOMAIN queue[u] = 1..Len(queue[u]) /\ Len(queue[u]) \in Nat
      /\ DOMAIN queue'[u] = 1..(Len(queue[u]) + 1)
  BY <1>1, <1>2, <1>3, LenProperties
<1>5. ASSUME NEW v \in User, NEW i \in DOMAIN queue'[v]
      PROVE  HonestWrite(doc[v].notificationArray, v, queue'[v][i])
  <2>1. CASE v # u
    BY <1>2, <2>1 DEF FriendsInv, QueuesHonest
  <2>2. CASE v = u /\ i = Len(queue[u]) + 1
    BY <1>2, <1>3, <2>2
  <2>3. CASE v = u /\ i # Len(queue[u]) + 1
    <3>1. i \in DOMAIN queue[u] /\ queue'[u][i] = queue[u][i]
      BY <1>2, <1>3, <1>4, <2>3
    <3>. QED
      BY <2>3, <3>1 DEF FriendsInv, QueuesHonest
  <2>. QED
    BY <2>1, <2>2, <2>3
<1>. QED
  BY <1>1, <1>3, <1>5 DEF QueuesHonest

\* The oldest write of u leaves its queue.
LEMMA Dequeued ==
    ASSUME FriendsInv, NEW u \in User, queue[u] # <<>>,
           queue' = [queue EXCEPT ![u] = Tail(@)],
           \A v \in User : doc[v].notificationArray \subseteq doc'[v].notificationArray
    PROVE  queue' \in [User -> Seq(Union \cup Replace)] /\ QueuesHonest'
<1>1. queue \in [User -> Seq(Union \cup Replace)]
  BY DEF FriendsInv, TypeOK
<1>2. queue'[u] = Tail(queue[u]) /\ \A v \in User \ {u} : queue'[v] = queue[v]
  BY <1>1
<1>3. /\ Tail(queue[u]) \in Seq(Union \cup Replace)
      /\ Len(Tail(queue[u])) = Len(queue[u]) - 1
      /\ \A i \in 1..Len(Tail(queue[u])) : Tail(queue[u])[i] = queue[u][i + 1]
  BY <1>1, HeadTailProperties
<1>4. /\ DOMAIN queue[u] = 1..Len(queue[u]) /\ Len(queue[u]) \in Nat
      /\ DOMAIN queue'[u] = 1..Len(Tail(queue[u]))
  BY <1>1, <1>2, <1>3, LenProperties
<1>5. ASSUME NEW v \in User, NEW i \in DOMAIN queue'[v]
      PROVE  HonestWrite(doc'[v].notificationArray, v, queue'[v][i])
  <2>1. PICK j \in DOMAIN queue[v] : queue'[v][i] = queue[v][j]
    <3>1. CASE v # u
      BY <1>2, <3>1
    <3>2. CASE v = u
      <4>1. i + 1 \in DOMAIN queue[u] /\ queue'[u][i] = queue[u][i + 1]
        BY <1>2, <1>3, <1>4, <3>2
      <4>. QED
        BY <3>2, <4>1
    <3>. QED
      BY <3>1, <3>2
  <2>2. HonestWrite(doc[v].notificationArray, v, queue[v][j])
    BY DEF FriendsInv, QueuesHonest
  <2>. QED
    BY <2>1, <2>2, MoreRequests
<1>. QED
  BY <1>1, <1>3, <1>5 DEF QueuesHonest

\* A document stays honest when a write of the right user is applied to it.
LEMMA WrittenHonest ==
    ASSUME NEW n, NEW m, n \subseteq m, NEW u, NEW d \in UserDocument,
           NEW w \in Union \cup Replace, Honest(n, u, d),
           w.field = "friends" => AllHaveAsked(n, u, w.value),
           w.field # "friends" => w.value \in m \/ w.value.userFriend = u
    PROVE  Honest(m, u, Written(d, w))
<1>1. Honest(m, u, d)
  BY MoreRequests
<1>2. CASE w.field = "friends"
  <2>1. AllHaveAsked(m, u, w.value)
    BY <1>2 DEF AllHaveAsked, HasAsked
  <2>. QED
    BY <1>1, <1>2, <2>1, WrittenDocument DEF Honest
<1>3. CASE w.field # "friends"
  <2>1. HasAsked(m, u, w.value.userFriend)
    BY <1>3 DEF HasAsked
  <2>. QED
    BY <1>1, <1>3, <2>1, WrittenDocument DEF Honest
<1>. QED
  BY <1>2, <1>3

\* The server applies a write of u: documents stay honest and lose no request.
LEMMA ApplyFacts ==
    ASSUME FriendsInv, NEW u \in User, Apply(u)
    PROVE  /\ doc' \in [User -> UserDocument]
           /\ \A v \in User :
                 /\ doc[v].notificationArray \subseteq doc'[v].notificationArray
                 /\ Honest(doc'[v].notificationArray, v, doc'[v])
<1>. DEFINE w == queue[u][ahead[u] + 1]
<1>1. /\ doc \in [User -> UserDocument] /\ queue[u] \in Seq(Union \cup Replace)
      /\ ahead[u] \in Nat /\ ahead[u] < Len(queue[u])
  BY DEF FriendsInv, TypeOK, Apply
<1>2. w \in Union \cup Replace /\ ahead[u] + 1 \in DOMAIN queue[u]
  BY <1>1, ElementOfSeq, LenProperties
<1>3. HonestWrite(doc[u].notificationArray, u, w)
  BY <1>2 DEF FriendsInv, QueuesHonest
<1>4. doc' = [doc EXCEPT ![w.to] = Written(@, w)] /\ w.to \in User
  BY <1>2, WriteKinds DEF Apply
<1>. HIDE DEF w
<1>5. Written(doc[w.to], w) \in UserDocument
  BY <1>1, <1>2, <1>4, WrittenDocument
<1>6. doc' \in [User -> UserDocument]
  BY <1>1, <1>4, <1>5
<1>7. ASSUME NEW v \in User
      PROVE  /\ doc[v].notificationArray \subseteq doc'[v].notificationArray
             /\ Honest(doc'[v].notificationArray, v, doc'[v])
  <2>1. Honest(doc[v].notificationArray, v, doc[v])
    BY DEF FriendsInv, DocumentsHonest
  <2>2. CASE v # w.to
    BY <1>1, <1>4, <2>1, <2>2
  <2>3. CASE v = w.to
    <3>1. doc'[v] = Written(doc[v], w)
      BY <1>1, <1>4, <2>3
    <3>2. doc[v].notificationArray \subseteq doc'[v].notificationArray
      BY <1>1, <1>2, <3>1, WrittenDocument
    <3>3. w.field = "friends" => AllHaveAsked(doc[v].notificationArray, v, w.value)
      BY <1>3, <2>3 DEF HonestWrite
    <3>4. w.field # "friends" => w.value \in doc'[v].notificationArray
      BY <1>1, <1>2, <3>1, WrittenDocument
    <3>5. Honest(doc'[v].notificationArray, v, Written(doc[v], w))
      BY <1>1, <1>2, <2>1, <3>2, <3>3, <3>4, WrittenHonest
    <3>. QED
      BY <3>1, <3>2, <3>5
  <2>. QED
    BY <2>2, <2>3
<1>. QED
  BY <1>2, <1>3, <1>6, <1>7 DEF w

-----------------------------------------------------------------------------
\* While no document changes, only what a step writes has to be looked at.
LEMMA DocumentsUnchanged ==
    ASSUME FriendsInv, UNCHANGED doc
    PROVE  /\ UNCHANGED received => DocumentsHonest'
           /\ UNCHANGED hostUser => HostsHonest'
           /\ UNCHANGED queue => QueuesHonest'
           /\ asking' \subseteq asking => AcceptancesHonest'
BY DEF FriendsInv, DocumentsHonest, HostsHonest, QueuesHonest, AcceptancesHonest

\* Reading the own document preserves the invariant.
LEMMA RequestUserDataStep ==
    ASSUME FriendsInv, NEW u \in User, RequestUserData(u)
    PROVE  FriendsInv'
<1>1. Local(u) \in UserDocument /\ Honest(doc[u].notificationArray, u, Local(u))
  BY LocalHonest
<1>2. hostUser' = [hostUser EXCEPT ![u] = Local(u)]
      /\ UNCHANGED <<doc, received, queue, ahead, known, asking, date, requests>>
  BY DEF RequestUserData
<1>3. TypeOK'
  BY <1>1, <1>2 DEF FriendsInv, TypeOK
<1>4. HostsHonest'
  BY <1>1, <1>2 DEF FriendsInv, TypeOK, HostsHonest
<1>. QED
  BY <1>2, <1>3, <1>4, DocumentsUnchanged DEF FriendsInv

\* Making a request preserves the invariant: it carries the name of its maker.
LEMMA TapAddToFriendStep ==
    ASSUME FriendsInv, NEW u \in User, NEW v \in User, TapAddToFriend(u, v)
    PROVE  FriendsInv'
<1>. DEFINE w == [field |-> "notificationArray", to |-> v,
                  value |-> [userFriend |-> u, date |-> date']]
<1>1. /\ queue' = [queue EXCEPT ![u] = Append(@, w)]
      /\ date' \in {date, date + 1} /\ requests' = requests + 1
      /\ UNCHANGED <<doc, received, ahead, known, hostUser, asking>>
  BY DEF TapAddToFriend
<1>2. date' \in Nat /\ requests' \in Nat
  BY <1>1 DEF FriendsInv, TypeOK
<1>3. w \in Union /\ w.field # "friends" /\ w.value.userFriend = u
  BY <1>2 DEF Union, Notification
<1>. HIDE DEF w
<1>4. queue' \in [User -> Seq(Union \cup Replace)] /\ QueuesHonest'
  BY <1>1, <1>3, Queued DEF HonestWrite
<1>5. TypeOK'
  BY <1>1, <1>2, <1>4 DEF FriendsInv, TypeOK
<1>. QED
  BY <1>1, <1>4, <1>5, DocumentsUnchanged DEF FriendsInv

\* Accepting preserves the invariant: the notification is one of hostUser's.
LEMMA TapAcceptStep ==
    ASSUME FriendsInv, NEW u \in User, NEW x, TapAccept(u, x)
    PROVE  FriendsInv'
<1>. DEFINE a == [by |-> u, friend |-> x.userFriend, friends |-> hostUser[u].friends]
<1>1. /\ hostUser[u] # nil /\ x \in hostUser[u].notificationArray
      /\ asking' = asking \cup {a}
      /\ UNCHANGED <<doc, received, queue, ahead, known, hostUser, date, requests>>
  BY DEF TapAccept
<1>2. hostUser[u] \in UserDocument
  BY <1>1 DEF FriendsInv, TypeOK
<1>3. x.userFriend \in User /\ hostUser[u].friends \in FriendList
  BY <1>1, <1>2 DEF UserDocument, Notification
<1>4. a \in Acceptance /\ a.by = u
  BY <1>3 DEF Acceptance
<1>5. HonestAcceptance(doc[u].notificationArray, a)
  BY <1>1 DEF FriendsInv, HostsHonest, Honest, HonestAcceptance
<1>. HIDE DEF a
<1>6. TypeOK'
  BY <1>1, <1>4 DEF FriendsInv, TypeOK
<1>7. AcceptancesHonest'
  BY <1>1, <1>4, <1>5 DEF FriendsInv, AcceptancesHonest
<1>. QED
  BY <1>1, <1>6, <1>7, DocumentsUnchanged DEF FriendsInv

\* The friends of a list with one more are those of the list and the new one.
LEMMA OneMoreFriend ==
    ASSUME NEW friends \in FriendList, NEW f \in User
    PROVE  LET more == IF friends = nil THEN nil ELSE Append(friends, f)
           IN  more \in FriendList /\ Listed(more) \subseteq Listed(friends) \cup {f}
<1>1. CASE friends = nil
  BY <1>1 DEF FriendList
<1>2. CASE friends # nil
  <2>1. friends \in Seq(User)
    BY <1>2 DEF FriendList
  <2>2. Append(friends, f) \in Seq(User)
    BY <2>1
  <2>3. Append(friends, f) # nil
    BY <2>2, NilAssumption
  <2>4. ToSet(Append(friends, f)) \subseteq ToSet(friends) \cup {f}
    BY <2>1, AppendProperties, LenProperties DEF ToSet
  <2>. QED
    BY <1>2, <2>2, <2>3, <2>4 DEF FriendList, Listed
<1>. QED
  BY <1>1, <1>2

\* The answer to a look-up preserves the invariant, however old its list is.
LEMMA ReceiveFriendStep ==
    ASSUME FriendsInv, NEW a \in asking, ReceiveFriend(a)
    PROVE  FriendsInv'
<1>. DEFINE more == IF a.friends = nil THEN nil ELSE Append(a.friends, a.friend)
            w == [field |-> "friends", to |-> a.by, value |-> more]
            n == doc[a.by].notificationArray
<1>1. /\ queue' = [queue EXCEPT ![a.by] = Append(@, w)]
      /\ asking' = asking \ {a}
      /\ UNCHANGED <<doc, received, ahead, known, hostUser, date, requests>>
  BY DEF ReceiveFriend
<1>2. a.by \in User /\ a.friend \in User /\ a.friends \in FriendList
  BY DEF FriendsInv, TypeOK, Acceptance
<1>3. more \in FriendList /\ Listed(more) \subseteq Listed(a.friends) \cup {a.friend}
  BY <1>2, OneMoreFriend
<1>4. HasAsked(n, a.by, a.friend) /\ AllHaveAsked(n, a.by, a.friends)
  BY DEF FriendsInv, AcceptancesHonest, HonestAcceptance
<1>. HIDE DEF more
<1>5. AllHaveAsked(n, a.by, more)
  BY <1>3, <1>4 DEF AllHaveAsked
<1>6. w \in Replace /\ HonestWrite(n, a.by, w)
  BY <1>2, <1>3, <1>5 DEF Replace, HonestWrite
<1>. HIDE DEF w
<1>7. queue' \in [User -> Seq(Union \cup Replace)] /\ QueuesHonest'
  BY <1>1, <1>2, <1>6, Queued
<1>8. TypeOK'
  BY <1>1, <1>7 DEF FriendsInv, TypeOK
<1>. QED
  BY <1>1, <1>7, <1>8, DocumentsUnchanged DEF FriendsInv

\* Losing a look-up, the exit button and the end of the process preserve the invariant.
LEMMA ForgetStep ==
    ASSUME FriendsInv,
           (\E a \in asking : ReceiveNobody(a)) \/ (\E u \in User : Exit(u) \/ Relaunch(u))
    PROVE  FriendsInv'
<1>1. /\ UNCHANGED <<doc, received, queue, ahead, known, requests>>
      /\ asking' \subseteq asking
      /\ date' \in Nat
      /\ \A u \in User : hostUser'[u] = nil \/ hostUser'[u] = hostUser[u]
      /\ hostUser' \in [User -> UserDocument \cup {nil}]
  <2>1. date \in Nat /\ hostUser \in [User -> UserDocument \cup {nil}]
    BY DEF FriendsInv, TypeOK
  <2>2. CASE \E a \in asking : ReceiveNobody(a)
    BY <2>1, <2>2 DEF ReceiveNobody
  <2>3. CASE \E u \in User : Exit(u) \/ Relaunch(u)
    BY <2>1, <2>3 DEF Exit, Relaunch
  <2>. QED
    BY <2>2, <2>3
<1>2. TypeOK'
  BY <1>1 DEF FriendsInv, TypeOK
<1>3. HostsHonest'
  BY <1>1 DEF FriendsInv, HostsHonest
<1>. QED
  BY <1>1, <1>2, <1>3, DocumentsUnchanged DEF FriendsInv

-----------------------------------------------------------------------------
\* When requests are only added, hosts and acceptances stay honest.
LEMMA MoreRequestsEverywhere ==
    ASSUME FriendsInv, UNCHANGED <<hostUser, asking>>,
           \A v \in User : doc[v].notificationArray \subseteq doc'[v].notificationArray
    PROVE  HostsHonest' /\ AcceptancesHonest'
<1>1. HostsHonest'
  BY MoreRequests DEF FriendsInv, HostsHonest
<1>2. ASSUME NEW a \in asking
      PROVE  HonestAcceptance(doc'[a.by].notificationArray, a)
  <2>1. a.by \in User /\ HonestAcceptance(doc[a.by].notificationArray, a)
    BY DEF FriendsInv, TypeOK, Acceptance, AcceptancesHonest
  <2>. QED
    BY <2>1, MoreRequests
<1>. QED
  BY <1>1, <1>2 DEF AcceptancesHonest

\* An applied write preserves the invariant.
LEMMA ApplyStep ==
    ASSUME FriendsInv, NEW u \in User, Apply(u)
    PROVE  FriendsInv'
<1>1. /\ ahead' = [ahead EXCEPT ![u] = @ + 1]
      /\ UNCHANGED <<received, queue, known, hostUser, asking, date, requests>>
  BY DEF Apply
<1>2. /\ doc' \in [User -> UserDocument]
      /\ \A v \in User : doc[v].notificationArray \subseteq doc'[v].notificationArray
      /\ \A v \in User : Honest(doc'[v].notificationArray, v, doc'[v])
  BY ApplyFacts
<1>. HIDE DEF Apply
<1>3. TypeOK'
  <2>1. ahead' \in [User -> Nat]
    BY <1>1 DEF FriendsInv, TypeOK
  <2>. QED
    BY <1>1, <1>2, <2>1 DEF FriendsInv, TypeOK
<1>4. DocumentsHonest'
  BY <1>1, <1>2, MoreRequests DEF FriendsInv, DocumentsHonest
<1>5. QueuesHonest'
  BY <1>1, <1>2, MoreRequests DEF FriendsInv, QueuesHonest
<1>. QED
  BY <1>1, <1>2, <1>3, <1>4, <1>5, MoreRequestsEverywhere DEF FriendsInv

\* An acknowledged write preserves the invariant, whichever version it is put
\* on top of.
LEMMA AcknowledgeStep ==
    ASSUME FriendsInv, NEW u \in User, Acknowledge(u)
    PROVE  FriendsInv'
<1>. DEFINE w == Head(queue[u])
            n == doc[u].notificationArray
            new == IF w.to = u /\ known[u] = 0 THEN Written(received[u], w)
                   ELSE received[u]
<1>1. /\ queue[u] # <<>>
      /\ queue' = [queue EXCEPT ![u] = Tail(@)]
      /\ ahead[u] > 0 /\ ahead' = [ahead EXCEPT ![u] = @ - 1]
      /\ known' = [known EXCEPT ![u] = IF @ > 0 THEN @ - 1 ELSE 0]
      /\ received' = [received EXCEPT ![u] = new]
      /\ UNCHANGED <<doc, hostUser, asking, date, requests>>
  BY DEF Acknowledge
<1>2. queue[u] \in Seq(Union \cup Replace) /\ received \in [User -> UserDocument]
  BY DEF FriendsInv, TypeOK
<1>3. w \in Union \cup Replace /\ w = queue[u][1] /\ 1 \in DOMAIN queue[u]
  BY <1>1, <1>2, HeadTailProperties, EmptySeq, LenProperties
<1>4. HonestWrite(n, u, w)
  BY <1>3 DEF FriendsInv, QueuesHonest
<1>5. queue' \in [User -> Seq(Union \cup Replace)] /\ QueuesHonest'
  BY <1>1, Dequeued
<1>6. Honest(n, u, received[u])
  BY DEF FriendsInv, DocumentsHonest
<1>. HIDE DEF w
<1>7. Written(received[u], w) \in UserDocument /\ Honest(n, u, Written(received[u], w))
  BY <1>2, <1>3, <1>4, <1>6, WrittenHonest, WrittenDocument DEF HonestWrite
<1>8. /\ received' \in [User -> UserDocument]
      /\ \A v \in User : \/ received'[v] = received[v]
                         \/ v = u /\ received'[v] = Written(received[u], w)
  <2>1. new \in UserDocument /\ (new = received[u] \/ new = Written(received[u], w))
    BY <1>2, <1>7
  <2>. HIDE DEF new
  <2>. QED
    BY <1>1, <1>2, <2>1
<1>9. ahead' \in [User -> Nat] /\ known' \in [User -> Nat]
  BY <1>1 DEF FriendsInv, TypeOK
<1>10. TypeOK'
  BY <1>1, <1>5, <1>8, <1>9 DEF FriendsInv, TypeOK
<1>11. DocumentsHonest'
  BY <1>1, <1>7, <1>8 DEF FriendsInv, DocumentsHonest
<1>. QED
  BY <1>1, <1>5, <1>10, <1>11, DocumentsUnchanged DEF FriendsInv

\* A lost connection, a refused write, and news of the own document, preserve
\* the invariant.
LEMMA RefuseReceiveStep ==
    ASSUME FriendsInv, NEW u \in User, Disconnect(u) \/ Refuse(u) \/ Receive(u)
    PROVE  FriendsInv'
<1>1. CASE Disconnect(u)
  <2>1. TypeOK'
    BY <1>1 DEF Disconnect, FriendsInv, TypeOK
  <2>. QED
    BY <1>1, <2>1, DocumentsUnchanged DEF Disconnect, FriendsInv
<1>2. CASE Refuse(u)
  <2>1. queue' \in [User -> Seq(Union \cup Replace)] /\ QueuesHonest'
    BY <1>2, Dequeued DEF Refuse
  <2>2. TypeOK'
    BY <1>2, <2>1 DEF Refuse, FriendsInv, TypeOK
  <2>. QED
    BY <1>2, <2>1, <2>2, DocumentsUnchanged DEF Refuse, FriendsInv
<1>3. CASE Receive(u)
  <2>1. TypeOK'
    BY <1>3 DEF Receive, FriendsInv, TypeOK
  <2>2. DocumentsHonest'
    BY <1>3 DEF Receive, FriendsInv, TypeOK, DocumentsHonest
  <2>. QED
    BY <1>3, <2>1, <2>2, DocumentsUnchanged DEF Receive, FriendsInv
<1>. QED
  BY <1>1, <1>2, <1>3

\* Every step preserves the invariant.
LEMMA FriendsStep == FriendsInv /\ [Next]_vars => FriendsInv'
<1>. SUFFICES ASSUME FriendsInv, [Next]_vars PROVE FriendsInv'
  OBVIOUS
<1>1. CASE Firestore
  BY <1>1, ReceiveFriendStep, ForgetStep, ApplyStep, AcknowledgeStep,
     RefuseReceiveStep DEF Firestore
<1>2. CASE \E u \in User : Person(u)
  BY <1>2, RequestUserDataStep, TapAddToFriendStep, TapAcceptStep, ForgetStep
     DEF Person
<1>3. CASE UNCHANGED vars
  <2>1. TypeOK'
    BY <1>3 DEF vars, FriendsInv, TypeOK
  <2>. QED
    BY <1>3, <2>1, DocumentsUnchanged DEF vars, FriendsInv
<1>. QED
  BY <1>1, <1>2, <1>3 DEF Next

\* The invariant holds in every state of the system.
THEOREM FriendsInvariant == Spec => []FriendsInv
BY FriendsInit, FriendsStep, PTL DEF Spec

\* Type correctness for any users and faults.
THEOREM FriendsTypeOK == Spec => []TypeOK
<1>1. FriendsInv => TypeOK
  BY DEF FriendsInv
<1>. QED
  BY <1>1, FriendsInvariant, PTL

\* However stale the copy that was accepted from, and however often a write was
\* repeated, nobody becomes a friend of u without a request u has.
THEOREM OnlyAskersAreFriends == Spec => []FriendsHaveAsked
<1>1. FriendsInv => FriendsHaveAsked
  BY DEF FriendsInv, DocumentsHonest, Honest, AllHaveAsked, HasAsked, FriendsHaveAsked
<1>. QED
  BY <1>1, FriendsInvariant, PTL

\* No step of anybody takes away a request that has reached its receiver.
THEOREM RequestsAreKept == Spec => RequestsKept
<1>1. FriendsInv /\ [Next]_vars =>
        [\A u \in User :
           doc[u].notificationArray \subseteq doc'[u].notificationArray]_vars
  <2>. SUFFICES ASSUME FriendsInv, Next, NEW u \in User
                PROVE  doc[u].notificationArray \subseteq doc'[u].notificationArray
    OBVIOUS
  <2>1. CASE \E v \in User : Apply(v)
    BY <2>1, ApplyFacts
  <2>2. CASE UNCHANGED doc
    BY <2>2
  <2>3. (\E v \in User : Apply(v)) \/ UNCHANGED doc
    BY DEF Next, Person, Firestore, RequestUserData, TapAddToFriend, TapAccept,
           Exit, Relaunch, ReceiveFriend, ReceiveNobody, Acknowledge, Disconnect, Refuse,
           Receive
  <2>. QED
    BY <2>1, <2>2, <2>3
<1>. QED
  BY <1>1, FriendsInvariant, PTL DEF Spec, RequestsKept

-----------------------------------------------------------------------------
(***************************************************************************)
(* The list of competitions.                                               *)
(***************************************************************************)

\* Once there is a competition the collection is never empty again.
NeverEmptied == server = {} => cache = {}

\* A result without documents comes before all others, and before the list has
\* shown anything.
EmptyComesFirst ==
    \A i \in 1..Len(posted) : posted[i] = {} =>
        list = <<>> /\ \A j \in 1..i : posted[j] = {}

NothingCached ==
    cache = {} => list = <<>> /\ \A i \in 1..Len(posted) : posted[i] = {}

LastIsRaised == posted # <<>> => posted[Len(posted)] = raised

\* Results are finite, so that they can be put in order.
ResultsFinite ==
    /\ IsFiniteSet(server) /\ IsFiniteSet(cache)
    /\ \A i \in 1..Len(posted) : IsFiniteSet(posted[i])

ListInv ==
    /\ ListTypeOK /\ ResultsFinite
    /\ NeverEmptied /\ EmptyComesFirst /\ NothingCached /\ LastIsRaised
    /\ ListIsLastResult

\* Some documents in order, and no documents.
LEMMA SortedFacts ==
    /\ \A docs \in SUBSET Document : \A s :
          IsFiniteSet(docs) /\ s \in Sorted(Readable(docs)) => s \in Seq(Document)
    /\ <<>> \in Sorted(Readable({}))
<1>1. ASSUME NEW docs \in SUBSET Document, NEW s, IsFiniteSet(docs), s \in Sorted(Readable(docs))
      PROVE  s \in Seq(Document)
  <2>1. Readable(docs) \in SUBSET docs
    BY DEF Readable
  <2>2. Cardinality(Readable(docs)) \in Nat
    BY <1>1, <2>1, FS_Subset, FS_CardinalityType
  <2>3. s \in [1..Cardinality(Readable(docs)) -> Readable(docs)]
    BY <1>1 DEF Sorted, SetToSeqs
  <2>4. s \in [1..Cardinality(Readable(docs)) -> Document]
    BY <2>1, <2>3
  <2>. QED
    BY <2>2, <2>4, SeqDef
<1>2. <<>> \in Sorted(Readable({}))
  <2>1. Readable({}) = {}
    BY DEF Readable
  <2>2. Cardinality(Readable({})) = 0 /\ 1..0 = {}
    BY <2>1, FS_EmptySet
  <2>3. <<>> \in [1..0 -> {}] /\ DOMAIN <<>> = {}
    BY <2>2
  <2>4. <<>> \in SetToSeqs(Readable({}))
    BY <2>1, <2>2, <2>3 DEF SetToSeqs
  <2>. QED
    BY <2>3, <2>4 DEF Sorted
<1>. QED
  BY <1>1, <1>2

\* Nothing is in the list of a screen that is not loaded.
LEMMA ListStart == ListInit => ListInv
<1>. SUFFICES ASSUME ListInit PROVE ListInv
  OBVIOUS
<1>1. posted = <<>> /\ posted \in Seq(SUBSET Document) /\ list \in Seq(Document)
      /\ Len(posted) = 0 /\ 1..0 = {}
  BY EmptySeq DEF ListInit
<1>2. IsFiniteSet({})
  BY FS_EmptySet
<1>. QED
  BY <1>1, <1>2 DEF ListInit, ListInv, ListTypeOK, ResultsFinite, NeverEmptied,
                    EmptyComesFirst, NothingCached, LastIsRaised, ListIsLastResult

\* Another device makes a competition.
LEMMA CreateStep ==
    ASSUME ListInv, NEW i \in Id, NEW day \in 1..MaxDay, Create(i, day)
    PROVE  ListInv'
<1>1. PICK d : d = [id |-> i, date |-> day, results |-> 0]
  OBVIOUS
<1>2. d \in Document
  BY <1>1, ListAssumption DEF Document
<1>3. /\ server' = server \cup {d} /\ changes' = changes + 1
      /\ UNCHANGED <<cache, raised, posted, list, loading, relaunches>>
  BY <1>1 DEF Create, app
<1>4. IsFiniteSet(server')
  BY <1>3, FS_AddElement DEF ListInv, ResultsFinite
<1>5. ListTypeOK'
  BY <1>2, <1>3 DEF ListInv, ListTypeOK
<1>. QED
  BY <1>3, <1>4, <1>5 DEF ListInv, ResultsFinite, NeverEmptied, EmptyComesFirst,
                          NothingCached, LastIsRaised, ListIsLastResult

\* Another device changes one.
LEMMA ChangeStep ==
    ASSUME ListInv, NEW d \in server, Change(d)
    PROVE  ListInv'
<1>1. PICK new : new = [d EXCEPT !.results = @ + 1]
  OBVIOUS
<1>2. new \in Document
  <2>1. d \in Document
    BY DEF ListInv, ListTypeOK
  <2>. QED
    BY <1>1, <2>1 DEF Document
<1>3. /\ server' = (server \ {d}) \cup {new} /\ changes' = changes + 1
      /\ UNCHANGED <<cache, raised, posted, list, loading, relaunches>>
  BY <1>1 DEF Change, app
<1>4. IsFiniteSet(server')
  BY <1>3, FS_AddElement, FS_RemoveElement DEF ListInv, ResultsFinite
<1>5. ListTypeOK'
  BY <1>2, <1>3 DEF ListInv, ListTypeOK
<1>. QED
  BY <1>3, <1>4, <1>5 DEF ListInv, ResultsFinite, NeverEmptied, EmptyComesFirst,
                          NothingCached, LastIsRaised, ListIsLastResult

\* Firestore calls the listener with what is in the cache, or with a result.
LEMMA RaiseStep ==
    ASSUME ListInv, Raise
    PROVE  ListInv'
<1>1. PICK docs : /\ docs \in {cache, server} /\ raised' = docs /\ cache' = docs
                  /\ posted' = Append(posted, docs)
                  /\ UNCHANGED <<server, changes, list, loading, relaunches>>
  BY DEF Raise, RaiseInitial, RaiseChanges, app
<1>2. docs \in SUBSET Document /\ IsFiniteSet(docs) /\ posted \in Seq(SUBSET Document)
  BY <1>1 DEF ListInv, ListTypeOK, ResultsFinite
<1>3. /\ Len(posted) \in Nat /\ posted' \in Seq(SUBSET Document)
      /\ Len(posted') = Len(posted) + 1 /\ posted'[Len(posted) + 1] = docs
      /\ \A i \in 1..Len(posted) : posted'[i] = posted[i]
  BY <1>1, <1>2, AppendProperties
<1>4. posted' # <<>>
  BY <1>1, <1>2, AppendProperties
<1>5. docs = {} => cache = {}
  BY <1>1 DEF ListInv, NeverEmptied
<1>6. docs = {} => list = <<>> /\ \A i \in 1..Len(posted') : posted'[i] = {}
  BY <1>3, <1>5 DEF ListInv, NothingCached
<1>7. EmptyComesFirst'
  <2>. SUFFICES ASSUME NEW i \in 1..Len(posted'), posted'[i] = {}
       PROVE  list = <<>> /\ \A j \in 1..i : posted'[j] = {}
    BY <1>1 DEF EmptyComesFirst
  <2>1. CASE docs = {}
    BY <1>3, <1>6, <2>1
  <2>2. CASE docs # {}
    <3>1. i \in 1..Len(posted)
      BY <1>3, <2>2
    <3>. QED
      BY <1>3, <3>1 DEF ListInv, EmptyComesFirst
  <2>. QED
    BY <2>1, <2>2
<1>8. NothingCached' /\ NeverEmptied'
  BY <1>1, <1>6 DEF ListInv, NothingCached, NeverEmptied
<1>9. LastIsRaised' /\ ListIsLastResult'
  BY <1>1, <1>3, <1>4 DEF LastIsRaised, ListIsLastResult
<1>10. ListTypeOK'
  BY <1>1, <1>2, <1>3 DEF ListInv, ListTypeOK
<1>11. ResultsFinite'
  BY <1>1, <1>2, <1>3 DEF ListInv, ResultsFinite
<1>. QED
  BY <1>7, <1>8, <1>9, <1>10, <1>11 DEF ListInv

\* The closure is called in the main queue.
LEMMA SnapshotListenerStep ==
    ASSUME ListInv, SnapshotListener
    PROVE  ListInv'
<1>1. PICK docs : docs = Head(posted)
  OBVIOUS
<1>2. /\ posted # <<>> /\ posted' = Tail(posted)
      /\ UNCHANGED <<server, cache, raised, changes, relaunches>>
      /\ docs = {} => list' = list /\ loading' = loading
      /\ docs # {} => list' \in Sorted(Readable(docs)) /\ loading' = FALSE
  BY <1>1 DEF SnapshotListener
<1>3. posted \in Seq(SUBSET Document)
  BY DEF ListInv, ListTypeOK
<1>4. /\ Len(posted) \in Nat \ {0} /\ docs = posted[1]
      /\ posted' \in Seq(SUBSET Document) /\ Len(posted') = Len(posted) - 1
      /\ \A i \in 1..Len(posted') : posted'[i] = posted[i + 1]
      /\ posted' = <<>> => Len(posted) = 1
  <2>1. Len(posted) \in Nat \ {0} /\ docs = posted[1]
    BY <1>1, <1>2, <1>3, EmptySeq
  <2>2. /\ posted' \in Seq(SUBSET Document) /\ Len(posted') = Len(posted) - 1
        /\ \A i \in 1..Len(posted') : posted'[i] = posted[i + 1]
    BY <1>2, <1>3, HeadTailProperties
  <2>3. posted' = <<>> => Len(posted') = 0
    BY <2>2, EmptySeq
  <2>. QED
    BY <2>1, <2>2, <2>3
<1>5. docs \in SUBSET Document /\ IsFiniteSet(docs)
  <2>1. 1 \in 1..Len(posted)
    BY <1>4
  <2>2. posted \in [1..Len(posted) -> SUBSET Document]
    BY <1>3, LenProperties
  <2>3. IsFiniteSet(posted[1])
    BY <2>1 DEF ListInv, ResultsFinite
  <2>. QED
    BY <1>4, <2>1, <2>2, <2>3
<1>6. docs = {} => list = <<>>
  <2>1. 1 \in 1..Len(posted) /\ docs = posted[1]
    BY <1>4
  <2>. QED
    BY <2>1 DEF ListInv, EmptyComesFirst
<1>7. EmptyComesFirst'
  <2>. SUFFICES ASSUME NEW i \in 1..Len(posted'), posted'[i] = {}
       PROVE  list' = <<>> /\ \A j \in 1..i : posted'[j] = {}
    BY DEF EmptyComesFirst
  <2>1. i + 1 \in 1..Len(posted) /\ posted[i + 1] = {}
    BY <1>4
  <2>2. list = <<>> /\ \A j \in 1..(i + 1) : posted[j] = {}
    BY <2>1 DEF ListInv, EmptyComesFirst
  <2>3. docs = {}
    BY <1>4, <2>1, <2>2
  <2>. QED
    BY <1>2, <1>4, <2>2, <2>3
<1>8. NothingCached'
  <2>. SUFFICES ASSUME cache = {}
       PROVE  list' = <<>> /\ \A i \in 1..Len(posted') : posted'[i] = {}
    BY <1>2 DEF NothingCached
  <2>1. list = <<>> /\ \A i \in 1..Len(posted) : posted[i] = {}
    BY DEF ListInv, NothingCached
  <2>2. docs = {}
    BY <1>4, <2>1
  <2>. QED
    BY <1>2, <1>4, <2>1, <2>2
<1>9. LastIsRaised'
  <2>. SUFFICES ASSUME posted' # <<>> PROVE posted'[Len(posted')] = raised
    BY <1>2 DEF LastIsRaised
  <2>1. Len(posted') \in 1..Len(posted') /\ Len(posted') + 1 = Len(posted)
    BY <1>4, EmptySeq
  <2>2. posted[Len(posted)] = raised
    BY <1>2 DEF ListInv, LastIsRaised
  <2>. QED
    BY <1>4, <2>1, <2>2
<1>10. ListIsLastResult'
  <2>. SUFFICES ASSUME posted' = <<>> PROVE list' \in Sorted(Readable(raised))
    BY <1>2 DEF ListIsLastResult
  <2>1. docs = raised
    BY <1>2, <1>4 DEF ListInv, LastIsRaised
  <2>. QED
    BY <1>2, <1>6, <2>1, SortedFacts
<1>11. ListTypeOK'
  <2>1. list' \in Seq(Document)
    BY <1>2, <1>5, SortedFacts DEF ListInv, ListTypeOK
  <2>2. loading' \in BOOLEAN
    BY <1>2 DEF ListInv, ListTypeOK
  <2>. QED
    BY <1>2, <1>4, <2>1, <2>2 DEF ListInv, ListTypeOK
<1>12. ResultsFinite'
  <2>1. \A i \in 1..Len(posted') : i + 1 \in 1..Len(posted) /\ posted'[i] = posted[i + 1]
    BY <1>4
  <2>. QED
    BY <1>2, <2>1 DEF ListInv, ResultsFinite
<1>13. NeverEmptied'
  BY <1>2 DEF ListInv, NeverEmptied
<1>. QED
  BY <1>7, <1>8, <1>9, <1>10, <1>11, <1>12, <1>13 DEF ListInv

\* The process ends, and the screen is loaded again.
LEMMA RelaunchListStep ==
    ASSUME ListInv, RelaunchList
    PROVE  ListInv'
<1>1. posted' = <<>> /\ list' = <<>> /\ raised' = nothing /\ loading' = TRUE
      /\ relaunches' = relaunches + 1 /\ UNCHANGED <<server, cache, changes>>
  BY DEF RelaunchList
<1>2. posted' \in Seq(SUBSET Document) /\ list' \in Seq(Document)
      /\ Len(posted') = 0 /\ 1..0 = {}
  BY <1>1, EmptySeq
<1>. QED
  BY <1>1, <1>2 DEF ListInv, ListTypeOK, ResultsFinite, NeverEmptied,
                    EmptyComesFirst, NothingCached, LastIsRaised, ListIsLastResult

\* Every step keeps the invariant.
LEMMA ListStep == ListInv /\ [ListNext]_listVars => ListInv'
<1>. SUFFICES ASSUME ListInv, [ListNext]_listVars PROVE ListInv'
  OBVIOUS
<1>1. CASE UNCHANGED listVars
  BY <1>1 DEF listVars, ListInv, ListTypeOK, ResultsFinite, NeverEmptied,
              EmptyComesFirst, NothingCached, LastIsRaised, ListIsLastResult
<1>2. CASE ListNext
  BY <1>2, CreateStep, ChangeStep, RaiseStep, SnapshotListenerStep, RelaunchListStep
     DEF ListNext
<1>. QED
  BY <1>1, <1>2

\* The invariant holds in every state.
THEOREM ListInvariant == ListSpec => []ListInv
BY ListStart, ListStep, PTL DEF ListSpec

\* When nothing waits in the main queue the list is the last result, each
\* competition once and the newest first (addListenerToCompetitionCollection).
THEOREM ListShowsLastResult == ListSpec => []ListIsLastResult
<1>1. ListInv => ListIsLastResult
  BY DEF ListInv
<1>. QED
  BY <1>1, ListInvariant, PTL

\* The parts of the state keep their types.
THEOREM ListTyped == ListSpec => []ListTypeOK
<1>1. ListInv => ListTypeOK
  BY DEF ListInv
<1>. QED
  BY <1>1, ListInvariant, PTL

=============================================================================
