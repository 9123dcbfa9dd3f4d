------------------------------- MODULE Friends -------------------------------
(***************************************************************************)
(* Requests for friendship: the documents of the collection "users", the   *)
(* profile's copy of its own (ProfileViewController.hostUser), and the     *)
(* Database methods sendNotificationToAddToFriends and                     *)
(* acceptFriendRequesr.                                                    *)
(*                                                                         *)
(* Every user has one device.  The profile reads its document once, when   *)
(* it is loaded: the listener it then adds feeds a relay nobody observes   *)
(* (addObserverToUserDatabase is not called), so hostUser is never         *)
(* refreshed.  The screens in between (notifications, search, a friend)    *)
(* only hand hostUser on, and are left out.                                *)
(*                                                                         *)
(* Firestore: updateData puts a write into the device's queue, and what    *)
(* becomes of the queue is what WriteQueue says: it survives the process,  *)
(* is applied in order, ahead of the answers and from its beginning again  *)
(* after a lost connection; a write the server refuses is dropped.  Reads  *)
(* of the own document see the version received last with the queue laid   *)
(* over it.                                                                *)
(***************************************************************************)
EXTENDS Integers, Sequences, FiniteSets, SequencesExt

CONSTANTS
    User,          \* users, their devices and their documents
    Unlisted,      \* users whose document has no array of friends
    nil,           \* an absent optional
    MaxRequests,   \* bound: requests in a behaviour
    MaxDate,       \* bound: no request is made from this second on
    MaxQueue,      \* bound: writes waiting on a device
    MaxFriends,    \* bound: friends of one who accepts another
    Faults,        \* what Firestore may do, of "unanswered", "unread"
    Refusable      \* the fields of which the server may refuse an update

ASSUME UnlistedAssumption == Unlisted \subseteq User

ASSUME NilAssumption == nil \notin Seq(User)

ASSUME LimitsAssumption ==
    /\ MaxRequests \in Nat /\ MaxDate \in Nat
    /\ MaxQueue \in Nat \ {0} /\ MaxFriends \in Nat

VARIABLES
    doc,       \* user -> the document on the server
    received,  \* user -> the version of it the device has
    queue,     \* user -> writes of the device not yet acknowledged
    ahead,     \* user -> how many of them this connection has had applied
    known,     \* user -> how many of those are part of the version received
    hostUser,  \* user -> ProfileViewController.hostUser, nil until loaded
    asking,    \* acceptances that wait for the friend's docId
    date,      \* Date.now.description, which counts seconds
    requests   \* how many requests have been made

vars == <<doc, received, queue, ahead, known, hostUser, asking, date, requests>>

\* AddFriendNotification.  Firestore compares all of it: two requests of one
\* user within a second are the same element of the array.
Notification == [userFriend : User, date : Nat]

\* User.friends, an optional array of docIds.
FriendList == Seq(User) \cup {nil}

UserDocument == [notificationArray : SUBSET Notification, friends : FriendList]

\* The two kinds of updateData: an arrayUnion, and a field replaced.
Union == [field : {"notificationArray"}, to : User, value : Notification]
Replace == [field : {"friends"}, to : User, value : FriendList]

Acceptance == [by : User, friend : User, friends : FriendList]

TypeOK ==
    /\ doc \in [User -> UserDocument]
    /\ received \in [User -> UserDocument]
    /\ queue \in [User -> Seq(Union \cup Replace)]
    /\ ahead \in [User -> Nat] /\ known \in [User -> Nat]
    /\ hostUser \in [User -> UserDocument \cup {nil}]
    /\ asking \subseteq Acceptance
    /\ date \in Nat
    /\ requests \in Nat

Init ==
    /\ doc = [u \in User |->
                [notificationArray |-> {},
                 friends |-> IF u \in Unlisted THEN nil ELSE <<>>]]
    /\ received = doc
    /\ queue = [u \in User |-> <<>>]
    /\ ahead = [u \in User |-> 0] /\ known = [u \in User |-> 0]
    /\ hostUser = [u \in User |-> nil]
    /\ asking = {}
    /\ date = 0
    /\ requests = 0

-----------------------------------------------------------------------------
\* Wrong: the document is set, not updated, and loses its other fields.
Written_Set(d, w) ==
    IF w.field = "friends"
    THEN [notificationArray |-> {}, friends |-> w.value]
    ELSE [d EXCEPT !.notificationArray = @ \cup {w.value}]

\* What a write does to the document it is for.
Written(d, w) ==
    IF w.field = "friends"
    THEN [d EXCEPT !.friends = w.value]
    ELSE [d EXCEPT !.notificationArray = @ \cup {w.value}]

\* Writes of u for the document of v, the older first.
Waiting(u, v, field) ==
    {i \in DOMAIN queue[u] : queue[u][i].to = v /\ queue[u][i].field = field}

\* The own document as the device sees it.
Local(u) ==
    LET replaced == Waiting(u, u, "friends")
    IN  [notificationArray |->
            received[u].notificationArray
              \cup {queue[u][i].value : i \in Waiting(u, u, "notificationArray")},
         friends |->
            IF replaced = {} THEN received[u].friends
            ELSE queue[u][Max(replaced)].value]

-----------------------------------------------------------------------------
(***************************************************************************)
(* The person.                                                             *)
(***************************************************************************)

\* requestUserData: the profile gets its user, and shows it.
RequestUserData(u) ==
    /\ hostUser[u] = nil
    /\ hostUser' = [hostUser EXCEPT ![u] = Local(u)]
    /\ UNCHANGED <<doc, received, queue, ahead, known, asking, date, requests>>

\* tapAddToFriendButton for a user found by the search, oneself included.
TapAddToFriend(u, v) ==
    /\ hostUser[u] # nil
    /\ requests < MaxRequests /\ Len(queue[u]) < MaxQueue
    /\ date' \in {date, date + 1} /\ date' < MaxDate
    /\ queue' = [queue EXCEPT ![u] = Append(@,
          [field |-> "notificationArray", to |-> v,
           value |-> [userFriend |-> u, date |-> date']])]
    /\ requests' = requests + 1
    /\ UNCHANGED <<doc, received, ahead, known, hostUser, asking>>

\* tapAcceptButton on one of the notifications of hostUser: nothing is written
\* before the friend's document has been looked up.
TapAccept(u, notification) ==
    /\ hostUser[u] # nil
    /\ notification \in hostUser[u].notificationArray
    /\ hostUser[u].friends # nil => Len(hostUser[u].friends) < MaxFriends
    /\ asking' = asking \cup {[by |-> u, friend |-> notification.userFriend,
                               friends |-> hostUser[u].friends]}
    /\ UNCHANGED <<doc, received, queue, ahead, known, hostUser, date, requests>>

\* Wrong: the friend instead of the friends.
ReceiveFriend_Single(a) ==
    /\ Len(queue[a.by]) < MaxQueue
    /\ queue' = [queue EXCEPT ![a.by] = Append(@,
          [field |-> "friends", to |-> a.by, value |-> a.friend])]
    /\ asking' = asking \ {a}
    /\ UNCHANGED <<doc, received, ahead, known, hostUser, date, requests>>

\* Wrong: the one who accepts is put into the document of the one who asked.
ReceiveFriend_Other(a) ==
    /\ Len(queue[a.by]) < MaxQueue
    /\ queue' = [queue EXCEPT ![a.by] = Append(@,
          [field |-> "friends", to |-> a.friend,
           value |-> IF a.friends = nil THEN nil ELSE Append(a.friends, a.by)])]
    /\ asking' = asking \ {a}
    /\ UNCHANGED <<doc, received, ahead, known, hostUser, date, requests>>

\* The closure of acceptFriendRequesr: the friend is appended to the array that
\* hostUser had; an absent array stays absent.
ReceiveFriend(a) ==
    /\ Len(queue[a.by]) < MaxQueue
    /\ queue' = [queue EXCEPT ![a.by] = Append(@,
          [field |-> "friends", to |-> a.by,
           value |-> IF a.friends = nil THEN nil ELSE Append(a.friends, a.friend)])]
    /\ asking' = asking \ {a}
    /\ UNCHANGED <<doc, received, ahead, known, hostUser, date, requests>>

\* The look-up fails or finds nobody: the closure is never called.
ReceiveNobody(a) ==
    /\ "unread" \in Faults
    /\ asking' = asking \ {a}
    /\ UNCHANGED <<doc, received, queue, ahead, known, hostUser, date, requests>>

\* The exit button, and u signs in again, which takes longer than a second: the
\* profile is loaded anew, while look-ups go on with what hostUser was.
Exit(u) ==
    /\ hostUser[u] # nil
    /\ date' = IF date < MaxDate THEN date + 1 ELSE date
    /\ hostUser' = [hostUser EXCEPT ![u] = nil]
    /\ UNCHANGED <<doc, received, queue, ahead, known, asking, requests>>

\* Wrong: the queue is kept in memory only.
Relaunch_Forgets(u) ==
    /\ hostUser[u] # nil
    /\ date' = IF date < MaxDate THEN date + 1 ELSE date
    /\ hostUser' = [hostUser EXCEPT ![u] = nil]
    /\ asking' = {a \in asking : a.by # u}
    /\ queue' = [queue EXCEPT ![u] = <<>>]
    /\ ahead' = [ahead EXCEPT ![u] = 0] /\ known' = [known EXCEPT ![u] = 0]
    /\ UNCHANGED <<doc, received, requests>>

\* The process ends and the app is started again: look-ups are forgotten as well.
Relaunch(u) ==
    /\ hostUser[u] # nil
    /\ date' = IF date < MaxDate THEN date + 1 ELSE date
    /\ hostUser' = [hostUser EXCEPT ![u] = nil]
    /\ asking' = {a \in asking : a.by # u}
    /\ UNCHANGED <<doc, received, queue, ahead, known, requests>>

-----------------------------------------------------------------------------
(***************************************************************************)
(* Firestore.                                                              *)
(***************************************************************************)

\* The server applies the next write of u.
Apply(u) ==
    LET w == queue[u][ahead[u] + 1]
    IN  /\ ahead[u] < Len(queue[u])
        /\ doc' = [doc EXCEPT ![w.to] = Written(@, w)]
        /\ ahead' = [ahead EXCEPT ![u] = @ + 1]
        /\ UNCHANGED <<received, queue, known, hostUser, asking, date, requests>>

\* The answer: the write leaves the queue.  It becomes part of the version the
\* device has, unless that is the newer one (ApplyBatchResult).
Acknowledge(u) ==
    LET w == Head(queue[u])
    IN  /\ ahead[u] > 0 /\ queue[u] # <<>>
        /\ queue' = [queue EXCEPT ![u] = Tail(@)]
        /\ ahead' = [ahead EXCEPT ![u] = @ - 1]
        /\ known' = [known EXCEPT ![u] = IF @ > 0 THEN @ - 1 ELSE 0]
        /\ received' = [received EXCEPT ![u] =
              IF w.to = u /\ known[u] = 0 THEN Written(@, w) ELSE @]
        /\ UNCHANGED <<doc, hostUser, asking, date, requests>>

\* The connection is lost, and the answers with it.
Disconnect(u) ==
    /\ "unanswered" \in Faults
    /\ ahead' = [ahead EXCEPT ![u] = 0]
    /\ known' = [known EXCEPT ![u] = 0]
    /\ UNCHANGED <<doc, received, queue, hostUser, asking, date, requests>>

\* The server refuses a write, which ends the connection; the completion prints
\* the error.
Refuse(u) ==
    /\ queue[u] # <<>> /\ Head(queue[u]).field \in Refusable
    /\ queue' = [queue EXCEPT ![u] = Tail(@)]
    /\ ahead' = [ahead EXCEPT ![u] = 0]
    /\ known' = [known EXCEPT ![u] = 0]
    /\ UNCHANGED <<doc, received, hostUser, asking, date, requests>>

\* The device is told of its document.
Receive(u) ==
    /\ received[u] # doc[u] \/ known[u] # ahead[u]
    /\ received' = [received EXCEPT ![u] = doc[u]]
    /\ known' = [known EXCEPT ![u] = ahead[u]]
    /\ UNCHANGED <<doc, queue, ahead, hostUser, asking, date, requests>>

-----------------------------------------------------------------------------
Person(u) ==
    \/ RequestUserData(u)
    \/ \E v \in User : TapAddToFriend(u, v)
    \/ \E notification \in IF hostUser[u] = nil THEN {}
                           ELSE hostUser[u].notificationArray :
          TapAccept(u, notification)
    \/ Exit(u) \/ Relaunch(u)

Firestore ==
    \/ \E a \in asking : ReceiveFriend(a) \/ ReceiveNobody(a)
    \/ \E u \in User : Apply(u) \/ Acknowledge(u) \/ Disconnect(u) \/ Refuse(u) \/ Receive(u)

Next == Firestore \/ \E u \in User : Person(u)

Spec == Init /\ [][Next]_vars

\* The SDK sends what is queued, and now and then a connection lasts.
FairSpec == Spec /\ \A u \in User : SF_vars(Apply(u)) /\ SF_vars(Acknowledge(u))

-----------------------------------------------------------------------------
(***************************************************************************)
(* Properties.                                                             *)
(***************************************************************************)

Listed(friends) == IF friends = nil THEN {} ELSE ToSet(friends)

\* Whoever is among the friends of u has asked u: stale copies, late look-ups
\* and repeated writes never add anyone else (acceptFriendRequesr).  A request
\* to oneself can be accepted before the server has it.
FriendsHaveAsked ==
    \A u \in User : \A f \in Listed(doc[u].friends) \ {u} :
        \E x \in doc[u].notificationArray : x.userFriend = f

\* No write takes a request away that reached its receiver: the senders' union
\* and the receiver's update of another field do not undo each other.
RequestsKept ==
    [][\A u \in User :
          doc[u].notificationArray \subseteq doc'[u].notificationArray]_vars

\* A request that has been made reaches its receiver, though the sender's app
\* may be ended before it is sent (sendNotificationToAddToFriends).
RequestsArrive ==
    \A u, v \in User : \A t \in 0..MaxDate - 1 :
        LET x == [userFriend |-> u, date |-> t]
        IN  (\E i \in Waiting(u, v, "notificationArray") : queue[u][i].value = x)
                ~> x \in doc[v].notificationArray

\* Accepting a request leaves the friends accepted before.
FriendsKept ==
    [][\A u \in User :
          Listed(doc[u].friends) \subseteq Listed(doc'[u].friends)]_vars

=============================================================================
