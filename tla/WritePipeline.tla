---------------------------- MODULE WritePipeline ----------------------------
(***************************************************************************)
(* How the Firestore SDK sends writes: SyncEngine, LocalStore with the     *)
(* LevelDB mutation queue, RemoteStore's write pipeline, WriteStream and   *)
(* GrpcStream of one device, and the server's end of the stream.           *)
(*                                                                         *)
(* All of the SDK's own steps run on one worker queue, so each is one      *)
(* action here.  Between them come the answers of the server, failures of  *)
(* the connection, tokens from Firebase Auth, timers, changes of the user  *)
(* and the end of the process, which only the mutation queue survives.     *)
(*                                                                         *)
(* Left out: stream tokens (the handshake does not send one), the network  *)
(* switch (the app does not use it), what a write does to documents.       *)
(***************************************************************************)
EXTENDS Naturals, Sequences, FiniteSets, FiniteSetsExt, SequencesExt

CONSTANTS
    User,              \* who signs in on the device
    MaxPendingWrites,  \* kMaxPendingWrites, which is 10
    MaxWrites,         \* bound: writes in a behaviour
    MaxFaults          \* bound: failures, restarts and changes of the user

ASSUME LimitsAssumption ==
    /\ MaxPendingWrites \in Nat \ {0}
    /\ MaxWrites \in Nat /\ MaxFaults \in Nat

VARIABLES
    queue,        \* user -> batches in LevelDB, by their ids
    nextBatchId,  \* LevelDbMutationQueue.next_batch_id_
    currentUser,  \* SyncEngine.current_user_
    callbacks,    \* SyncEngine.mutation_callbacks_
    pipeline,     \* RemoteStore.write_pipeline_
    stream,       \* Stream.state_, "Healthy" counted as "Open"
    asked,        \* requests for a token: for this close_count_, for older ones
    handshake,    \* WriteStream.handshake_complete_
    idle,         \* Stream.idleness_timer_ runs
    call,         \* the gRPC call: what the server, and the client, is to read
    faults,       \* how many failures there have been
    made, applied, accepted, refused, told   \* as in WriteQueue

sdk == <<queue, nextBatchId, currentUser, callbacks, pipeline>>
net == <<stream, asked, handshake, idle, call>>
ghosts == <<accepted, refused, told>>
vars == <<sdk, net, ghosts, faults, made, applied>>

Write == [by : User, n : Nat \ {0}]

\* A MutationBatch, or a completion handler: what it is found by, and the write
\* it was really made for.
Batch == [id : Nat, write : Write]

NoCall == [greeted |-> FALSE, requests |-> <<>>, responses |-> <<>>, failed |-> "no"]

TypeOK ==
    /\ queue \in [User -> Seq(Batch)]
    /\ nextBatchId \in Nat
    /\ currentUser \in User
    /\ callbacks \in [User -> SUBSET Batch]
    /\ pipeline \in Seq(Batch)
    /\ stream \in {"Initial", "Starting", "Open", "Error", "Backoff"}
    /\ asked \subseteq {"now", "before"}
    /\ handshake \in BOOLEAN
    /\ idle \in BOOLEAN
    /\ call \in [greeted : BOOLEAN, requests : Seq(Batch),
                 responses : Seq({"handshake", "result", "error"}),
                 failed : {"no", "posted", "next"}]
    /\ faults \in Nat /\ made \in Nat
    /\ applied \in Seq(Write)
    /\ accepted \subseteq Write /\ refused \subseteq Write
    /\ told \subseteq Write \X {"ok", "error"}

Init ==
    /\ queue = [u \in User |-> <<>>]
    /\ nextBatchId = 1
    /\ currentUser \in User
    /\ callbacks = [u \in User |-> {}]
    /\ pipeline = <<>>
    /\ stream = "Initial" /\ asked = {} /\ handshake = FALSE /\ idle = FALSE
    /\ call = NoCall
    /\ faults = 0 /\ made = 0 /\ applied = <<>>
    /\ accepted = {} /\ refused = {} /\ told = {}

-----------------------------------------------------------------------------
(***************************************************************************)
(* Parts of handlers.                                                      *)
(***************************************************************************)

Started(s) == s \in {"Starting", "Open", "Backoff"}

\* Wrong: the batch behind the last one is passed over.
Filled_Skips(p, q) ==
    LET later == {i \in DOMAIN q : p = <<>> \/ q[i].id > Last(p).id + 1}
    IN  IF later = {} THEN p
        ELSE p \o SubSeq(q, Min(later),
                         Min({Len(q), Min(later) + MaxPendingWrites - Len(p) - 1}))

\* FillWritePipeline: the batches after the last of the pipeline, while there
\* is room.
Filled(p, q) ==
    LET later == {i \in DOMAIN q : p = <<>> \/ q[i].id > Last(p).id}
    IN  IF later = {} THEN p
        ELSE p \o SubSeq(q, Min(later),
                         Min({Len(q), Min(later) + MaxPendingWrites - Len(p) - 1}))

\* Wrong: the batches behind it go, too.
Without_Later(q, id) == SubSeq(q, 1, (CHOOSE i \in DOMAIN q : q[i].id = id) - 1)

\* RemoveMutationBatch.
Without(q, id) == RemoveAt(q, CHOOSE i \in DOMAIN q : q[i].id = id)

\* Wrong: numbers start anew, whatever is left in the queues.
FirstFreeId_One(q) == 1

\* LoadNextBatchIdFromDb: above the ids of every user.
FirstFreeId(q) ==
    Max({0} \cup UNION {{q[u][i].id : i \in DOMAIN q[u]} : u \in User}) + 1

\* Wrong: a stream that has failed stays where it is.
StartIfNeeded_Failed(s, a, p) ==
    /\ pipeline' = p
    /\ stream' = IF Started(s) \/ p = <<>> \/ s = "Error" THEN s ELSE "Starting"
    /\ asked' = IF ~ Started(s) /\ stream' = "Starting" THEN a \cup {"now"} ELSE a

\* The stream starts when there is something to send (ShouldStartWriteStream,
\* StartWriteStream, Stream::Start); s is its state before, a its requests for
\* tokens.
StartIfNeeded(s, a, p) ==
    /\ pipeline' = p
    /\ stream' = IF Started(s) \/ p = <<>> THEN s
                 ELSE IF s = "Error" THEN "Backoff" ELSE "Starting"
    /\ asked' = IF ~ Started(s) /\ stream' = "Starting" THEN a \cup {"now"} ELSE a

\* ++close_count_ makes what has been asked a request of before.
Outdated(a) == IF a = {} THEN {} ELSE {"before"}

\* Stream::Close, OnWriteStreamClose and NotifyStreamClose, when the stream is
\* left in s and the pipeline becomes p.
Closed(s, p) ==
    /\ StartIfNeeded(s, Outdated(asked), p)
    /\ handshake' = FALSE
    /\ idle' = FALSE
    /\ call' = NoCall

\* The pipeline has been refilled, on a stream that may be open: what is new in
\* it is sent, which stops the idle timer; an empty one starts it.
Refilled(kept, p, c) ==
    LET new == IF handshake THEN SubSeq(p, Len(kept) + 1, Len(p)) ELSE <<>>
    IN  /\ StartIfNeeded(stream, asked, p)
        /\ idle' = IF p = <<>> THEN stream = "Open" ELSE idle /\ new = <<>>
        /\ call' = [c EXCEPT !.requests = @ \o new]
        /\ handshake' = handshake

\* Wrong: the handler stays registered.
NotifyUser_Kept(id, answer) ==
    LET found == {c \in callbacks[currentUser] : c.id = id}
    IN  /\ told' = told \cup {<<c.write, answer>> : c \in found}
        /\ callbacks' = callbacks

\* NotifyUser: the current user's handler for this id, if it has one.
NotifyUser(id, answer) ==
    LET found == {c \in callbacks[currentUser] : c.id = id}
    IN  /\ told' = told \cup {<<c.write, answer>> : c \in found}
        /\ callbacks' = [callbacks EXCEPT ![currentUser] = @ \ found]

\* RestartNetwork for user u, with the batches q: the stream is stopped if it
\* had been started, and the pipeline filled anew.
Restarted(u, q) ==
    /\ currentUser' = u
    /\ StartIfNeeded("Initial", IF Started(stream) THEN Outdated(asked) ELSE asked,
                     Filled(<<>>, q[u]))
    /\ handshake' = FALSE
    /\ idle' = FALSE
    /\ call' = NoCall

-----------------------------------------------------------------------------
(***************************************************************************)
(* The SDK.                                                                *)
(***************************************************************************)

\* SyncEngine::WriteMutations: the write is stored, then put into the pipeline.
WriteMutations ==
    LET batch == [id |-> nextBatchId, write |-> [by |-> currentUser, n |-> made + 1]]
        q == Append(queue[currentUser], batch)
    IN  /\ made < MaxWrites
        /\ made' = made + 1
        /\ queue' = [queue EXCEPT ![currentUser] = q]
        /\ nextBatchId' = nextBatchId + 1
        /\ callbacks' = [callbacks EXCEPT ![currentUser] = @ \cup {batch}]
        /\ Refilled(pipeline, Filled(pipeline, q), call)
        /\ UNCHANGED <<currentUser, ghosts, faults, applied>>

\* Both tokens are there: the call is made and the handshake sent.
\* A token asked for before the stream was closed is ignored.
ResumeStartWithCredentials ==
    \/ /\ "now" \in asked
       /\ asked' = asked \ {"now"}
       /\ stream' = "Open"
       /\ idle' = FALSE
       /\ call' = NoCall
       /\ UNCHANGED <<sdk, ghosts, handshake, faults, made, applied>>
    \/ /\ "before" \in asked
       /\ asked' = asked \ {"before"}
       /\ UNCHANGED <<sdk, ghosts, stream, handshake, idle, call, faults, made,
                      applied>>

\* Wrong: of what the pipeline holds only the first is sent.
HandshakeComplete_First ==
    /\ stream = "Open" /\ ~ handshake
    /\ call.responses # <<>>
    /\ handshake' = TRUE
    /\ idle' = FALSE
    /\ call' = [call EXCEPT !.requests = SubSeq(pipeline, 1, 1),
                            !.responses = Tail(@)]
    /\ UNCHANGED <<sdk, ghosts, stream, asked, faults, made, applied>>

\* OnWriteStreamHandshakeComplete: the whole pipeline is sent.
HandshakeComplete ==
    /\ stream = "Open" /\ ~ handshake
    /\ call.responses # <<>>
    /\ handshake' = TRUE
    /\ idle' = (idle /\ pipeline = <<>>)
    /\ call' = [call EXCEPT !.requests = pipeline, !.responses = Tail(@)]
    /\ UNCHANGED <<sdk, ghosts, stream, asked, faults, made, applied>>

\* OnWriteStreamMutationResult: the result is of the first write of the
\* pipeline.
MutationResult ==
    LET batch == Head(pipeline)
        q == Without(queue[currentUser], batch.id)
    IN  /\ handshake
        /\ call.responses # <<>> /\ Head(call.responses) = "result"
        /\ call.failed # "next"
        /\ pipeline # <<>>
        /\ NotifyUser(batch.id, "ok")
        /\ queue' = [queue EXCEPT ![currentUser] = q]
        /\ accepted' = accepted \cup {batch.write}
        /\ Refilled(Tail(pipeline), Filled(Tail(pipeline), q),
                    [call EXCEPT !.responses = Tail(@),
                                 !.failed = IF @ = "posted" THEN "next" ELSE @])
        /\ UNCHANGED <<nextBatchId, currentUser, refused, faults, made, applied>>

\* The first write of the pipeline is rejected, and the stream starts again
\* without backing off (OnWriteStreamClose, HandleWriteError,
\* HandleRejectedWrite).
RejectFirst ==
    LET batch == Head(pipeline)
        q == Without(queue[currentUser], batch.id)
    IN  /\ pipeline # <<>>
        /\ queue' = [queue EXCEPT ![currentUser] = q]
        /\ NotifyUser(batch.id, "error")
        /\ refused' = refused \cup {batch.write}
        /\ Closed("Initial", Filled(Tail(pipeline), q))
        /\ UNCHANGED <<nextBatchId, currentUser, accepted, faults, made, applied>>

\* The call has ended with a permanent error, all responses read before.
WriteError ==
    /\ handshake
    /\ call.responses # <<>> /\ Head(call.responses) = "error"
    /\ call.failed # "next"
    /\ RejectFirst

\* The server has ended the call, and a request cannot be sent any more.  This
\* is put on the worker queue, behind the one response that has been read.
RequestFails ==
    /\ call.failed = "no"
    /\ call.requests # <<>>
    /\ Len(call.responses) > 1 /\ Last(call.responses) = "error"
    /\ call' = [call EXCEPT !.failed = "posted"]
    /\ UNCHANGED <<sdk, ghosts, stream, asked, handshake, idle, faults, made, applied>>

\* Its turn comes before the next response is read, which FinishGrpcCall takes
\* off the worker queue: the stream ends with the error (OnOperationFailed).
OperationFailed ==
    /\ call.failed = "next"
    /\ RejectFirst

\* The call ends with an error that is not permanent, or, before the handshake,
\* with any; or there is no token.  The stream backs off while there are writes.
StreamError ==
    /\ faults < MaxFaults
    /\ stream = "Open" \/ "now" \in asked
    /\ faults' = faults + 1
    /\ Closed("Error", pipeline)
    /\ UNCHANGED <<queue, nextBatchId, currentUser, callbacks, ghosts, made, applied>>

\* The delay is over, and the stream starts.
BackoffElapsed ==
    /\ stream = "Backoff"
    /\ StartIfNeeded("Initial", asked, pipeline)
    /\ UNCHANGED <<queue, nextBatchId, currentUser, callbacks, ghosts, handshake, idle,
                   call, faults, made, applied>>

\* The idle timer stops the stream.
IdleTimeout ==
    /\ idle
    /\ Closed("Initial", pipeline)
    /\ UNCHANGED <<queue, nextBatchId, currentUser, callbacks, ghosts, faults, made, applied>>

\* The network is there again, or a different one.
ConnectivityChanged ==
    /\ faults < MaxFaults
    /\ faults' = faults + 1
    /\ Restarted(currentUser, queue)
    /\ UNCHANGED <<queue, nextBatchId, callbacks, ghosts, made, applied>>

\* SyncEngine::HandleCredentialChange, LocalStore::HandleUserChange: another
\* user signs in, or the same one has got a new token.
HandleCredentialChange(u) ==
    /\ faults < MaxFaults
    /\ faults' = faults + 1
    /\ nextBatchId' = IF u = currentUser THEN nextBatchId ELSE FirstFreeId(queue)
    /\ Restarted(u, queue)
    /\ UNCHANGED <<queue, callbacks, ghosts, made, applied>>

\* The process ends and is started again by the same user: of the SDK's state
\* the mutation queue is left.
Relaunch ==
    /\ faults < MaxFaults
    /\ faults' = faults + 1
    /\ nextBatchId' = FirstFreeId(queue)
    /\ callbacks' = [u \in User |-> {}]
    /\ currentUser' = currentUser
    /\ StartIfNeeded("Initial", {}, Filled(<<>>, queue[currentUser]))
    /\ handshake' = FALSE
    /\ idle' = FALSE
    /\ call' = NoCall
    /\ UNCHANGED <<queue, ghosts, made, applied>>

-----------------------------------------------------------------------------
(***************************************************************************)
(* The server.  It is done with a call before it greets the next one of    *)
(* the device, handles requests in their order, and none after an error.   *)
(***************************************************************************)

Serving ==
    /\ stream = "Open"
    /\ call.responses # <<>> => Last(call.responses) # "error"
    /\ UNCHANGED <<sdk, ghosts, stream, asked, handshake, idle, faults, made>>

Greet ==
    /\ Serving
    /\ ~ call.greeted
    /\ call' = [call EXCEPT !.greeted = TRUE, !.responses = <<"handshake">>]
    /\ UNCHANGED applied

Apply ==
    /\ Serving
    /\ call.requests # <<>>
    /\ applied' = Append(applied, Head(call.requests).write)
    /\ call' = [call EXCEPT !.requests = Tail(@), !.responses = Append(@, "result")]

Deny ==
    /\ Serving
    /\ call.requests # <<>>
    /\ call' = [call EXCEPT !.requests = Tail(@), !.responses = Append(@, "error")]
    /\ UNCHANGED applied

-----------------------------------------------------------------------------
Worker ==
    \/ ResumeStartWithCredentials \/ HandshakeComplete \/ MutationResult
    \/ WriteError \/ OperationFailed \/ BackoffElapsed

Server == Greet \/ Apply \/ Deny

Next ==
    \/ WriteMutations \/ Worker \/ Server
    \/ RequestFails \/ IdleTimeout
    \/ StreamError \/ ConnectivityChanged \/ Relaunch
    \/ \E u \in User : HandleCredentialChange(u)

Spec == Init /\ [][Next]_vars

\* The worker queue runs what is on it, and the server answers.
FairSpec == Spec /\ WF_vars(Worker) /\ WF_vars(Server)

-----------------------------------------------------------------------------
(***************************************************************************)
(* Properties.                                                             *)
(***************************************************************************)

WritesOf(batches) == [i \in DOMAIN batches |-> batches[i].write]

\* Results the server has sent and the client has not handled.
Results == {i \in DOMAIN call.responses : call.responses[i] = "result"}

Abstract == INSTANCE WriteQueue WITH
    queue <- [u \in User |-> WritesOf(queue[u])],
    ahead <- [u \in User |-> IF u = currentUser THEN Cardinality(Results) ELSE 0],
    awaited <- UNION {{c.write : c \in callbacks[u]} : u \in User}

\* The pipeline behaves as the queue the app relies on: restarts, reused ids,
\* lost answers and changes of the user included.
ImplementsWriteQueue == Abstract!Spec

\* The last word of each user on the server is in the order of the writes,
\* though they are sent again after every lost connection (WriteQueue).
LastsInOrder == Abstract!LastsInOrder

\* Every write is in the mutation queue, taken or refused, whatever became of the
\* stream, the user and the process meanwhile (WriteQueue).
NothingLost == Abstract!NothingLost

\* A completion handler hears what became of its own write, though it is only
\* known by an id that may be used again (WriteQueue, NotifyUser).
ToldTheTruth == Abstract!ToldTheTruth

\* The pipeline holds the first batches of the current user's queue, as many as
\* it may: no change of the user, result or error leaves one out or one of
\* another user in (FillWritePipeline).
PipelineIsFirstOfQueue ==
    pipeline = SubSeq(queue[currentUser], 1,
                      Min({MaxPendingWrites, Len(queue[currentUser])}))

\* Once the handshake is complete each batch of the pipeline has been sent once:
\* the results not yet read are of the first, then comes the one refused, and
\* the rest is on its way (OnWriteStreamMutationResult takes the first).
ResultsMatchPipeline ==
    handshake =>
        /\ Len(pipeline) = Len(call.responses) + Len(call.requests)
        /\ \A i \in DOMAIN call.requests :
              call.requests[i] = pipeline[Len(call.responses) + i]

\* A completion handler is registered under the id of its own write, though ids
\* are used again after a restart and after a change of the user.
HandlersMatchQueue ==
    \A u \in User : \A c \in callbacks[u] :
        \E i \in DOMAIN queue[u] : queue[u][i] = c

\* A write leaves the queue in the end, if its user stays.
WritesAreAnswered ==
    \A u \in User : \A n \in 1..MaxWrites :
        (\E i \in DOMAIN queue[u] : queue[u][i].write.n = n)
            ~> \/ \A i \in DOMAIN queue[u] : queue[u][i].write.n # n
               \/ currentUser # u

=============================================================================
