----------------------------- MODULE WatchTarget -----------------------------
(***************************************************************************)
(* What a listener is told about its target: requests and answers of one   *)
(* watch stream, counted and put together by WatchChangeAggregator, and    *)
(* what a consistent snapshot does to the resume tokens (RemoteStore,      *)
(* LocalStore) and to the view (SyncEngine, View).                         *)
(*                                                                         *)
(* A target's document_changes_ are kept as the set of documents the view  *)
(* has once they are applied.  A resume token is the set of documents the  *)
(* server takes a client with it to have, or none: {} or {documents}.      *)
(*                                                                         *)
(* The server is external: it answers requests in order, gives a token     *)
(* with every snapshot, and tells the number of documents after CURRENT if *)
(* it forgot what was removed since the token.  It rejects no target.      *)
(*                                                                         *)
(* Targets are queries on a collection.  A listener on one document takes  *)
(* other branches of the aggregator, which are left out: a deleted         *)
(* document is made up for it instead of a reset or when nothing was sent. *)
(***************************************************************************)
EXTENDS Integers, Sequences, FiniteSets, SequencesExt

CONSTANTS
    Target,      \* queries
    Doc,         \* documents
    Removable,   \* targets whose listener may be removed
    Forgetful,   \* the server may have forgotten removals
    MaxListens,  \* bound: listeners added
    MaxChanges,  \* bound: changes of results
    MaxBreaks,   \* bound: streams lost
    MaxMessages  \* bound: messages on their way to the client

ASSUME WatchAssumption ==
    Removable \subseteq Target /\ IsFiniteSet(Doc) /\ Forgetful \in BOOLEAN

VARIABLES
    results,     \* external: the documents of each target
    server,      \* external: targets on the stream, what was sent of them
    news,        \* external: something was sent since the last snapshot
    open,        \* the stream is open
    requests,    \* to the server
    responses,   \* from the server
    listen,      \* RemoteStore.listen_targets_ with their tokens
    states,      \* WatchChangeAggregator.target_states_
    resets,      \* WatchChangeAggregator.pending_target_resets_
    stored,      \* tokens in LocalStore
    keys,        \* documents of a target in the cache and in its view
    current,     \* targets whose View is current
    at,          \* what the view was last told completely: {} or {documents}
    relisted,    \* targets watched again while current by an earlier watch
    leftover,    \* targets reset by a snapshot that did not empty them
    counts       \* listens, changes, breaks

external == <<results, server, news>>
wire == <<open, requests, responses>>
aggregator == <<states, resets>>
views == <<keys, current, at>>
ghosts == <<relisted, leftover>>
vars == <<external, wire, listen, aggregator, stored, views, ghosts, counts>>

Docs == SUBSET Doc
Token == {{}} \cup {{ds} : ds \in Docs}
Partial(S) == UNION {[T -> S] : T \in SUBSET Target}
TargetState == [outstanding : Nat, current : BOOLEAN, next : Docs]
Sent == [sent : Docs, current : BOOLEAN, forgot : Docs]
Request == [op : {"Watch", "Unwatch"}, target : Target, token : Token]
Response ==
    [kind : {"Added", "Removed", "Current"}, target : Target]
    \cup [kind : {"Document"}, target : Target, doc : Doc, docs : Docs]
    \cup [kind : {"Filter"}, target : Target, docs : Docs]
    \cup [kind : {"Snapshot"}, of : Partial(Sent)]

TypeOK ==
    /\ results \in [Target -> Docs]
    /\ server \in Partial(Sent)
    /\ news \in BOOLEAN /\ open \in BOOLEAN
    /\ requests \in Seq(Request) /\ responses \in Seq(Response)
    /\ listen \in Partial(Token)
    /\ DOMAIN states \subseteq Target /\ states \in [DOMAIN states -> TargetState]
    /\ resets \subseteq Target
    /\ stored \in [Target -> Token]
    /\ keys \in [Target -> Docs]
    /\ current \subseteq DOMAIN listen
    /\ at \in [Target -> Token]
    /\ relisted \subseteq Target /\ leftover \subseteq Target

Init ==
    /\ results \in [Target -> Docs]
    /\ server = <<>> /\ news = FALSE
    /\ open = FALSE /\ requests = <<>> /\ responses = <<>>
    /\ listen = <<>> /\ states = <<>> /\ resets = {}
    /\ stored = [t \in Target |-> {}] /\ keys = [t \in Target |-> {}]
    /\ current = {} /\ at = [t \in Target |-> {}]
    /\ relisted = {} /\ leftover = {}
    /\ counts = [listens |-> 0, changes |-> 0, breaks |-> 0]

With(f, t, v) == [x \in DOMAIN f \cup {t} |-> IF x = t THEN v ELSE f[x]]
Without(f, t) == [x \in DOMAIN f \ {t} |-> f[x]]
Counted(c) == counts' = [counts EXCEPT ![c] = @ + 1]

-----------------------------------------------------------------------------
(***************************************************************************)
(* The aggregator's targets.                                               *)
(***************************************************************************)

\* EnsureTargetState.
State(t) ==
    IF t \in DOMAIN states THEN states[t]
    ELSE [outstanding |-> 0, current |-> FALSE, next |-> keys[t]]

\* Wrong: a target is active although requests for it are unanswered.
Active_Unanswered(t) == t \in DOMAIN listen

\* IsActiveTarget.
Active(t) == t \in DOMAIN listen /\ State(t).outstanding = 0

Watch(t, token) == [op |-> "Watch", target |-> t, token |-> token]
Unwatch(t) == [op |-> "Unwatch", target |-> t, token |-> {}]

\* RecordPendingTargetRequest, n times.
Pending(t, n) == [State(t) EXCEPT !.outstanding = @ + n]

\* Wrong: the request to stop is not counted.
SendUnwatch_Uncounted(t) ==
    states' = With(states, t, Pending(t, 0)) /\ requests' = Append(requests, Unwatch(t))

\* SendUnwatchRequest.
SendUnwatch(t) ==
    states' = With(states, t, Pending(t, 1)) /\ requests' = Append(requests, Unwatch(t))

-----------------------------------------------------------------------------
(***************************************************************************)
(* Listeners and the stream.                                               *)
(***************************************************************************)

\* SyncEngine::Listen: a new view of what the cache has.
Listen(t) ==
    /\ t \notin DOMAIN listen /\ counts.listens < MaxListens
    /\ listen' = With(listen, t, stored[t])
    /\ at' = [at EXCEPT ![t] = {}]
    /\ IF open
       THEN /\ requests' = Append(requests, Watch(t, stored[t]))
            /\ states' = With(states, t, Pending(t, 1))
       ELSE UNCHANGED <<requests, states>>
    /\ relisted' = (relisted \ {t}) \cup (IF State(t).current THEN {t} ELSE {})
    /\ Counted("listens")
    /\ UNCHANGED <<external, open, responses, resets, stored, keys, current, leftover>>

\* SyncEngine::StopListening.
StopListening(t) ==
    /\ t \in DOMAIN listen \cap Removable
    /\ listen' = Without(listen, t) /\ current' = current \ {t}
    /\ IF open THEN SendUnwatch(t) ELSE UNCHANGED <<requests, states>>
    /\ UNCHANGED <<external, open, responses, resets, stored, keys, at, ghosts, counts>>

\* StartWatchStream and, when the server has answered, OnWatchStreamOpen.
OnWatchStreamOpen ==
    /\ ~open /\ listen # <<>>
    /\ open' = TRUE /\ resets' = {}
    /\ states' = [t \in DOMAIN listen |->
                     [outstanding |-> 1, current |-> FALSE, next |-> keys[t]]]
    /\ requests' = [i \in DOMAIN SetToSeq(DOMAIN listen) |->
                      LET t == SetToSeq(DOMAIN listen)[i] IN Watch(t, listen[t])]
    /\ UNCHANGED <<external, responses, listen, stored, views, ghosts, counts>>

\* OnWatchStreamClose: the connection is lost, or idle for a minute.
OnWatchStreamClose ==
    /\ open /\ counts.breaks < MaxBreaks
    /\ open' = FALSE /\ requests' = <<>> /\ responses' = <<>>
    /\ states' = <<>> /\ resets' = {}
    /\ server' = <<>> /\ news' = FALSE
    /\ Counted("breaks")
    /\ UNCHANGED <<results, listen, stored, views, ghosts>>

-----------------------------------------------------------------------------
(***************************************************************************)
(* Messages: OnWatchStreamChange.                                          *)
(***************************************************************************)

Message(kind) ==
    /\ responses # <<>> /\ Head(responses).kind = kind
    /\ responses' = Tail(responses)

\* RecordTargetResponse.
Answered(t) == [State(t) EXCEPT !.outstanding = @ - 1]

\* HandleTargetChange, Added: with the last answer the document changes of an
\* earlier watch are dropped (ClearPendingChanges).
TargetAdded ==
    /\ Message("Added")
    /\ LET t == Head(responses).target
           s == Answered(t)
       IN states' = With(states, t, IF s.outstanding = 0
                                    THEN [s EXCEPT !.next = keys[t]] ELSE s)
    /\ UNCHANGED <<external, open, requests, listen, resets, stored, views, ghosts, counts>>

\* HandleTargetChange, Removed.
TargetRemoved ==
    /\ Message("Removed")
    /\ LET t == Head(responses).target
           s == Answered(t)
       IN states' = IF s.outstanding = 0 THEN Without(states, t)
                    ELSE With(states, t, s)
    /\ UNCHANGED <<external, open, requests, listen, resets, stored, views, ghosts, counts>>

\* HandleTargetChange, Current.
TargetCurrent ==
    /\ Message("Current")
    /\ LET t == Head(responses).target
       IN states' = IF Active(t) THEN With(states, t, [State(t) EXCEPT !.current = TRUE])
                    ELSE states
    /\ UNCHANGED <<external, open, requests, listen, resets, stored, views, ghosts, counts>>

\* HandleDocumentChange: AddDocumentToTarget, RemoveDocumentFromTarget.
DocumentChange ==
    /\ Message("Document")
    /\ LET m == Head(responses)
           t == m.target
           next == IF m.doc \in m.docs THEN State(t).next \cup {m.doc}
                   ELSE State(t).next \ {m.doc}
       IN states' = IF Active(t) THEN With(states, t, [State(t) EXCEPT !.next = next])
                    ELSE states
    /\ UNCHANGED <<external, open, requests, listen, resets, stored, views, ghosts, counts>>

\* Wrong: a target that is reset stays current.
ExistenceFilter_Current ==
    /\ Message("Filter")
    /\ LET m == Head(responses)
           t == m.target
       IN IF Active(t) /\ Cardinality(State(t).next) # Cardinality(m.docs)
          THEN /\ states' = With(states, t, [State(t) EXCEPT !.next = {}])
               /\ resets' = resets \cup {t}
          ELSE UNCHANGED aggregator
    /\ UNCHANGED <<external, open, requests, listen, stored, views, ghosts, counts>>

\* HandleExistenceFilter with ResetTarget, for a query on a collection.
ExistenceFilter ==
    /\ Message("Filter")
    /\ LET m == Head(responses)
           t == m.target
       IN IF Active(t) /\ Cardinality(State(t).next) # Cardinality(m.docs)
          THEN /\ states' = With(states, t,
                    [outstanding |-> 0, current |-> FALSE, next |-> {}])
               /\ resets' = resets \cup {t}
          ELSE UNCHANGED aggregator
    /\ UNCHANGED <<external, open, requests, listen, stored, views, ghosts, counts>>

\* Targets a snapshot tells about (CreateRemoteEvent), and those listened to
\* again from the start.
Changed == {t \in DOMAIN states : Active(t)}
Again == resets \cap DOMAIN listen

\* The token of a snapshot for a target.
TokenOf(m, t) == IF t \in DOMAIN m.of THEN {m.of[t].sent} ELSE {}

\* Wrong: a view that is current stays so.
CurrentAfter_Kept == current \cup {t \in Changed : states[t].current}

\* ApplyTargetChange.
CurrentAfter == (current \ Changed) \cup {t \in Changed : states[t].current}

\* RaiseWatchSnapshot, SyncEngine::ApplyRemoteEvent, LocalStore's and
\* View::ApplyChanges.
Snapshot ==
    /\ Message("Snapshot")
    /\ LET m == Head(responses)
           again == SetToSeq(Again)
       IN /\ listen' = [t \in DOMAIN listen |->
                IF t \in Again THEN {}
                ELSE IF t \in Changed THEN TokenOf(m, t) ELSE listen[t]]
          /\ stored' = [t \in Target |->
                IF t \notin Changed THEN stored[t]
                ELSE IF t \in resets THEN {} ELSE TokenOf(m, t)]
          /\ requests' = requests \o [i \in 1..2 * Len(again) |->
                IF i % 2 = 1 THEN Unwatch(again[(i + 1) \div 2])
                ELSE Watch(again[i \div 2], {})]
          /\ at' = [t \in Target |->
                IF t \notin Changed THEN at[t]
                ELSE IF /\ t \in DOMAIN m.of /\ m.of[t].current
                        /\ t \in resets => states[t].current
                     THEN {m.of[t].sent} ELSE {}]
    /\ states' = [t \in DOMAIN states |->
          IF t \in Again THEN Pending(t, 2) ELSE states[t]]
    /\ keys' = [t \in Target |-> IF t \in Changed THEN states[t].next ELSE keys[t]]
    /\ current' = CurrentAfter
    /\ resets' = {}
    /\ leftover' = leftover \cup {t \in resets : t \notin Changed \/ states[t].next # {}}
    /\ relisted' = relisted \cup {t \in Again : State(t).current}
    /\ UNCHANGED <<external, open, counts>>

-----------------------------------------------------------------------------
(***************************************************************************)
(* The server (external).                                                  *)
(***************************************************************************)

About(kind, t) == [kind |-> kind, target |-> t]

\* Documents it takes a client to have, without those forgotten.
Told(t) == server[t].sent \ server[t].forgot

Respond(m) == Len(responses) < MaxMessages /\ responses' = Append(responses, m)

\* It goes on from a token; what was removed since it may have forgotten.
ServerWatch ==
    /\ requests # <<>> /\ Head(requests).op = "Watch"
    /\ requests' = Tail(requests)
    /\ LET r == Head(requests)
           had == UNION r.token
       IN /\ \E forgot \in {{}, had \ results[r.target]} :
                /\ Forgetful \/ forgot = {}
                /\ server' = With(server, r.target,
                     [sent |-> had, current |-> FALSE, forgot |-> forgot])
          /\ Respond(About("Added", r.target))
    /\ news' = TRUE
    /\ UNCHANGED <<results, open, listen, aggregator, stored, views, ghosts, counts>>

ServerUnwatch ==
    /\ requests # <<>> /\ Head(requests).op = "Unwatch"
    /\ requests' = Tail(requests)
    /\ server' = Without(server, Head(requests).target)
    /\ Respond(About("Removed", Head(requests).target))
    /\ UNCHANGED <<results, news, open, listen, aggregator, stored, views, ghosts, counts>>

\* A document that entered or left the results is told.
ServerDocument(t, d) ==
    /\ t \in DOMAIN server /\ (d \in Told(t) <=> d \notin results[t])
    /\ server' = [server EXCEPT
         ![t].sent = IF d \in results[t] THEN @ \cup {d} ELSE @ \ {d},
         ![t].forgot = @ \ {d}]
    /\ Respond([kind |-> "Document", target |-> t, doc |-> d, docs |-> results[t]])
    /\ news' = TRUE
    /\ UNCHANGED <<results, open, requests, listen, aggregator, stored, views, ghosts, counts>>

ServerCurrent(t) ==
    /\ t \in DOMAIN server /\ ~server[t].current /\ Told(t) = results[t]
    /\ server' = [server EXCEPT ![t].current = TRUE]
    /\ Respond(About("Current", t)) /\ news' = TRUE
    /\ UNCHANGED <<results, open, requests, listen, aggregator, stored, views, ghosts, counts>>

ServerFilter(t) ==
    /\ t \in DOMAIN server /\ server[t].forgot # {} /\ server[t].current
    /\ Told(t) = results[t]
    /\ server' = [server EXCEPT ![t].sent = results[t], ![t].forgot = {}]
    /\ Respond([kind |-> "Filter", target |-> t, docs |-> results[t]])
    /\ news' = TRUE
    /\ UNCHANGED <<results, open, requests, listen, aggregator, stored, views, ghosts, counts>>

\* The stream is consistent: all targets that are current are told completely.
ServerSnapshot ==
    /\ open /\ news
    /\ \A t \in DOMAIN server : server[t].current =>
          server[t].sent = results[t] /\ server[t].forgot = {}
    /\ Respond([kind |-> "Snapshot", of |-> server]) /\ news' = FALSE
    /\ UNCHANGED <<results, server, open, requests, listen, aggregator, stored,
                   views, ghosts, counts>>

ResultsChange(t, d) ==
    /\ counts.changes < MaxChanges
    /\ results' = [results EXCEPT ![t] = IF d \in @ THEN @ \ {d} ELSE @ \cup {d}]
    /\ Counted("changes")
    /\ UNCHANGED <<server, news, wire, listen, aggregator, stored, views, ghosts>>

-----------------------------------------------------------------------------
Client == \/ OnWatchStreamOpen \/ Snapshot
          \/ TargetAdded \/ TargetRemoved \/ TargetCurrent
          \/ DocumentChange \/ ExistenceFilter

Server ==
    \/ ServerWatch \/ ServerUnwatch \/ ServerSnapshot
    \/ \E t \in Target : ServerCurrent(t) \/ ServerFilter(t)
                           \/ \E d \in Doc : ServerDocument(t, d)

Next ==
    \/ Client \/ Server \/ OnWatchStreamClose
    \/ \E t \in Target : \/ Listen(t) \/ StopListening(t)
                         \/ \E d \in Doc : ResultsChange(t, d)

Spec == Init /\ [][Next]_vars

\* Messages arrive while the stream is up, the worker runs, and the server
\* goes on with what it has to send.
FairSpec == Spec /\ WF_vars(Client) /\ WF_vars(Server)

-----------------------------------------------------------------------------
(***************************************************************************)
(* Properties.                                                             *)
(***************************************************************************)

\* The places of requests for a target, and of the answers to them.
RequestsFor(rq, t) == {i \in DOMAIN rq : rq[i].target = t}
IsAnswer(m, t) == m.kind \in {"Added", "Removed"} /\ m.target = t
AnswersFor(rs, t) == {i \in DOMAIN rs : IsAnswer(rs[i], t)}

\* Every request for a target is counted until its answer is handled, however
\* listeners come and go and targets are reset (outstanding_responses_): only
\* then can messages of an earlier watch not be taken for those of a later.
OutstandingAreUnanswered ==
    \A t \in Target : State(t).outstanding =
        Cardinality(RequestsFor(requests, t)) + Cardinality(AnswersFor(responses, t))

\* A resume token stands for exactly the documents the cache has for its
\* target, so that going on from it ends with the results (TargetData, "a
\* point in time from which the server should resume sending results").
\* Except after a reset that left documents in the cache: the target is asked
\* for from the start then, and the server does not tell of those removed.
TokenIsOfKeys ==
    \A t \in Target \ leftover : stored[t] # {} => stored[t] = {keys[t]}

\* A view that was told all of its target has just that: no document of an
\* earlier watch is left in it, and none was dropped with that watch.
KeysAreTold ==
    \A t \in DOMAIN listen \ leftover : at[t] # {} => at[t] = {keys[t]}

\* A view that is current, whose snapshots are not called "from cache", was
\* told all of the target since it began ("current ... implies that the Watch
\* backend has sent us all changes"), on this or an earlier stream.  Except if
\* the target is watched again on a stream where it is current: TargetState's
\* current_ outlives the earlier watch.
CurrentIsConfirmed == \A t \in current \ relisted : at[t] # {}

\* When results no longer change, every listener that stays comes to have them
\* and to be current (EmitNewSnapshotsAndNotifyLocalStore), however it was
\* removed and added again, its target reset or the stream lost.
ResultsArrive ==
    \A t \in Target :
        t \in DOMAIN listen ~> \/ t \notin DOMAIN listen \/ t \in leftover
                               \/ t \in current /\ keys[t] = results[t]
=============================================================================
