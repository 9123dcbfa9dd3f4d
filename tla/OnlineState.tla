----------------------------- MODULE OnlineState -----------------------------
(***************************************************************************)
(* When the Firestore SDK takes itself to be offline, and when a listener  *)
(* is called first: OnlineStateTracker, the watch stream of RemoteStore,   *)
(* EventManager, QueryListener and the flag "current" of View.             *)
(*                                                                         *)
(* A listener without anything in the cache is not called before the       *)
(* server has answered or the client is Offline.  A query here is one      *)
(* listener of it; messages are read in the step the server sends them,    *)
(* and what is in them is left to WatchTarget.                             *)
(***************************************************************************)
EXTENDS Naturals, FiniteSets

CONSTANTS
    Query,       \* queries
    Cached,      \* those with documents in the cache, which may be shown
    Stoppable,   \* those whose listener may be removed
    MaxRestarts  \* bound: changes of the network or of the user

ASSUME QueryAssumption == Cached \subseteq Query /\ Stoppable \subseteq Query

VARIABLES
    listening,   \* RemoteStore.listen_targets_
    stream,      \* Stream.state_, "Healthy" counted as "Open"
    asked,       \* requests for a token: for this close_count_, for older ones
    idle,        \* Stream.idleness_timer_ runs
    state,       \* OnlineStateTracker.state_
    failed,      \* watch_stream_failures_ # 0, as kMaxWatchStreamFailures is 1
    timer,       \* online_state_timer_ runs
    raised,      \* listeners called: raised_initial_event_
    currentViews, \* queries whose View is current
    confirmed,   \* queries the server has called current on this stream
    restarts,
    untimed      \* the last listener was removed while the stream started

tracker == <<state, failed, timer>>
listeners == <<raised, currentViews>>
bounds == <<restarts, untimed>>
onlineVars == <<listening, stream, asked, idle, tracker, listeners, confirmed, bounds>>

OnlineTypeOK ==
    /\ listening \subseteq Query
    /\ stream \in {"Initial", "Starting", "Open", "Error", "Backoff"}
    /\ asked \subseteq {"now", "before"}
    /\ idle \in BOOLEAN
    /\ state \in {"Unknown", "Online", "Offline"}
    /\ failed \in BOOLEAN /\ timer \in BOOLEAN
    /\ raised \subseteq listening /\ currentViews \subseteq listening
    /\ confirmed \subseteq listening
    /\ restarts \in Nat /\ untimed \in BOOLEAN

OnlineInit ==
    /\ listening = {} /\ stream = "Initial" /\ asked = {} /\ idle = FALSE
    /\ state = "Unknown" /\ failed = FALSE /\ timer = FALSE
    /\ raised = {} /\ currentViews = {} /\ confirmed = {}
    /\ restarts = 0 /\ untimed = FALSE

-----------------------------------------------------------------------------
(***************************************************************************)
(* Parts of handlers.                                                      *)
(***************************************************************************)

Started(s) == s \in {"Starting", "Open", "Backoff"}

Outdated(a) == IF a = {} THEN {} ELSE {"before"}

\* SetAndBroadcast, for listeners of which some have been called: when the
\* client goes offline no view is current any more, and all others are called
\* (HandleOnlineStateChange).
Broadcast(new, called, curr) ==
    IF new = "Offline" /\ new # state
    THEN raised' = called \cup listening' /\ currentViews' = {}
    ELSE raised' = called /\ currentViews' = curr

\* Wrong: the timer goes on.
UpdateState_Timer(new, called, curr) ==
    /\ state' = new /\ failed' = FALSE /\ timer' = timer
    /\ Broadcast(new, called, curr)

\* UpdateState.
UpdateState(new, called, curr) ==
    /\ state' = new /\ failed' = FALSE /\ timer' = FALSE
    /\ Broadcast(new, called, curr)

\* A stream that is not started starts: Stream::Start.
Start(s, a) ==
    IF s = "Error" THEN stream' = "Backoff" /\ asked' = a
    ELSE stream' = "Starting" /\ asked' = a \cup {"now"}

\* Wrong: the state is unknown again, and nothing ends that.
WatchStreamStart_Untimed ==
    IF failed THEN UNCHANGED tracker
    ELSE state' = "Unknown" /\ timer' = FALSE /\ failed' = FALSE

\* HandleWatchStreamStart.
WatchStreamStart ==
    IF failed THEN UNCHANGED tracker
    ELSE state' = "Unknown" /\ timer' = TRUE /\ failed' = FALSE

-----------------------------------------------------------------------------
(***************************************************************************)
(* The client.                                                             *)
(***************************************************************************)

\* AddQueryListener, SyncEngine::Listen and RemoteStore::Listen.
AddQueryListener(q) ==
    /\ q \notin listening
    /\ listening' = listening \cup {q}
    /\ IF Started(stream) THEN UNCHANGED <<stream, asked, tracker, untimed>>
       ELSE Start(stream, asked) /\ WatchStreamStart /\ untimed' = FALSE
    /\ idle' = FALSE
    /\ raised' = raised \cup (IF q \in Cached \/ state' = "Offline" THEN {q} ELSE {})
    /\ UNCHANGED <<currentViews, confirmed, restarts>>

\* RemoveQueryListener, SyncEngine::StopListening and RemoteStore::StopListening.
\* With nothing to listen to, the state of a stream that is not open is unknown;
\* the stream is not stopped.
RemoveQueryListener(q) ==
    /\ q \in listening \cap Stoppable
    /\ listening' = listening \ {q}
    /\ confirmed' = confirmed \ {q}
    /\ IF listening' = {} /\ stream # "Open"
       THEN UpdateState("Unknown", {}, {})
       ELSE /\ raised' = raised \ {q} /\ currentViews' = currentViews \ {q}
            /\ UNCHANGED tracker
    /\ idle' = (idle \/ (listening' = {} /\ stream = "Open"))
    /\ untimed' = (untimed \/ (listening' = {} /\ stream \in {"Starting", "Backoff"}))
    /\ UNCHANGED <<stream, asked, restarts>>

\* Wrong: whoever asked for the token gets a stream.
ResumeStart_Any ==
    /\ asked # {}
    /\ \E a \in asked : asked' = asked \ {a}
    /\ stream' = "Open"
    /\ UNCHANGED <<listening, idle, tracker, listeners, confirmed, bounds>>

\* ResumeStartWithCredentials and, in the same step, OnStreamStart, which the SDK
\* runs when the call is set up.  A token asked for before the stream was closed
\* is ignored.
ResumeStart ==
    \/ /\ "now" \in asked
       /\ asked' = asked \ {"now"}
       /\ stream' = "Open"
       /\ UNCHANGED <<listening, idle, tracker, listeners, confirmed, bounds>>
    \/ /\ "before" \in asked
       /\ asked' = asked \ {"before"}
       /\ UNCHANGED <<listening, stream, idle, tracker, listeners, confirmed, bounds>>

\* Wrong: a change that brings no document is left out.
OnWatchStreamChange_Documents(made) ==
    /\ stream = "Open"
    /\ made \subseteq listening
    /\ confirmed' = confirmed \cup made
    /\ UNCHANGED listening
    /\ UpdateState("Online", raised \cup made, currentViews \cup (made \ raised))
    /\ UNCHANGED <<stream, asked, idle, bounds>>

\* OnWatchStreamChange: a message, which may make some targets current.
OnWatchStreamChange(made) ==
    /\ stream = "Open"
    /\ made \subseteq listening
    /\ confirmed' = confirmed \cup made
    /\ UNCHANGED listening
    /\ UpdateState("Online", raised \cup made, currentViews \cup made)
    /\ UNCHANGED <<stream, asked, idle, bounds>>

\* The stream ends with an error, or there is no token: Stream::Close,
\* OnWatchStreamClose and HandleWatchStreamFailure.
StreamError ==
    /\ stream = "Open" \/ "now" \in asked
    /\ idle' = FALSE
    /\ confirmed' = {}
    /\ UNCHANGED listening
    /\ IF listening = {}
       THEN /\ stream' = "Error" /\ asked' = Outdated(asked)
            /\ UpdateState("Unknown", raised, currentViews)
       ELSE /\ Start("Error", Outdated(asked))
            /\ IF state = "Online"
               THEN state' = "Unknown" /\ failed' = FALSE /\ timer' = TRUE
               ELSE state' = "Offline" /\ failed' = TRUE /\ timer' = FALSE
            /\ Broadcast(state', raised, currentViews)
    /\ UNCHANGED bounds

\* The delay is over.
BackoffElapsed ==
    /\ stream = "Backoff"
    /\ Start("Initial", asked)
    /\ UNCHANGED <<listening, idle, tracker, listeners, confirmed, bounds>>

\* The timer of HandleWatchStreamStart.
OnlineStateTimeout ==
    /\ timer
    /\ timer' = FALSE /\ state' = "Offline" /\ failed' = failed
    /\ UNCHANGED listening
    /\ Broadcast("Offline", raised, currentViews)
    /\ UNCHANGED <<stream, asked, idle, confirmed, bounds>>

\* The idle timer stops the stream.
IdleTimeout ==
    /\ idle
    /\ idle' = FALSE
    /\ stream' = "Initial" /\ asked' = Outdated(asked)
    /\ confirmed' = {}
    /\ UNCHANGED listening
    /\ UpdateState("Unknown", raised, currentViews)
    /\ UNCHANGED bounds

\* RestartNetwork: DisableNetworkInternal, InhibitBackoff, EnableNetwork.
RestartNetwork ==
    /\ restarts < MaxRestarts
    /\ restarts' = restarts + 1 /\ untimed' = FALSE
    /\ idle' = FALSE
    /\ confirmed' = {}
    /\ UNCHANGED listening
    /\ state' = "Unknown" /\ failed' = FALSE /\ timer' = (listening # {})
    /\ Broadcast("Unknown", raised, currentViews)
    /\ LET a == IF Started(stream) THEN Outdated(asked) ELSE asked
       IN  IF listening = {} THEN stream' = "Initial" /\ asked' = a
           ELSE Start("Initial", a)

-----------------------------------------------------------------------------
Worker == ResumeStart \/ BackoffElapsed

OnlineNext ==
    \/ \E q \in Query : AddQueryListener(q) \/ RemoveQueryListener(q)
    \/ \E made \in SUBSET Query : OnWatchStreamChange(made)
    \/ Worker \/ StreamError \/ OnlineStateTimeout \/ IdleTimeout \/ RestartNetwork

OnlineSpec == OnlineInit /\ [][OnlineNext]_onlineVars

\* A server that has spoken on this stream answers for q.
Answer(q) == state = "Online" /\ OnWatchStreamChange({q})

\* What is on the worker queue runs, timers too.  The server may be silent for
\* ever, and the connection not fail; but a server that speaks answers for every
\* target, when a connection lasts.
OnlineFairSpec ==
    /\ OnlineSpec
    /\ WF_onlineVars(Worker) /\ WF_onlineVars(OnlineStateTimeout)
    /\ \A q \in Query : SF_onlineVars(Answer(q))

-----------------------------------------------------------------------------
(***************************************************************************)
(* Properties.                                                             *)
(***************************************************************************)

\* "online_state_timer_ shouldn't be started yet", "Timer should be canceled if
\* we transitioned to a different state", "watch_stream_failures_ must be 0":
\* the assertions of online_state_tracker.cc hold, whatever order streams fail,
\* listeners go and networks change in.
TrackerAsserts ==
    /\ timer => state = "Unknown" /\ ~ failed /\ Started(stream)
    /\ state = "Online" => ~ failed /\ stream = "Open"
    /\ failed => state = "Offline"

\* "Watch stream was stopped gracefully while still needed", "Already started",
\* "Should only perform backoff in an error case": whoever is listening has a
\* stream, only an unused one times out, and one token is waited for.
StreamAsNeeded ==
    /\ listening # {} => Started(stream)
    /\ idle => listening = {} /\ stream = "Open"
    /\ ("now" \in asked) <=> (stream = "Starting")

\* "We are guaranteed to get a new TargetChange that sets current_ back to true
\* once the client is back online": a view that stopped being current, because
\* the client went offline, is of a target the stream in use has not called
\* current (View::ApplyOnlineStateChange).
CurrentIsSentAgain == confirmed \subseteq currentViews

\* "We transition to Offline rather than waiting indefinitely": a listener is
\* called, even if the server never answers (OnlineStateTracker, QueryListener).
\* Except when the last listener was removed while the stream was starting: that
\* stops the timer, and a listener added to the same stream does not start it.
FirstEventComes ==
    \A q \in Query : q \in listening ~> (q \in raised \/ q \notin listening \/ untimed)

=============================================================================
