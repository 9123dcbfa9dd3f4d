# Any_competition: a verification development

Any_competition is an iOS app ("for those who want to make a competition out of
any game", `src/README.md`). A competition is a round robin: every pair of
players has one match, somebody enters its score on a phone, and all phones that
take part show the same table. The data lives in two Firestore collections,
`competitions` and `users`. The program is about 6700 lines of Swift under
`src/Any_competition/Any_competition/`; the pods are third-party code, of which
the app relies on the Firestore SDK's write queue and listeners, modelled here
too. Its own tests are the empty Xcode templates, so everything below is
translated from the code. Paths of Swift files are relative to that directory,
those of the SDK to `src/Any_competition/Pods/FirebaseFirestore/Firestore/core/src/`.

## 1. Inventory

| component | state | operations | what makes it correct |
|---|---|---|---|
| Table and matches (`Models/CompetitionTable.swift`, `Match.swift`) | cells, `qtyGames`, `qtyFinishedGames`, `isCompetitionFinished` | `init`, `makeMatch`, `makeMirrorMatch`, `finishMatch`, `checkFinish`, `calculatePointsOfPlayer` | both cells of a game agree; the count is the games done; the flag is up exactly when no game is left |
| Table screen and match sheet (`CompetitionViewController`, `MatchViewController`, `CompetitionTableView`) | the static `competition`, the sheet's copy of a match | tap on a cell, finish, dismiss | a result is entered once; what is announced is what the table says |
| Synchronisation (`Database.addListenerToCompetition`, `updateCompetitionDataToDataBase`) | the document, transactions in flight, snapshots on their way, listeners | open a competition, commit, snapshot | results are kept; a result is put into its own competition; a phone ends up with what the database holds |
| Friends (`ProfileViewController`, `NotificationViewController`, `FindToAddUserViewController`, `Database`) | `users` documents, `hostUser`, queued writes, look-ups | ask, accept, load the profile | requests arrive and are kept; only who asked becomes a friend; friends are kept |
| List of competitions (`CompetitionsViewController`) | `competitions`, the relay, the loading animation | collection listener, observer | the list is the last result; it catches up; loading ends |
| Session (`SceneDelegate`, `StartAnimationViewController`, `LoginViewController`, `SettingsViewController`, Firebase Auth) | `uid` in UserDefaults, Auth's current user, sign-ins in flight, root controller | start, sign in, exit, relaunch | what is shown belongs to the stored user, and so do the credentials |
| Tab bar and navigation (`CustomTabBarController`, `CustomTabBar`) | the bar's offset, two `isCustomBarHiden` flags, stacks | tap an item, open, back | the bar is where it is needed and can be brought back |
| Firestore write queue (`core/sync_engine.cc`, `local/leveldb_mutation_queue.cc`, `remote/remote_store.cc`, `write_stream.cc`, `stream.cc`, `grpc_stream.cc`) | mutation queue, pipeline, stream, handlers | write, result, rejection, failure, idle, user change, restart | writes of a user take effect in order, none is lost, each handler hears of its own |
| Firestore listeners (`remote/online_state_tracker.cc`, `remote_event.cc`, `remote_store.cc`, `core/view.cc`, `query_listener.cc`) | online state, watch stream, targets, tokens, views | listen, stop, message, failure, timeout | a listener is called in the end; answers are not mixed up; a token fits the cache |
| New competition (`AddCompetitionViewController`) | search results, `playersArray` | search, choose, add, send | not reachable, see "Not modelled" |

How they interact. Everything of the app runs on the main queue. Screens call
`Database`; `Database` answers through completion closures, through RxSwift
relays, and, for an open competition, by assigning the static variable
`CompetitionViewController.competition`. Each controller has a `Database` object
of its own, so relays are not shared. Session and tab bar meet in the root view
controller: a sign-in that is answered, an exit and a launch each make a new one.
The SDK runs on a worker queue of its own, between the app and gRPC, LevelDB and
Auth. Devices interact only through the two collections.

What is hard: writes of several devices to one document; snapshots that are late
or skipped; transactions that fail, overtake each other or are retried; listeners
that outlive their screen and share one variable; copies of values (the sheet's
match, `hostUser`) that are stale when they are used; sign-ins answered in any
order; results and messages on a stream that name nothing and are told apart by
counting; tokens, timers and answers that arrive after the stream they were for;
the end of the process between two of these steps. `PROJECT.json` lists the
hazards, each at its line.

## 2. Modules

```
CompetitionTable ----+--- MatchBoard ------ implements Tournament
  (values)           |        +--- MatchBoardProofs
                     +--- CompetitionSync
                     |        +--- CompetitionSyncProofs
                     +--- CompetitionTableProofs
Friends -------------+--- UserDataProofs      (queues behave as WriteQueue)
CompetitionsList ----+
Session -------------+--- Screens             (composition)
TabBar --------------+        +--- ScreensProofs
WritePipeline ------------ implements WriteQueue
     +--- WritePipelineProofs ---- uses WriteQueueProofs
OnlineState ---------+--- ListenersProofs
WatchTarget ---------+
```

`MC...` modules give names to the values of the instances, and nothing else. Where
one module proves theorems about two, the definitions of one of them carry its
name (`ListInit`, `OnlineSpec`).

**CompetitionTable** has no variables. A `MatchIndex` is a pair of positions
(from 1 here, from 0 in the code); a table is the function from these pairs to
matches that the code keeps as an array of arrays. `createCompetitionTable`,
`NewTable` (the `init`), `makeMatch`, `makeMirrorMatch`, `finishMatch`,
`checkFinish` and `calculatePointsOfPlayer` are the functions of these names.
The diagonal is part of the table, as in the code, and is never played:
`didSelectItemAt` does not react to it. Scores are what the one-character field
admits (`Score`, a set of naturals).

**Tournament** is what a table promises the person who enters results, without
cells, mirrors, counters or messages: a game gets one result and keeps it, and
the competition is finished when no game is left. It promises this to those who
wait (`early` is false); to the others only that a full table is finished.

**MatchBoard** is one phone with one competition that nobody else writes to, and
the listener of its screen.

| variable | code |
|---|---|
| `table` | the table of the static `CompetitionViewController.competition` |
| `stage`, `match` | the sheet and its copy of the match, as long as it can be finished |
| `underWay` | tables that were sent and may still come back, in any order, more than once or never |
| `listed` | the one that came back last, which the list has |
| `fresh` | a new listener has not been called yet |
| `early` | history: a match was finished while the listener was still to be called, or the competition was opened again before its table was in the list |
| `overtaken` | history: a table came back in which the match open to be played was done |

`ChooseMatch` is `didSelectItemAt` + `chooseMatch` + `setupViews` (the sheet has
a finish button only if its match is not done); `FinishMatch` is the sheet's
`finishMatch` with the controller's `winning`, which puts the copy into whatever
table is shown by then; after it the animation covers the button. `CloseSheet` is
the swipe and the two-second timer, `OpenAgain` leaves the screen or ends the
process and opens the competition again from the list. `Snapshot` and
`FirstSnapshot` are calls of the closure of `addListenerToCompetition`; `Drop` is
a transaction that fails or a version that is skipped. `ImplementsTournament` is
the refinement: cells above the diagonal are the results, `early` is `early`.

**CompetitionSync** is any number of phones and competitions.

| variable | code |
|---|---|
| `document` | `competitions/<id>` in Firestore |
| `arriving[d][c]` | committed versions of `c` that device `d` has not received |
| `listed[d][c]` | the version received last (Firestore's cache), which the list shows |
| `flight`, `sent` | transactions started by `updateCompetitionDataToDataBase` and not resolved; how many were started |
| `listening`, `fresh` | documents that have a listener; those whose listener has not been called yet |
| `competition[d]` | the static `CompetitionViewController.competition` |
| `screen[d]`, `stage[d]`, `match[d]` | the competition on screen, the sheet, the sheet's copy |

`FinishMatch` puts the sheet's copy into *whatever the static holds by then* and
sends that as a whole to the document the static came from, as `winning` does.
`Snapshot` brings a device to a later version, skipping those before it; if the
content changed and the device has a listener on the document, `Assign` sets the
static, whatever is on screen. No action removes a listener, because no code
does. `Commit`, `CommitUnanswered` (the runner retries after a lost answer) and
`Fail` are the fates of a transaction. `Relaunch` is the end of the process:
by the system, or by a trap (an empty score field, a cell outside the static's
table). The server is external; the retry loop is that of the vendored
`transaction_runner.cc`. A document starts as it was created and at the same
version on every device.

**Friends** is the collection `users` with one device per user. `hostUser` is
read when the profile is loaded: the only subscription that would refresh it is commented
out. `updateData` puts a write into the device's queue. That queue is the
WriteQueue below: it survives the process, the server works ahead of the
answers (`ahead`) and starts again after a lost connection, and a refused write
is dropped. The own document is read as the version received last with the
waiting writes laid over it. `TapAccept` starts a look-up, and `ReceiveFriend` is
its closure, which replaces the array of friends by *the one hostUser had* plus
one. An absent array (`Unlisted`) stays absent, as Swift's optional chaining
leaves it. `Exit` is the exit button and signing in again: the profile is loaded
anew and look-ups go on; `Relaunch` is the end of the process, which forgets
them. A notification is its sender and its date in seconds, so two requests
within a second are one element of the array union. The screens in between only
hand `hostUser` on and are left out; declining does nothing in the code.

**CompetitionsList** is one user's list. Firestore calls the closure of
`addListenerToCompetitionCollection` on the main queue, first with what the cache
has; `SnapshotListener` is that closure with the relay's observer, which
subscribes before anything can arrive. Documents `JSONDecoder` cannot read are
left out, an empty result is not handed on. `sorted` is not stable, so any order
by date is allowed.

**Session** is the stored uid beside Auth's own current user. `Complete` is the
closure of `tapLoginButton`, run on the main queue after Auth changed its user on
another; it acts on whatever the root controller has become. Exit does not tell
Auth. **TabBar** has no variable for "the bar is visible": as in the code it is a
sum of moves, `isCustomBarHiden` of each first screen, and two navigation stacks.
`ItemClicked` is what happens 0.3 seconds after the tap. **Screens** composes
them: the tab bar is replaced by the session's steps, the exit button lies on the
profile's stack, and the profile is loaded by the first tap on its item.

**WriteQueue** is what the app relies on: per user a queue, of which the server
applies the front ahead of its answers, and from the beginning again after each
connection. **WritePipeline** is how the SDK does it: each action is one task of
the worker queue. Batches are known by ids that are not stored (`FirstFreeId`),
results name no batch, handlers are found by user and id. A token may come for a
stream that has been closed since (`asked = {"before"}`). `RequestFails` and
`OperationFailed` are the case in which a failed request, queued behind one
response, cancels those after it. `ImplementsWriteQueue` maps the queue to the
writes of the batches, `ahead` to the results the client has not handled, and
`awaited` to the registered handlers.

**OnlineState** is `OnlineStateTracker` with the watch stream, and of
`EventManager`, `QueryListener` and `View` what decides when a listener is called
first and whether its snapshots are "from cache"; `OnWatchStreamChange` is a
message read in the step the server sends it. **WatchTarget** is one watch
stream's requests and messages: `outstanding_responses_`, resets by existence
filters, and the tokens and views a consistent snapshot leaves behind. A
target's pending changes are kept as the set of documents that results; a resume
token is the set of documents the server takes its holder to have. The server
is external: it answers requests in their order, sends a token with every
snapshot, and counts documents for targets it called current if it forgot
removals. It rejects no target, and limbo resolution is left out. Three
simplifications concern the app's own listeners or the order of steps:

* Targets are queries on a collection, as the app's list and search are. The
  listener on one competition is a query for one document, for which the
  aggregator has branches of its own. `ExistenceFilter` leaves out that a filter
  counting 0 then makes up a deleted document (`remote_event.cc:218-234`) where a
  collection's target is reset.
* `Changed` leaves out the deleted document a snapshot makes up for such a target
  that is current and has nothing (`remote_event.cc:258-272`).
  What WatchTarget shows is therefore not shown of that listener.
* OnlineState's `ResumeStart` merges the arrival of the token with
  `OnStreamStart` (`stream.cc:179-187`). In between the state is still
  `Starting`, and what can happen there can happen before the token arrives.

WatchTarget has breaks of the stream but no end of the process: that tokens and
cached keys are written in one LevelDB transaction is not examined.

Definitions whose name has a suffix (`finishMatch_CountsMirror`) are wrong forms
of the definition that follows them. No specification uses them; they show that
each property can be broken by a plausible mistake in the code.

## 3. Runs

| run | instance and distinct states | shows |
|---|---|---|
| `board` | 3 players, scores {0,1}, 3 finishes: 987 287 | whatever tables come back and however late: cells agree everywhere and points are the decided games; count and flag are exact unless `overtaken`; who waits has a Tournament |
| `sync_two_phones` | 2 phones, one game, 2 finishes, 2 attempts, all faults, symmetric phones: 765 000 | both phones finish the only game; lost, repeated and reordered writes; all tables are sound, and a full table is flagged |
| `sync_two_competitions` | 1 phone, a competition of 3 and one of 2, 2 finishes, no faults, fairness: 525 337 | a left-over listener is the only thing that puts another competition under the screen; in the end the phone shows what the database holds |
| `friends` | 2 users (one without an array), 2 requests, 2 writes per queue, lost answers, late reads, refused acceptances, exits, fairness: 151 525 | only askers become friends; requests arrive, also when the sender's app is ended, and are kept |
| `list` | 3 competitions (one unreadable), 2 dates, 4 changes, 1 restart: 27 314 | the list is the last result in order, and catches up |
| `screens` | 2 users, 3 sign-ins, 1 restart, stacks of 2: 83 773 | what is shown belongs to the stored user; the bar is down once per flag and up on first screens; the login animation ends |
| `write_pipeline` | 2 users of a device, 4 writes, a pipeline of 3, 2 faults: 211 342 | results, handlers and pipeline fit the queue; WriteQueue is implemented; every write is answered |
| `online` | 3 queries, one cached, 2 restarts of the network: 3 612 | the SDK's assertions; a stream while needed; no view stays "from cache"; every listener is called |
| `watch` | 1 target, 2 documents, listened to twice, 2 changes, 1 break, 3 messages under way: 500 745 | answers are counted right; tokens and views fit; results arrive |
| `sync_lost_result` | 2 phones, 2 finishes, no faults | **violation**: a result is removed by another device's transaction |
| `sync_wrong_competition` | 1 phone, 1 finish, no faults | **violation**: a match is recorded in another competition |
| `friends_lost` | 3 users, no faults | **violation**: the second acceptance removes the first friend |

The type invariants of `board`, `sync_two_phones` and `friends` are checked in
their runs; those of the other modules document the state, and those of all
modules with a theorem are proved or are part of an invariant that is.

Bounds. `MaxFinishes`, `MaxAttempts`, `MaxRequests`, `MaxDate`, `MaxDay`, `MaxQueue`,
`MaxFriends`, `MaxChanges`, `MaxRelaunches`, `MaxDepth`, `MaxWrites`,
`MaxFaults`, `MaxRestarts`, `MaxListens`, `MaxBreaks` and
`MaxMessages` are the only ones, each in a guard. Two finishes are the least
that can conflict; on the board it takes three for a match to be open while the
tables of two others come back, and with three players these are all its games;
two attempts are the least that repeat a write (the SDK makes
five); with two requests one user can accept twice. `MaxPendingWrites` is the
code's `kMaxPendingWrites`, 10 there: with 3 and four writes the pipeline is
full, drains and is refilled, and three batches are the least with which a
request can fail behind a result and an error that were not read; two faults let a restart meet a user change or a
second lost connection, so that batch ids are used again. Two listens are a
target dropped and watched again before the answer, with one break a resume from
a token. The theorems do not depend on bounds.

Deadlock is not checked where the bounds end what can happen (`list`, `screens`,
`write_pipeline`, `watch`); their liveness properties say what must have
happened by then.

Fairness. In every module only what runs by itself is fair; nobody is obliged to
tap, and no connection is obliged to last.

* CompetitionSync: a snapshot that is due is delivered and a transaction is
  resolved; both are tasks of a queue the SDK keeps running.
* Friends: strong fairness of `Apply` and `Acknowledge` for each user, since the
  user may go on adding to the queue and connections may be lost in between;
  it is what `WritesAreAnswered` shows of the queue below.
* CompetitionsList, Screens: Firestore raises what it has, requests to Auth have
  a timeout, and the main queue runs.
* WritePipeline: the worker queue runs what is on it, and a server that is
  reached answers; failures are bounded, as always in a finite run.
* OnlineState: worker and timers run, and strong fairness of `Answer(q)`: a
  server that has spoken on a stream answers for each target if connections
  last again and again. It may never speak at all.
* WatchTarget: the client handles what has arrived; the server goes on with what
  it has to send.

## 4. What does not hold

Three of these are violated properties of runs and `findings`; the others are
described here, or are the named exceptions of a property.

* A result is lost when two phones finish different matches (`ResultsKept`,
  `Database.swift:179`); a match may be put into another competition
  (`MatchInItsCompetition`, `Database.swift:349`); a second acceptance undoes the
  first (`FriendsKept`, `Database.swift:262`).
* With several devices, or after a failed transaction, a phone can go on showing
  a result the database lacks, since nothing re-reads the document and a rewrite
  with the same content causes no snapshot. `Converges` is therefore stated for a
  phone that is alone on a sound network.
* A match may be counted twice (`CompetitionTable.swift:67`), so that a competition
  is flagged with a game left. It happens when two phones finish it, and on one
  phone, without any fault: (1,2) and (1,3) are finished before the snapshot of
  the first arrives; that snapshot puts back the table in which only (1,2) is
  done (`Database.swift:349`); a tap on (1,3) offers it again; the second
  snapshot, with both done, arrives behind the sheet; the button is pressed. The
  count is 3 and the flag up with (2,3) unplayed. This is `overtaken`, the
  exception of `CountExact` and `FinishedIffAllPlayed`: one phone's tables are
  exact unless a match comes back as done behind the sheet it is played on. Among
  several phones only the other direction holds (`AllPlayedIsFinished`).
* On one phone results can also be altered or lost: after an older table was put
  back, a game is entered again with another score, or the next match is finished
  in that table and sent; leaving the screen before the table is in the list does
  the same. This is `early`, the exception of `ImplementsTournament`. `ResultsKept`
  fails on one phone for this reason as well; its run shows two phones.
* A draw is announced as the second player's win (`MatchViewController.swift:247`);
  the table gives the point to neither.
* The add button never gets its user, since `Database.swift:152` is commented out,
  so that `CompetitionsViewController.swift:101-107` never opens the screen.
* An empty result is not handed on (`Database.swift:299`): without competitions the
  animation goes on. `CatchesUp` requires its end only if there is one.
* `parted` (CredentialsOfStored): if the process ends after Auth saved its user
  and before the closure stored the uid, the app shows one user and asks
  Firestore with the credentials of another until the next sign-in is answered.
* `hasty` (BarOnFirstScreens): a screen opened in the 0.3 seconds of a tapped
  item's animation leaves the bar down on the other first screen.
* A write may be reported as refused that was applied: when a request fails the
  stream is ended with the error, results that were received are cancelled
  (`grpc_stream.cc:312`), and the error is taken to be about the first write of
  the pipeline (`remote_store.cc:512`). `ToldTheTruth` says that a handler hears
  what became of its write *in the queue*; WriteQueue's `Refuse` allows one that
  was applied.
* `untimed` (FirstEventComes): if the last listener is removed while the stream
  starts, the timer is cleared, and a listener added to the same stream does not
  start it again: with a silent server it is not called.
* `relisted` (CurrentIsConfirmed): `TargetState::ClearPendingChanges`
  (`remote_event.cc:155-159`) does not reset `current_`, so a target watched again on
  a stream where it was current is current before the server said so.
* `leftover` (TokenIsOfKeys, KeysAreTold, ResultsArrive): a target that is reset
  is watched again without a token (`remote_store.cc:318-348`); documents left in
  the cache that are no results are not told of. The SDK leaves these to limbo
  resolution, which is not modelled.

## 5. Proofs

All theorems hold for any players, devices, competitions, users, queries, scores,
bounds and faults that satisfy the named assumptions: a competition has at least
two players (`AddCompetitionViewController` refuses fewer), scores are natural
numbers, the absent values (`NoCompetition`, `nil`) are not values, and there are
finitely many documents (existence filters compare their numbers).

* `CompetitionTableProofs`: `TableSound` (cells mirrored, diagonal empty, count
  not behind the games done, flag follows the count) holds of a new table and is
  preserved by `finishMatch` of *any* filled-in match off the diagonal, even if
  the cell was already done (`FinishedSound`). `GamesCount` shows that a round
  robin has `(n*n - n) / 2` games: counting cells above and below the diagonal.
* `MatchBoardProofs`: `BoardInv` has five parts. Every table, wherever it is, is
  sound (`TablesAreSound`), which makes it harmless in itself that any of them may
  come back. `finishMatch` keeps a count exact only if the cell is not done in the
  table shown *by then*, which the sheet does not see: `SheetIsUnplayed` says that
  it is so unless `overtaken`, and with it `CountExact` is inductive. That Tournament
  is implemented needs that a table which comes back is the one shown:
  `NothingOlder` says that as long as the person waits, nothing else is under way,
  and what is listed is what is shown when a listener is new. From it:
  `BoardTypeOK`, `BoardSound`, `BoardCount`, `BoardFinished`, and
  `BoardImplementsTournament` (initial states map, and a step records one result,
  stutters, or is of somebody who has not waited and leaves a full table flagged,
  since the count is never behind the games done).
  `BoardPoints` is about a sum of counts. The sum of the library is some function
  on sets of players that satisfies a recursion; counting the won cells of a set
  of rows satisfies the same one (`OneRowMore`), and a smallest set of rows on
  which the two differ cannot be (`PointsAddUp`). Won cells and decided games
  correspond by `Upper` (`WonCellsAreDecidedGames`), because a cell that is not
  done has no winner (`UnplayedHasNoWinner`, a part of `TablesAreSound`).
* `CompetitionSyncProofs`: a table is only copied as a whole or changed by
  `finishMatch`, so `SyncInv` says of each place a table can be that it is sound
  and counts at most `sent`, and of each sheet that it holds an unplayed match
  off the diagonal, inside the view's table. From it: `SyncTypeOK`,
  `SyncCellsAgree`, `SyncCountsSound`, `SyncAllPlayedIsFinished`,
  `SyncOnlyOpenedIsShown`.
* `UserDataProofs`, friends: `FriendsInv` says of each place a list of friends
  passes through that it names only users whose request the server has; it is
  inductive because requests are never taken away. From it: `FriendsTypeOK`,
  `OnlyAskersAreFriends`, `RequestsAreKept`.
* `UserDataProofs`, list: `ListIsLastResult` would fail if the closure skipped an
  empty result after one with documents. `ListInv` says that there is no such
  result: the collection is never emptied, so what the cache has is empty only
  while nothing has been shown (`NeverEmptied`, `NothingCached`), and in the main
  queue empty results stand before all others (`EmptyComesFirst`). From it:
  `ListShowsLastResult`, `ListTyped`.
* `WriteQueueProofs`: the order of the history rests on two facts that no single
  step sees. A queue is in the order of the writes and behind everything
  answered (`QueuesOrdered`, `AnsweredFirst`), and what the server has done on
  this connection is the front of the queue (`FrontApplied`). An older write
  applied after a newer one is therefore a repetition, and the newer one is
  itself repeated behind it, refused, or *still to come on this connection*:
  `InversionsMended`, the form of `LastsInOrder` that is inductive. From
  `WriteQueueInv`: `FirstsAreInOrder`, `LastsAreInOrder`, `NothingIsLost`,
  `HandlersHearTheTruth`.
* `WritePipelineProofs`: none of the three invariants about ids, results and the
  pipeline is inductive alone. `PipelineInv` has two halves. `StoreInv` is what
  survives a connection: queues ascend in ids, below `nextBatchId`
  (`QueuesOrdered`; `FirstFreeId` finds that number again after a restart), a
  registered handler belongs to a batch that waits, and the pipeline is the front
  of the current user's queue. `CallInv` is what a connection rests on: what is in
  the call, results to be read and then requests to be answered, is the pipeline
  from its start (`ResultsMatchPipeline`), and the answers have their shape
  (`CallSound`): nothing but one greeting before the handshake, results and at
  most an error at the end after it; a token is waited for only while the stream
  starts. Since results name no batch, the first half is needed for the
  second to survive a result, and the second for the first to survive an error.
  From it: `PipelineTypesHold`, `PipelineIsFirst`, `ResultsAreOfThePipeline`,
  `HandlersAreOfTheirWrites`. `PipelineImplements` maps each step: a write is
  `Enqueue`, the server's result `Apply`, the client's reading it `Accept`, an
  error `Refuse`, everything that ends the call `Reconnect`, a relaunch
  `Restart`, all else stutters. The theorems of `WriteQueueProofs` are then
  taken over through an instance of it with the same substitution:
  `PipelineKeepsLastsInOrder`, `PipelineLosesNothing`, `PipelineTellsTheTruth`
  are proved of the queue once and hold of the SDK.
* `ScreensProofs`: `CredentialsOfStored` speaks of the last completion on the main
  queue that succeeded, and is lost when that is handled unless Auth's user is
  *his* (`AuthIsAhead`): `Handled` and `Posted` say how the last success moves
  through the queue. For the bar, a first screen has it only because no flag is up
  on the *other* tab, and that because an item can only be tapped with the bar up,
  hence with both flags down, and stays so while it is animated unless in haste
  (`FlagsOfSelected`); a flag is up only below a screen (`FlagsBelowScreens`). From
  `ScreensInv`: `ScreensShowTheStored`, `CredentialsAreOfTheStored`,
  `BarIsDownOncePerFlag`, `FirstScreensHaveTheirBar`. `ScreensImplementSession`
  shows that the composition allows the session no step it does not have alone,
  so that what concerns the session is proved of Session's own steps.
* `ListenersProofs`, online state: the assertions, `StreamAsNeeded` and
  `CurrentIsSentAgain` are together inductive once it is known that a target
  confirmed on this stream means the client is Online (`ConfirmedOnline`): a view
  loses "current" only when the client goes Offline, and it cannot do so without
  the stream closing first. From it: `TrackerIsSound`, `StreamIsThere`,
  `CurrentComesAgain`.
* `ListenersProofs`, targets: the invariants of WatchTarget speak of what the
  client has, but whether a snapshot leaves them true depends on all messages
  still under way. `WatchInv` therefore ties three things together for each
  target (`TargetInv`).
  - The client's side, `Watching`: requests and answers under way are counted
    one by one (`AnswersCounted`), and the last of them, the only one that
    matters, is a watch exactly if there is a listener, from what the cache has
    (`LastRequest`, `LastAnswer`).
  - The server's side, `InServer`: behind the last answer a watch is part of
    every snapshot, CURRENT comes before the snapshots that rest on it, and
    nothing is called current after a filter (`InOrder`).
  - `Following`: there is a function of the places in the queue, the documents
    the client will have been told up to each message. It begins with what the
    aggregator has, each message of this watch changes it as that message says,
    and it ends with what the server takes the client to have (`Traced`). A
    filter that does not fit breaks this off until the target is watched again
    (`Broken`); a snapshot is then not called current.

  A recursion over the messages is thereby replaced by a function whose
  existence is carried through each step: a message sent extends it
  (`TraceGoesOn`), an answer begins it anew (`TraceBegins`), a message read drops
  its first value (`TraceIsLeft`). A snapshot has three cases: a target it
  does not tell about (`SnapshotPasses`), one it does (`SnapshotTells`: token, keys
  and view become the function's value at that snapshot), and one that is to be
  watched again (`SnapshotResets`). From
  `WatchInv`: `NoAnswerIsMiscounted`, `TokensStandForTheCache`,
  `ViewsHaveWhatTheyWereTold`, `CurrentViewsAreTold`, `WatchTyped`.

Only model-checked are the liveness properties (`Converges`, `RequestsArrive`,
`CatchesUp`, `LoadingEnds`, `WritesAreAnswered`, `FirstEventComes`,
`ResultsArrive`), which need fairness, out of the prover's reach. Every invariant
a run checks is stated by a theorem. What stays unproved of recursive definitions
is their value for every input (a sum over a set is characterised, in
`PointsAddUp`, not computed).

## 6. Not modelled

* **New competition**: `AddCompetitionViewController` cannot be reached (section 4).
  What it would send, at least two players and a new table, is the `Init` of
  CompetitionSync. `CreateUserViewController` is an empty screen.
* **Views**: layout, drawing, animation and keyboard handling, apart from
  animations that block or delay a tap, which are in the models.
* **Unreachable code**: what is not in the build target
  (`Controllers/StartViewController/`, `Data/CompetitionData.swift`) or what
  nothing instantiates (`TabBarController`, `TestViewController`,
  `UserProfileView`, `AddPlayerView`, `LoginView`, `CreateUserView`,
  `CompetitionNetView`, `Database.getAllCompetitions`, `Database.addUser`).
* **Of Firestore**: stream tokens of the write stream, the network switch (the
  app does not use it), documents and queries as such, limbo resolution, rejected
  targets, garbage collection, and serialisation.
* **The other pods**: gRPC, BoringSSL, abseil, LevelDB, nanopb, RxSwift, Lottie,
  SnapKit and the rest of Firebase. They are third-party, largely generated code
  or tables (certificates, cipher tables, protocol buffers), and make up nearly
  all of the repository's 866 000 lines. Modelling a larger share of the lines
  would mean modelling libraries that are not this program, so the development
  covers the app's own stateful code and those parts of the SDK whose behaviour
  the app relies on.
