--------------------------- MODULE CompetitionSync ---------------------------
(***************************************************************************)
(* The documents of the collection "competitions" and the devices that     *)
(* show and write them: CompetitionsViewController's list,                 *)
(* CompetitionViewController with its STATIC competition, the match sheet, *)
(* and the two Database methods that join them, addListenerToCompetition   *)
(* and updateCompetitionDataToDataBase.                                    *)
(*                                                                         *)
(* Firestore is known by what the app sees of it.  What is committed to a  *)
(* document reaches every device in the order of the commits, but late,    *)
(* and a device is not told of every version: a snapshot takes it to any   *)
(* of those on the way.  A transaction is a write on its way: it may be    *)
(* applied in any order, more than once (TransactionRunner retries when    *)
(* the answer is lost), or fail.                                           *)
(***************************************************************************)
EXTENDS CompetitionTable

CONSTANTS
    Device,        \* the phones that run the app
    Competition,   \* ids of the documents
    players,       \* competition -> its playersArray
    NoMatch,       \* a sheet that is not presented holds no match
    NoCompetition, \* the static competition before the first one is opened
    MaxFinishes,   \* bound: finished matches in a behaviour
    MaxAttempts,   \* attempts of a transaction (5 in the Firestore SDK)
    Faults         \* what the network may do, of "fail", "unanswered", "reorder"

ASSUME RosterAssumption ==
    /\ players \in [Competition -> Seq(User)]
    /\ \A c \in Competition : Len(players[c]) >= 2

ASSUME BoundAssumption == MaxFinishes \in Nat /\ MaxAttempts \in Nat \ {0}

ASSUME FaultsAssumption == Faults \subseteq {"fail", "unanswered", "reorder"}

VARIABLES
    document,   \* competition -> its content in the database
    arriving,   \* device, competition -> committed contents on their way
    flight,     \* the transactions that have been started and not resolved
    sent,       \* how many transactions have been started
    listed,     \* device, competition -> the content received last, which the
                \* list of competitions shows
    listening,  \* device -> documents with a listener (none is ever removed)
    fresh,      \* device -> listeners that have not made their first call
    competition,\* device -> CompetitionViewController.competition (static)
    screen,     \* device -> the competition whose table is on screen
    stage,      \* device -> the match sheet
    match       \* device -> MatchViewController.match

vars == <<document, arriving, flight, sent,
          listed, listening, fresh, competition, screen, stage, match>>

Size(c) == Len(players[c])

\* Not presented; with a finish button that works; and with none, because the
\* match was done when the sheet opened or has just been finished on it.  From
\* then on nothing reads the sheet's copy.
Stage == {"closed", "play", "shown"}

\* A competition as a value: its document id and its table.
Content(c) == [id : {c}, table : Table(Size(c))]

ASSUME NoCompetitionAssumption ==
    \A c \in Competition : NoCompetition # c /\ NoCompetition \notin Content(c)

Transaction(c) ==
    [no : Nat, by : Device, content : Content(c), attempts : Nat \ {0}]

DocumentsOK ==
    /\ DOMAIN document = Competition
    /\ \A c \in Competition : document[c] \in Content(c)
    /\ DOMAIN arriving = Device /\ DOMAIN listed = Device
    /\ \A d \in Device :
          /\ DOMAIN arriving[d] = Competition /\ DOMAIN listed[d] = Competition
          /\ \A c \in Competition : /\ arriving[d][c] \in Seq(Content(c))
                                    /\ listed[d][c] \in Content(c)

TransactionsOK ==
    /\ sent \in Nat
    /\ \A w \in flight : /\ \E c \in Competition : w \in Transaction(c)
                         /\ w.no <= sent

\* A match can only be on screen when its table is, and a table only when the
\* static has a competition.
ScreensOK ==
    /\ listening \in [Device -> SUBSET Competition]
    /\ fresh \in [Device -> SUBSET Competition]
    /\ screen \in [Device -> Competition \cup {NoCompetition}]
    /\ stage \in [Device -> Stage]
    /\ DOMAIN competition = Device /\ DOMAIN match = Device
    /\ \A d \in Device :
          /\ fresh[d] \subseteq listening[d]
          /\ \/ competition[d] = NoCompetition
             \/ \E c \in Competition : competition[d] \in Content(c)
          /\ screen[d] # NoCompetition => competition[d] # NoCompetition
          /\ stage[d] # "closed" => screen[d] # NoCompetition
          /\ stage[d] = "play" => \E c \in Competition : match[d] \in Match(Size(c))

TypeOK == DocumentsOK /\ TransactionsOK /\ ScreensOK

Init ==
    /\ document = [c \in Competition |->
                      [id |-> c, table |-> NewTable(players[c])]]
    /\ arriving = [d \in Device |-> [c \in Competition |-> <<>>]]
    /\ listed = [d \in Device |-> document]
    /\ flight = {}
    /\ sent = 0
    /\ listening = [d \in Device |-> {}]
    /\ fresh = [d \in Device |-> {}]
    /\ competition = [d \in Device |-> NoCompetition]
    /\ screen = [d \in Device |-> NoCompetition]
    /\ stage = [d \in Device |-> "closed"]
    /\ match = [d \in Device |-> NoMatch]

-----------------------------------------------------------------------------
(***************************************************************************)
(* The person at device d.                                                 *)
(***************************************************************************)

\* Wrong: the static is left for the listener to fill.
PressCompetition_LeavesStatic(d, c) ==
    /\ screen[d] = NoCompetition
    /\ screen' = [screen EXCEPT ![d] = c]
    /\ listening' = [listening EXCEPT ![d] = @ \cup {c}]
    /\ fresh' = [fresh EXCEPT ![d] = @ \cup {c}]
    /\ UNCHANGED <<document, arriving, flight, sent, listed, competition, stage, match>>

\* pressCompetition, then viewDidLoad of the pushed controller: the static is
\* the list's copy, and one more listener is added to the document.
PressCompetition(d, c) ==
    /\ screen[d] = NoCompetition
    /\ screen' = [screen EXCEPT ![d] = c]
    /\ competition' = [competition EXCEPT ![d] = listed[d][c]]
    /\ listening' = [listening EXCEPT ![d] = @ \cup {c}]
    /\ fresh' = [fresh EXCEPT ![d] = @ \cup {c}]
    /\ UNCHANGED <<document, arriving, flight, sent, listed, stage, match>>

\* The back button.  Neither the static nor a listener is dropped.
Back(d) ==
    /\ screen[d] # NoCompetition
    /\ stage[d] = "closed"
    /\ screen' = [screen EXCEPT ![d] = NoCompetition]
    /\ UNCHANGED <<document, arriving, flight, sent, listed, listening, fresh, competition,
                   stage, match>>

\* didSelectItemAt, chooseMatch and setupViews: the cell is one of the view on
\* screen, the match that of the static at this moment.
ChooseMatch(d, ix) ==
    /\ screen[d] # NoCompetition
    /\ stage[d] = "closed"
    /\ ix \in MatchIndex(Size(screen[d]))
    /\ ix[1] # ix[2]
    /\ InTable(competition[d].table, ix)
    /\ LET m == competition[d].table.competitionTable[ix]
       IN  /\ match' = [match EXCEPT ![d] = IF m.isDone THEN NoMatch ELSE m]
           /\ stage' = [stage EXCEPT ![d] = IF m.isDone THEN "shown" ELSE "play"]
    /\ UNCHANGED <<document, arriving, flight, sent, listed, listening, fresh, competition,
                   screen>>

\* The finish button with a digit in both fields, and winning: the copy is
\* filled in and put into whatever the static holds now, and that value is
\* sent as a whole to the document the static came from.
FinishMatch(d, s1, s2) ==
    /\ stage[d] = "play"
    /\ sent < MaxFinishes
    /\ InTable(competition[d].table, match[d].matchIndex)
    /\ competition' = [competition EXCEPT
          ![d].table = finishMatch(@, makeMatch(match[d], s1, s2))]
    /\ flight' = flight \cup {[no |-> sent + 1, by |-> d,
                               content |-> competition'[d],
                               attempts |-> MaxAttempts]}
    /\ sent' = sent + 1
    /\ stage' = [stage EXCEPT ![d] = "shown"]
    /\ match' = [match EXCEPT ![d] = NoMatch]
    /\ UNCHANGED <<document, arriving, listed, listening, fresh, screen>>

\* The sheet is swiped away, or its two-second timer dismisses it.
CloseSheet(d) ==
    /\ stage[d] # "closed"
    /\ stage' = [stage EXCEPT ![d] = "closed"]
    /\ match' = [match EXCEPT ![d] = NoMatch]
    /\ UNCHANGED <<document, arriving, flight, sent, listed, listening, fresh, competition,
                   screen>>

\* The process ends and the app is started again.  The system may end it at
\* any time; the code does by itself when a score field is empty (Int(..)!),
\* and when the cell of the screen lies outside the static's table.
\* An attempt already on the wire is not called back, but is the last one.
Relaunch(d) ==
    /\ competition[d] # NoCompetition
    /\ screen' = [screen EXCEPT ![d] = NoCompetition]
    /\ competition' = [competition EXCEPT ![d] = NoCompetition]
    /\ listening' = [listening EXCEPT ![d] = {}]
    /\ fresh' = [fresh EXCEPT ![d] = {}]
    /\ stage' = [stage EXCEPT ![d] = "closed"]
    /\ match' = [match EXCEPT ![d] = NoMatch]
    /\ flight' = {IF w.by = d THEN [w EXCEPT !.attempts = 1] ELSE w : w \in flight}
    /\ UNCHANGED <<document, arriving, sent, listed>>

-----------------------------------------------------------------------------
(***************************************************************************)
(* Firestore.                                                              *)
(***************************************************************************)

\* Wrong: the static takes any document that changes, opened or not.
Assign_Any(d, c, content) ==
    competition' = [competition EXCEPT
                       ![d] = IF screen[d] # NoCompetition THEN content ELSE @]

\* What the closure of addListenerToCompetition does with a document: the
\* static becomes that document, whatever is on screen.
Assign(d, c, content) ==
    competition' = [competition EXCEPT
                       ![d] = IF c \in listening[d] THEN content ELSE @]

\* Wrong: the document is read once, changes to it only reach the list.
Snapshot_ListOnly(d, c, k) ==
    /\ arriving' = [arriving EXCEPT ![d][c] = SubSeq(@, k + 1, Len(@))]
    /\ listed' = [listed EXCEPT ![d][c] = arriving[d][c][k]]
    /\ UNCHANGED <<document, flight, sent, listening, fresh, competition, screen,
                   stage, match>>

\* The k-th of the contents of document c on their way reaches device d, those
\* before it are skipped.  The list shows it and, if it differs from the one
\* received before, the listener on c is called when d ever opened c.
Snapshot(d, c, k) ==
    LET content == arriving[d][c][k]
    IN  /\ arriving' = [arriving EXCEPT ![d][c] = SubSeq(@, k + 1, Len(@))]
        /\ listed' = [listed EXCEPT ![d][c] = content]
        /\ IF content = listed[d][c]
           THEN UNCHANGED <<fresh, competition>>
           ELSE /\ fresh' = [fresh EXCEPT ![d] = @ \ {c}]
                /\ Assign(d, c, content)
        /\ UNCHANGED <<document, flight, sent, listening, screen, stage, match>>

\* The first call of a new listener, with the content already received.
FirstSnapshot(d, c) ==
    /\ c \in fresh[d]
    /\ fresh' = [fresh EXCEPT ![d] = @ \ {c}]
    /\ Assign(d, c, listed[d][c])
    /\ UNCHANGED <<document, arriving, flight, sent, listed, listening, screen, stage, match>>

\* The transaction is applied: setData replaces the whole document.
Apply(w) ==
    /\ "reorder" \in Faults \/ \A v \in flight : v.by = w.by => w.no <= v.no
    /\ document' = [document EXCEPT ![w.content.id] = w.content]
    /\ arriving' = [d \in Device |->
          [arriving[d] EXCEPT ![w.content.id] = Append(@, w.content)]]

Commit(w) ==
    /\ Apply(w)
    /\ flight' = flight \ {w}
    /\ UNCHANGED <<sent, listed, listening, fresh, competition, screen, stage,
                   match>>

\* It is applied and the answer is lost: the runner tries again.
CommitUnanswered(w) ==
    /\ "unanswered" \in Faults
    /\ w.attempts > 1
    /\ Apply(w)
    /\ flight' = (flight \ {w}) \cup {[w EXCEPT !.attempts = @ - 1]}
    /\ UNCHANGED <<sent, listed, listening, fresh, competition, screen, stage,
                   match>>

\* It fails for good: the completion handler prints the error.
Fail(w) ==
    /\ "fail" \in Faults
    /\ flight' = flight \ {w}
    /\ UNCHANGED <<document, arriving, sent, listed, listening, fresh, competition, screen,
                   stage, match>>

-----------------------------------------------------------------------------
Person ==
    \E d \in Device :
        \/ \E c \in Competition : PressCompetition(d, c)
        \/ Back(d)
        \/ \E c \in Competition : \E ix \in MatchIndex(Size(c)) : ChooseMatch(d, ix)
        \/ \E s1, s2 \in Score : FinishMatch(d, s1, s2)
        \/ CloseSheet(d)
        \/ Relaunch(d)

Firestore ==
    \/ \E d \in Device, c \in Competition :
        \/ \E k \in 1..Len(arriving[d][c]) : Snapshot(d, c, k)
        \/ FirstSnapshot(d, c)
    \/ \E w \in flight : Commit(w) \/ CommitUnanswered(w) \/ Fail(w)

Next == Person \/ Firestore

Spec == Init /\ [][Next]_vars

\* The main queue runs what is on it: an attempt on the wire is answered and a
\* snapshot that is due is delivered.  Nothing obliges the person to act.
Fairness ==
    /\ \A d \in Device, c \in Competition :
          /\ WF_vars(\E k \in 1..Len(arriving[d][c]) : Snapshot(d, c, k))
          /\ WF_vars(FirstSnapshot(d, c))
    /\ WF_vars(\E w \in flight : Commit(w) \/ CommitUnanswered(w) \/ Fail(w))

FairSpec == Spec /\ Fairness

-----------------------------------------------------------------------------
(***************************************************************************)
(* Properties.                                                             *)
(***************************************************************************)

\* Every table there is: committed, on its way, or held by a device.
Tables ==
    {document[c].table : c \in Competition}
    \cup {listed[d][c].table : d \in Device, c \in Competition}
    \cup (UNION {{arriving[d][c][k].table : k \in 1..Len(arriving[d][c])} :
                    d \in Device, c \in Competition})
    \cup {w.content.table : w \in flight}
    \cup {competition[d].table : d \in {e \in Device : competition[e] # NoCompetition}}

\* However the writes of several devices interleave, are lost or repeated, and
\* even when a match ends up in the table of another competition, the two cells
\* of a game agree on players, scores and winner (finishMatch writes them as a
\* pair, setData and the listener replace whole tables).
CellsAgreeEverywhere ==
    \A t \in Tables : Mirrored(t) /\ DiagonalUnplayed(t)

\* In no table does qtyFinishedGames fall behind the games done, or run ahead of
\* the matches people finished, and isCompetitionFinished is up exactly when the
\* count has reached qtyGames: stale copies and repeated transactions cannot
\* make checkFinish step over its equality.
CountsSound ==
    \A t \in Tables : CountCoversDone(t) /\ t.qtyFinishedGames <= sent

\* A table in which every game is done says that the competition is finished,
\* whichever stale or repeated write put it there.
AllPlayedIsFinished ==
    \A t \in Tables : DoneGames(t) = Games(t.qtyPlayers) => t.isCompetitionFinished

\* A device that opened only one competition since it was started has that one
\* in the static: only listeners left over from earlier screens can replace it,
\* and the cells on screen lie inside the static's table.
OnlyOpenedIsShown ==
    \A d \in Device :
        screen[d] # NoCompetition /\ listening[d] = {screen[d]} =>
            /\ competition[d].id = screen[d]
            /\ stage[d] = "play" => InTable(competition[d].table, match[d].matchIndex)

\* A result that is in the document of a competition stays there: committing
\* what one device sends does not take away what another device recorded.
ResultsKept ==
    [][\A c \in Competition :
          DoneGames(document[c].table) \subseteq DoneGames(document'[c].table)]_vars

\* The match a device records is one of the competition it writes to.
MatchInItsCompetition ==
    \A w \in flight : \A ix \in MatchIndex(Size(w.content.id)) :
        w.content.table.competitionTable[ix].player1 = players[w.content.id][ix[1]]

\* A device that is alone with the documents ends up showing what they hold.
Converges ==
    <>[](\A d \in Device : competition[d] # NoCompetition =>
            competition[d] = document[competition[d].id])

=============================================================================
