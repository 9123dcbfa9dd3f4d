----------------------------- MODULE MatchBoard -----------------------------
(***************************************************************************)
(* One phone with one competition, which nobody else writes to: the table, *)
(* the sheet in which a match is looked at or played, and the tables that  *)
(* the listener of CompetitionViewController brings back.                  *)
(*                                                                         *)
(* Every finished match is sent, and when it has been committed the        *)
(* listener replaces the static competition by it.  A table that comes     *)
(* back may be older than the one shown.  CompetitionSync has several      *)
(* phones and competitions; here it is asked what one person may rely on.  *)
(***************************************************************************)
EXTENDS CompetitionTable, FiniteSetsExt

CONSTANTS
    players,      \* playersArray of the competition
    NoMatch,      \* the sheet holds no match
    MaxFinishes   \* bound: finished matches in a behaviour

\* AddCompetitionViewController refuses fewer than two players.
ASSUME PlayersAssumption ==
    /\ players \in Seq(User)
    /\ Len(players) >= 2

ASSUME BoundAssumption == MaxFinishes \in Nat

VARIABLES
    table,        \* CompetitionViewController.competition.competitionTable
    stage,        \* the sheet
    match,        \* MatchViewController.match, a copy of the cell
    sent,         \* how many matches have been finished
    underWay,     \* tables that were sent and may still come back
    listed,       \* the table that came back last, which the list of competitions has
    fresh,        \* the listener of the screen has not been called yet
    early,        \* history: the person did not wait for what was still to come
    overtaken     \* history: a match that was open to be played came back as done

vars == <<table, stage, match, sent, underWay, listed, fresh, early, overtaken>>

n == Len(players)

\* Not presented; with a finish button that works; and with none, because the
\* match was done when the sheet opened or has been finished, and the animation
\* covers the button.  From then on nothing reads the sheet's copy.
Stage == {"closed", "play", "shown"}

\* Every table there is.
Tables == {table, listed} \cup underWay

TypeOK ==
    /\ Tables \subseteq Table(n)
    /\ stage \in Stage
    /\ match \in Match(n) \cup {NoMatch}
    /\ sent \in Nat
    /\ fresh \in BOOLEAN /\ early \in BOOLEAN /\ overtaken \in BOOLEAN

\* pressCompetition has shown the table and viewDidLoad has added the listener.
Init ==
    /\ table = NewTable(players)
    /\ stage = "closed"
    /\ match = NoMatch
    /\ sent = 0
    /\ underWay = {}
    /\ listed = table
    /\ fresh = TRUE
    /\ early = FALSE
    /\ overtaken = FALSE

-----------------------------------------------------------------------------
(***************************************************************************)
(* The person at the phone.                                                *)
(***************************************************************************)

\* Wrong: a match that is done can be finished again.
ChooseMatch_AlwaysPlay(ix) ==
    /\ stage = "closed"
    /\ ix[1] # ix[2]
    /\ match' = table.competitionTable[ix]
    /\ stage' = "play"
    /\ UNCHANGED <<table, sent, underWay, listed, fresh, early, overtaken>>

\* A tap on a cell (didSelectItemAt, chooseMatch, setupViews): the sheet takes a
\* copy, and offers the finish button only while it is not done.
ChooseMatch(ix) ==
    /\ stage = "closed"
    /\ ix[1] # ix[2]
    /\ LET m == table.competitionTable[ix]
       IN  /\ match' = IF m.isDone THEN NoMatch ELSE m
           /\ stage' = IF m.isDone THEN "shown" ELSE "play"
    /\ UNCHANGED <<table, sent, underWay, listed, fresh, early, overtaken>>

\* The listener may still be called with a table from before this moment.
CallsToCome == fresh \/ underWay # {}

\* Wrong: the table is sent before the match is put into it.
FinishMatch_SendsFirst(s1, s2) ==
    /\ stage = "play"
    /\ sent < MaxFinishes
    /\ sent' = sent + 1
    /\ table' = finishMatch(table, makeMatch(match, s1, s2))
    /\ stage' = "shown"
    /\ match' = NoMatch
    /\ underWay' = underWay \cup {table}
    /\ early' = (early \/ CallsToCome)
    /\ UNCHANGED <<listed, fresh, overtaken>>

\* The finish button, with a digit in both fields (MatchViewController's
\* finishMatch, then winning of the controller behind the sheet): the copy is
\* filled in and put into whatever table is shown by now, which is sent.
FinishMatch(s1, s2) ==
    /\ stage = "play"
    /\ sent < MaxFinishes
    /\ sent' = sent + 1
    /\ table' = finishMatch(table, makeMatch(match, s1, s2))
    /\ stage' = "shown"
    /\ match' = NoMatch
    /\ underWay' = underWay \cup {table'}
    /\ early' = (early \/ CallsToCome)
    /\ UNCHANGED <<listed, fresh, overtaken>>

\* The sheet is swiped away, or its two-second timer dismisses it.
CloseSheet ==
    /\ stage # "closed"
    /\ stage' = "closed"
    /\ match' = NoMatch
    /\ UNCHANGED <<table, sent, underWay, listed, fresh, early, overtaken>>

\* The screen is left, or the process ends (which may be with a sheet open),
\* and the competition is opened again: the static becomes the list's table, and
\* one more listener is added.
OpenAgain ==
    /\ table' = listed
    /\ stage' = "closed"
    /\ match' = NoMatch
    /\ fresh' = TRUE
    /\ early' = (early \/ table # listed)
    /\ UNCHANGED <<sent, underWay, listed, overtaken>>

-----------------------------------------------------------------------------
(***************************************************************************)
(* Firestore.  The transactions may be committed in any order, more than   *)
(* once or never, and a version may be skipped.                            *)
(***************************************************************************)

\* The closure of addListenerToCompetition is called with table t.
Assign(t) ==
    /\ table' = t
    /\ overtaken' = \/ overtaken
                    \/ stage = "play" /\ t.competitionTable[match.matchIndex].isDone

\* A table that was sent comes back.  What has just been received is not told
\* again.
Snapshot(t) ==
    /\ underWay' \in {underWay, underWay \ {t}}
    /\ listed' = t
    /\ IF t = listed THEN UNCHANGED <<table, fresh, overtaken>>
                     ELSE Assign(t) /\ fresh' = FALSE
    /\ UNCHANGED <<stage, match, sent, early>>

\* The first call of a new listener, with what was received last.
FirstSnapshot ==
    /\ fresh
    /\ fresh' = FALSE
    /\ Assign(listed)
    /\ UNCHANGED <<stage, match, sent, underWay, listed, early>>

\* The transaction fails, or its version is skipped.
Drop(t) ==
    /\ underWay' = underWay \ {t}
    /\ UNCHANGED <<table, stage, match, sent, listed, fresh, early, overtaken>>

-----------------------------------------------------------------------------
Next ==
    \/ \E ix \in MatchIndex(n) : ChooseMatch(ix)
    \/ \E s1, s2 \in Score : FinishMatch(s1, s2)
    \/ CloseSheet
    \/ OpenAgain
    \/ \E t \in underWay : Snapshot(t) \/ Drop(t)
    \/ FirstSnapshot

Spec == Init /\ [][Next]_vars

-----------------------------------------------------------------------------
(***************************************************************************)
(* Properties.                                                             *)
(***************************************************************************)

\* The two cells of a game agree on players, scores and winner, and the
\* diagonal stays empty, after any sequence of matches looked at and played
\* (finishMatch writes two cells, makeMirrorMatch recomputes the winner).
CellsAgree == \A t \in Tables : Mirrored(t) /\ DiagonalUnplayed(t)

\* qtyFinishedGames, which finishMatch raises without looking at the cell, is the
\* number of games that have a result, in every table, even when older tables
\* come back, get lost and are played on: only a match that comes back as done
\* behind the sheet on which it is being played is counted twice.
CountExact ==
    overtaken \/ \A t \in Tables : t.qtyFinishedGames = Cardinality(DoneGames(t))

\* isCompetitionFinished, which checkFinish raises on an equality of two
\* counters, says exactly that no game is left to play, with the same exception.
FinishedIffAllPlayed ==
    overtaken \/ \A t \in Tables :
        t.isCompetitionFinished <=> DoneGames(t) = Games(n)

\* The points of all players together (calculatePointsOfPlayer counts a row at
\* a time) are the games that did not end in a draw: a game is won once.
PointsAreDecidedGames ==
    MapThenSumSet(LAMBDA p : calculatePointsOfPlayer(table, p), 1..n)
        = Cardinality({ix \in DoneGames(table) :
              table.competitionTable[ix].scorePlayer1
                  # table.competitionTable[ix].scorePlayer2})

-----------------------------------------------------------------------------
(***************************************************************************)
(* The board implements Tournament: a game's result is the pair of scores  *)
(* in the cell above the diagonal.                                         *)
(***************************************************************************)
NoResult == <<>>

ResultOf(t, g) ==
    LET m == t.competitionTable[g]
    IN  IF m.isDone THEN <<m.scorePlayer1, m.scorePlayer2>> ELSE NoResult

T == INSTANCE Tournament WITH
        Game <- Games(n), Result <- Score \X Score,
        result <- [g \in Games(n) |-> ResultOf(table, g)],
        finished <- table.isCompetitionFinished

\* As long as the person finishes no match while the listener is still to be
\* called, and does not leave before the table is in the list, every step of the
\* board records one new result or changes none: no table that comes back takes
\* a result away or alters it, and the flag follows the games.  And whatever the
\* person does, a table without games left is flagged.
ImplementsTournament == T!Spec

=============================================================================
