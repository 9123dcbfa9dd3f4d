-------------------------- MODULE CompetitionTable --------------------------
(***************************************************************************)
(* The round-robin table of a competition and the matches it is made of:   *)
(* Models/CompetitionTable.swift, Models/Match.swift, MatchIndex.swift.    *)
(* Everything here is a value (the Swift types are structs): the modules   *)
(* that EXTEND this one keep such values in their variables.               *)
(*                                                                         *)
(* Indices start at 1 here and at 0 in the code.  A MatchIndex is the pair *)
(* <<indexOfPlayer, indexOfMatch>>, a table the function from those pairs  *)
(* to matches that the code keeps as an array of arrays.                   *)
(***************************************************************************)
EXTENDS Integers, Sequences, FiniteSets

CONSTANTS
    User,   \* the people who play
    Score   \* what the one-character field of the match sheet can hold

ASSUME ScoreAssumption == Score \subseteq Nat

MatchIndex(n) == (1..n) \X (1..n)

Swap(ix) == <<ix[2], ix[1]>>

(***************************************************************************)
(* Match.init: a match that has not been played.                           *)
(***************************************************************************)
NewMatch(p1, p2, ix) ==
    [player1 |-> p1, player2 |-> p2, isDone |-> FALSE, isWinned |-> FALSE,
     scorePlayer1 |-> 0, scorePlayer2 |-> 0, matchIndex |-> ix]

\* makeMatch: the result is entered once; a match that is done stays as it is.
makeMatch(m, s1, s2) ==
    IF m.isDone THEN m
    ELSE [m EXCEPT !.scorePlayer1 = s1, !.scorePlayer2 = s2,
                   !.isDone = TRUE, !.isWinned = s1 > s2]

\* Wrong forms of makeMirrorMatch: the scores or the win are those of the match
\* itself.  A definition whose name has a suffix is such a wrong form, of the
\* definition that follows; no specification uses it, and the properties are
\* tried against it.
makeMirrorMatch_SameScores(m) ==
    [player1 |-> m.player2, player2 |-> m.player1,
     isDone |-> m.isDone, isWinned |-> ~ m.isWinned,
     scorePlayer1 |-> m.scorePlayer1, scorePlayer2 |-> m.scorePlayer2,
     matchIndex |-> Swap(m.matchIndex)]

makeMirrorMatch_SameWin(m) ==
    [player1 |-> m.player2, player2 |-> m.player1,
     isDone |-> m.isDone, isWinned |-> m.isWinned,
     scorePlayer1 |-> m.scorePlayer2, scorePlayer2 |-> m.scorePlayer1,
     matchIndex |-> Swap(m.matchIndex)]

\* makeMirrorMatch: the same match seen by the other player.
makeMirrorMatch(m) ==
    [player1 |-> m.player2, player2 |-> m.player1,
     isDone |-> m.isDone, isWinned |-> m.scorePlayer2 > m.scorePlayer1,
     scorePlayer1 |-> m.scorePlayer2, scorePlayer2 |-> m.scorePlayer1,
     matchIndex |-> Swap(m.matchIndex)]

-----------------------------------------------------------------------------
\* Wrong: the row that a match remembers counts from another base.
createCompetitionTable_Shifted(playersArray) ==
    [ix \in MatchIndex(Len(playersArray)) |->
        NewMatch(playersArray[ix[1]], playersArray[ix[2]], <<ix[1] - 1, ix[2]>>)]

(***************************************************************************)
(* CompetitionTable.init: every cell of the square, the diagonal included, *)
(* is a match to be played.                                                *)
(***************************************************************************)
createCompetitionTable(playersArray) ==
    [ix \in MatchIndex(Len(playersArray)) |->
        NewMatch(playersArray[ix[1]], playersArray[ix[2]], ix)]

NewTable(playersArray) ==
    [competitionTable      |-> createCompetitionTable(playersArray),
     qtyPlayers            |-> Len(playersArray),
     qtyGames              |-> (Len(playersArray) * Len(playersArray)
                                  - Len(playersArray)) \div 2,
     qtyFinishedGames      |-> 0,
     isCompetitionFinished |-> FALSE]

\* checkFinish: the flag is raised when the count is hit exactly, never lowered.
checkFinish(t) ==
    IF t.qtyFinishedGames = t.qtyGames
    THEN [t EXCEPT !.isCompetitionFinished = TRUE]
    ELSE t

\* Wrong: the mirror is counted as well; the flag is decided before the count.
finishMatch_CountsMirror(t, m) ==
    LET mirror == makeMirrorMatch(m)
    IN  checkFinish([t EXCEPT
            !.competitionTable = [@ EXCEPT ![m.matchIndex] = m,
                                           ![mirror.matchIndex] = mirror],
            !.qtyFinishedGames = @ + 2])

finishMatch_ChecksFirst(t, m) ==
    LET mirror == makeMirrorMatch(m)
    IN  [checkFinish(t) EXCEPT
            !.competitionTable = [@ EXCEPT ![m.matchIndex] = m,
                                           ![mirror.matchIndex] = mirror],
            !.qtyFinishedGames = @ + 1]

\* finishMatch: the match, its mirror, the count and the flag.
finishMatch(t, m) ==
    LET mirror == makeMirrorMatch(m)
    IN  checkFinish([t EXCEPT
            !.competitionTable = [@ EXCEPT ![m.matchIndex] = m,
                                           ![mirror.matchIndex] = mirror],
            !.qtyFinishedGames = @ + 1])

\* The indices at which the code can read or write the table without a trap.
InTable(t, ix) == ix \in MatchIndex(t.qtyPlayers)

\* calculatePointsOfPlayer: the matches of row p that are won.
calculatePointsOfPlayer(t, p) ==
    Cardinality({j \in 1..t.qtyPlayers : t.competitionTable[<<p, j>>].isWinned})

-----------------------------------------------------------------------------
(***************************************************************************)
(* What is said of a table.  A game is one pair of players, named by the   *)
(* cell above the diagonal.                                                *)
(***************************************************************************)
Games(n) == {ix \in MatchIndex(n) : ix[1] < ix[2]}

DoneGames(t) == {ix \in Games(t.qtyPlayers) : t.competitionTable[ix].isDone}

Match(n) ==
    [player1 : User, player2 : User, isDone : BOOLEAN, isWinned : BOOLEAN,
     scorePlayer1 : Nat, scorePlayer2 : Nat, matchIndex : MatchIndex(n)]

Table(n) ==
    [competitionTable : [MatchIndex(n) -> Match(n)], qtyPlayers : {n},
     qtyGames : {(n * n - n) \div 2}, qtyFinishedGames : Nat,
     isCompetitionFinished : BOOLEAN]

\* The two cells of a game tell the same story, and a win is a higher score.
Mirrored(t) ==
    \A ix \in MatchIndex(t.qtyPlayers) :
        LET m == t.competitionTable[ix]
        IN  /\ m.matchIndex = ix
            /\ m.isWinned = (m.scorePlayer1 > m.scorePlayer2)
            /\ t.competitionTable[Swap(ix)] = makeMirrorMatch(m)

\* Nobody plays against himself: the diagonal is never recorded.
DiagonalUnplayed(t) ==
    \A p \in 1..t.qtyPlayers : ~ t.competitionTable[<<p, p>>].isDone

\* The count never falls behind the games that are done, and the flag is
\* raised as soon as the count has reached the number of games.
CountCoversDone(t) ==
    /\ t.qtyFinishedGames >= Cardinality(DoneGames(t))
    /\ t.isCompetitionFinished <=> t.qtyFinishedGames >= t.qtyGames

=============================================================================
