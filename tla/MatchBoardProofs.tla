-------------------------- MODULE MatchBoardProofs --------------------------
(***************************************************************************)
(* What one person may rely on: MatchBoard keeps its tables sound, counts  *)
(* every game once unless a match was overtaken, and implements            *)
(* Tournament, for any number of players and any scores.                   *)
(*                                                                         *)
(* None of this is inductive alone, since a table can be any of those that *)
(* are under way.  TablesAreSound says of each place a table can be what   *)
(* FinishedIffAllPlayed and PointsAreDecidedGames need; SheetIsUnplayed,   *)
(* that the cell of the open match is without result in the table shown,   *)
(* unless it was overtaken; NothingOlder, that who waits is only ever      *)
(* brought back the table that is shown.                                   *)
(*                                                                         *)
(* The points of all players are a sum of counts.  It is compared with the *)
(* number of won cells, row by row, and these with the decided games, to   *)
(* which they correspond one to one.                                       *)
(***************************************************************************)
EXTENDS MatchBoard, CompetitionTableProofs, WellFoundedInduction

\* A match that was not played is without scores (NewMatch).
UnplayedHasNoWinner(t) ==
    \A ix \in MatchIndex(n) :
        LET m == t.competitionTable[ix]
        IN  ~ m.isDone => m.scorePlayer1 = m.scorePlayer2

TablesAreSound == \A t \in Tables : TableSound(t) /\ UnplayedHasNoWinner(t)

\* While a match can be finished, the sheet's copy is of a cell off the diagonal
\* and without result, as is that cell in the table shown by now.
SheetIsUnplayed ==
    stage = "play" =>
        /\ match \in Match(n)
        /\ match.matchIndex[1] # match.matchIndex[2]
        /\ ~ match.isDone
        /\ overtaken \/ ~ table.competitionTable[match.matchIndex].isDone

\* To who has waited, nothing but the table shown can come back.
NothingOlder ==
    ~ early =>
        /\ ~ overtaken
        /\ underWay \subseteq {table}
        /\ fresh => listed = table

BoardInv ==
    /\ TypeOK
    /\ TablesAreSound
    /\ CountExact
    /\ SheetIsUnplayed
    /\ NothingOlder

-----------------------------------------------------------------------------
\* There are at least two players, hence at least one game.
LEMMA SomeGame ==
    /\ n \in Nat
    /\ IsFiniteSet(Games(n))
    /\ Cardinality(Games(n)) = (n * n - n) \div 2
    /\ Cardinality(Games(n)) \in Nat \ {0}
<1>1. n \in Nat /\ n >= 2
  BY PlayersAssumption DEF n
<1>2. <<1, 2>> \in Games(n)
  BY <1>1 DEF Games, MatchIndex
<1>3. IsFiniteSet(Games(n)) /\ Cardinality(Games(n)) = (n * n - n) \div 2
  BY <1>1, GamesCount
<1>4. Cardinality(Games(n)) \in Nat /\ Cardinality(Games(n)) # 0
  BY <1>2, <1>3, FS_CardinalityType, FS_EmptySet
<1>. QED
  BY <1>1, <1>3, <1>4

\* The games that are done are counted by a natural number, at most all games.
LEMMA DoneGamesFinite ==
    ASSUME NEW t \in Table(n)
    PROVE  /\ DoneGames(t) \subseteq Games(n)
           /\ IsFiniteSet(DoneGames(t))
           /\ Cardinality(DoneGames(t)) \in Nat
           /\ Cardinality(DoneGames(t)) <= Cardinality(Games(n))
           /\ Cardinality(DoneGames(t)) = Cardinality(Games(n))
                <=> DoneGames(t) = Games(n)
<1>1. DoneGames(t) \subseteq Games(n)
  BY DEF DoneGames, Table
<1>. QED
  BY <1>1, SomeGame, FS_Subset, FS_CardinalityType

\* The table of a new competition satisfies the invariant.
LEMMA BoardInit == Init => BoardInv
<1>. SUFFICES ASSUME Init PROVE BoardInv
  OBVIOUS
<1>1. /\ table \in Table(n)
      /\ DoneGames(table) = {}
  BY PlayersAssumption, NewTableSound DEF Init, n
<1>2. TableSound(table) /\ table.qtyFinishedGames = 0
  BY PlayersAssumption, NewTableCounts DEF Init
<1>3. Tables = {table}
  BY DEF Init, Tables
<1>4. UnplayedHasNoWinner(table)
  <2>. SUFFICES ASSUME NEW ix \in MatchIndex(n)
                PROVE  table.competitionTable[ix].scorePlayer1
                         = table.competitionTable[ix].scorePlayer2
    BY DEF UnplayedHasNoWinner
  <2>1. table.competitionTable[ix] = NewMatch(players[ix[1]], players[ix[2]], ix)
    BY DEF Init, NewTable, createCompetitionTable, n
  <2>. QED
    BY <2>1 DEF NewMatch
<1>5. TypeOK
  BY <1>1, <1>3 DEF Init, TypeOK, Stage
<1>6. CountExact
  BY <1>1, <1>2, <1>3, FS_EmptySet DEF CountExact
<1>7. SheetIsUnplayed /\ NothingOlder
  BY DEF Init, SheetIsUnplayed, NothingOlder
<1>. QED
  BY <1>2, <1>3, <1>4, <1>5, <1>6, <1>7 DEF BoardInv, TablesAreSound

\* What finishing the match on the sheet does to the table shown by then.
LEMMA FinishStep ==
    ASSUME BoardInv, NEW s1 \in Score, NEW s2 \in Score, FinishMatch(s1, s2)
    PROVE  LET m == makeMatch(match, s1, s2)
               mx == match.matchIndex
               g == Upper(mx)
           IN  /\ m \in Match(n) /\ m.matchIndex = mx /\ m.isDone /\ WinnerByScore(m)
               /\ m.scorePlayer1 = s1 /\ m.scorePlayer2 = s2
               /\ mx \in MatchIndex(n) /\ mx[1] # mx[2]
               /\ g \in Games(n)
               /\ overtaken \/ g \notin DoneGames(table)
               /\ DoneGames(table') = DoneGames(table) \cup {g}
               /\ table' \in Table(n) /\ TableSound(table')
               /\ table'.qtyFinishedGames = table.qtyFinishedGames + 1
               /\ table'.competitionTable = [table.competitionTable EXCEPT ![mx] = m,
                     ![Swap(mx)] = makeMirrorMatch(m)]
<1>. DEFINE m == makeMatch(match, s1, s2)
            mx == match.matchIndex
            g == Upper(mx)
<1>1. /\ table \in Table(n) /\ n \in Nat /\ s1 \in Nat /\ s2 \in Nat
      /\ TableSound(table) /\ table.qtyPlayers = n
      /\ match \in Match(n) /\ ~ match.isDone /\ mx[1] # mx[2]
      /\ overtaken \/ ~ table.competitionTable[mx].isDone
  BY ScoreAssumption, SomeGame
     DEF BoardInv, TypeOK, Tables, TablesAreSound, SheetIsUnplayed, FinishMatch, Table
<1>2. mx \in MatchIndex(n)
  BY <1>1 DEF Match
<1>3. /\ m \in Match(n) /\ m.matchIndex = mx /\ m.isDone /\ WinnerByScore(m)
      /\ m.scorePlayer1 = s1 /\ m.scorePlayer2 = s2
  BY <1>1, MadeMatch
<1>4. table' = finishMatch(table, m)
  BY DEF FinishMatch
<1>. HIDE DEF m
<1>5. /\ table' \in Table(n)
      /\ table'.qtyFinishedGames = table.qtyFinishedGames + 1
      /\ table'.competitionTable = [table.competitionTable EXCEPT ![mx] = m,
            ![Swap(mx)] = makeMirrorMatch(m)]
  <2>1. /\ finishMatch(table, m) \in Table(n)
        /\ finishMatch(table, m).qtyFinishedGames = table.qtyFinishedGames + 1
        /\ finishMatch(table, m).competitionTable =
              [table.competitionTable EXCEPT ![m.matchIndex] = m,
                  ![Swap(m.matchIndex)] = makeMirrorMatch(m)]
    <3>1. n \in Nat /\ table \in Table(n) /\ m \in Match(n) /\ WinnerByScore(m)
      BY <1>1, <1>3
    <3>. QED
      BY <3>1, FinishedTable, Zenon
  <2>. QED
    BY <1>3, <1>4, <2>1, Zenon
<1>6. TableSound(table')
  BY <1>1, <1>3, <1>4, FinishedSound
<1>7. g \in Games(n) /\ DoneGames(table') = DoneGames(table) \cup {g}
  BY <1>1, <1>3, <1>4, FinishedDoneGames
<1>8. overtaken \/ g \notin DoneGames(table)
  <2>1. table.competitionTable[Swap(mx)] = makeMirrorMatch(table.competitionTable[mx])
    BY <1>1, <1>2 DEF TableSound, Mirrored
  <2>2. table.competitionTable[Swap(mx)].isDone = table.competitionTable[mx].isDone
    BY <2>1 DEF makeMirrorMatch
  <2>. QED
    BY <1>1, <1>2, <2>2 DEF DoneGames, Upper
<1>. QED
  BY <1>1, <1>2, <1>3, <1>5, <1>6, <1>7, <1>8 DEF m

\* A match that is finished leaves no cell with a winner and no result.
LEMMA FinishedUnplayed ==
    ASSUME BoardInv, NEW s1 \in Score, NEW s2 \in Score, FinishMatch(s1, s2)
    PROVE  UnplayedHasNoWinner(table')
<1>. DEFINE m == makeMatch(match, s1, s2)
            mx == match.matchIndex
<1>1. /\ m.isDone /\ mx \in MatchIndex(n)
      /\ table'.competitionTable = [table.competitionTable EXCEPT ![mx] = m,
            ![Swap(mx)] = makeMirrorMatch(m)]
  BY FinishStep
<1>. HIDE DEF m
<1>2. makeMirrorMatch(m).isDone
  BY <1>1 DEF makeMirrorMatch
<1>3. table.competitionTable \in [MatchIndex(n) -> Match(n)] /\ UnplayedHasNoWinner(table)
  BY DEF BoardInv, TypeOK, Tables, TablesAreSound, Table
<1>4. ASSUME NEW ix \in MatchIndex(n), ~ table'.competitionTable[ix].isDone
      PROVE  table'.competitionTable[ix] = table.competitionTable[ix]
  BY <1>1, <1>2, <1>3, <1>4
<1>. QED
  BY <1>3, <1>4 DEF UnplayedHasNoWinner

\* Finishing a match: only the new table has to be looked at.
LEMMA FinishKeeps ==
    ASSUME BoardInv, NEW s1 \in Score, NEW s2 \in Score, FinishMatch(s1, s2)
    PROVE  BoardInv'
<1>1. PICK g \in Games(n) :
         /\ overtaken \/ g \notin DoneGames(table)
         /\ DoneGames(table') = DoneGames(table) \cup {g}
         /\ table' \in Table(n) /\ TableSound(table')
         /\ table'.qtyFinishedGames = table.qtyFinishedGames + 1
  BY FinishStep
<1>2. Tables' \subseteq Tables \cup {table'}
  BY DEF FinishMatch, Tables
<1>3. table \in Table(n) /\ table \in Tables
  BY DEF BoardInv, TypeOK, Tables
<1>4. TypeOK'
  BY <1>1, <1>2 DEF BoardInv, TypeOK, FinishMatch, Stage
<1>5. TablesAreSound'
  BY <1>1, <1>2, FinishedUnplayed DEF BoardInv, TablesAreSound
<1>6. CountExact'
  <2>1. CASE overtaken
    BY <2>1 DEF FinishMatch, CountExact
  <2>2. CASE ~ overtaken
    <3>1. IsFiniteSet(DoneGames(table))
      BY <1>3, DoneGamesFinite
    <3>2. Cardinality(DoneGames(table')) = Cardinality(DoneGames(table)) + 1
      BY <1>1, <2>2, <3>1, FS_AddElement, Zenon
    <3>3. table'.qtyFinishedGames = Cardinality(DoneGames(table'))
      BY <1>1, <1>3, <2>2, <3>2 DEF BoardInv, CountExact
    <3>. QED
      BY <1>2, <2>2, <3>3 DEF BoardInv, CountExact
  <2>. QED
    BY <2>1, <2>2
<1>7. SheetIsUnplayed'
  BY DEF FinishMatch, SheetIsUnplayed
<1>8. NothingOlder'
  BY DEF BoardInv, FinishMatch, CallsToCome, NothingOlder
<1>. QED
  BY <1>4, <1>5, <1>6, <1>7, <1>8 DEF BoardInv

\* No other step makes a table that is not there already.
LEMMA TablesStay ==
    ASSUME BoardInv, Tables' \subseteq Tables, overtaken => overtaken',
           stage' \in Stage, match' \in Match(n) \cup {NoMatch}, sent' \in Nat,
           fresh' \in BOOLEAN, early' \in BOOLEAN, overtaken' \in BOOLEAN
    PROVE  TypeOK' /\ TablesAreSound' /\ CountExact'
BY DEF BoardInv, TypeOK, TablesAreSound, CountExact

\* A table that replaces the one shown does not take the match on the sheet by
\* surprise, or that is noticed (Assign).
LEMMA AssignedSheet ==
    ASSUME BoardInv, NEW t, Assign(t), UNCHANGED <<stage, match>>
    PROVE  /\ SheetIsUnplayed'
           /\ overtaken' \in BOOLEAN /\ (overtaken => overtaken')
           /\ t = table /\ ~ overtaken => ~ overtaken'
BY DEF BoardInv, TypeOK, Assign, SheetIsUnplayed

\* Every step of the board preserves the invariant.
LEMMA BoardStep == BoardInv /\ [Next]_vars => BoardInv'
<1>. SUFFICES ASSUME BoardInv, [Next]_vars PROVE BoardInv'
  OBVIOUS
<1>. USE DEF BoardInv
<1>1. ASSUME NEW ix \in MatchIndex(n), ChooseMatch(ix)
      PROVE  BoardInv'
  <2>. DEFINE m == table.competitionTable[ix]
  <2>1. /\ table' = table /\ UNCHANGED <<sent, underWay, listed, fresh, early, overtaken>>
        /\ match' = IF m.isDone THEN NoMatch ELSE m
        /\ stage' = IF m.isDone THEN "shown" ELSE "play"
        /\ ix[1] # ix[2]
    BY <1>1 DEF ChooseMatch
  <2>2. m \in Match(n) /\ m.matchIndex = ix
    <3>1. table \in Table(n) /\ Mirrored(table)
      BY DEF TypeOK, Tables, TablesAreSound, TableSound
    <3>. QED
      BY <3>1 DEF Table, Mirrored
  <2>3. TypeOK' /\ TablesAreSound' /\ CountExact'
    <3>1. Tables' \subseteq Tables
      BY <2>1 DEF Tables
    <3>2. stage' \in Stage /\ match' \in Match(n) \cup {NoMatch}
      BY <2>1, <2>2 DEF Stage
    <3>3. sent' \in Nat /\ fresh' \in BOOLEAN /\ early' \in BOOLEAN
          /\ overtaken' \in BOOLEAN /\ (overtaken => overtaken')
      BY <2>1 DEF TypeOK
    <3>. QED
      BY <3>1, <3>2, <3>3, TablesStay
  <2>4. SheetIsUnplayed'
    BY <2>1, <2>2 DEF SheetIsUnplayed
  <2>5. NothingOlder'
    BY <2>1 DEF NothingOlder
  <2>. QED
    BY <2>3, <2>4, <2>5
<1>2. ASSUME NEW s1 \in Score, NEW s2 \in Score, FinishMatch(s1, s2)
      PROVE  BoardInv'
  BY <1>2, FinishKeeps
<1>3. CASE CloseSheet
  <2>1. TypeOK' /\ TablesAreSound' /\ CountExact'
    BY <1>3 DEF CloseSheet, TypeOK, Tables, TablesAreSound, CountExact, Stage
  <2>2. SheetIsUnplayed' /\ NothingOlder'
    BY <1>3 DEF CloseSheet, SheetIsUnplayed, NothingOlder
  <2>. QED
    BY <2>1, <2>2
<1>4. CASE OpenAgain
  <2>1. TypeOK' /\ TablesAreSound' /\ CountExact'
    <3>1. Tables' \subseteq Tables
      BY <1>4 DEF OpenAgain, Tables
    <3>. QED
      BY <1>4, <3>1, TablesStay DEF OpenAgain, TypeOK, Stage
  <2>2. SheetIsUnplayed' /\ NothingOlder'
    BY <1>4 DEF OpenAgain, SheetIsUnplayed, NothingOlder
  <2>. QED
    BY <2>1, <2>2
<1>5. ASSUME NEW t \in underWay, Snapshot(t)
      PROVE  BoardInv'
  <2>1. /\ underWay' \subseteq underWay /\ listed' = t
        /\ UNCHANGED <<stage, match, sent, early>>
    BY <1>5 DEF Snapshot
  <2>2. CASE t = listed
    <3>1. UNCHANGED <<table, fresh, overtaken>>
      BY <1>5, <2>2 DEF Snapshot
    <3>2. Tables' \subseteq Tables
      BY <2>1, <2>2, <3>1 DEF Tables
    <3>3. TypeOK' /\ TablesAreSound' /\ CountExact'
      BY <2>1, <3>1, <3>2, TablesStay DEF TypeOK
    <3>4. SheetIsUnplayed' /\ NothingOlder'
      BY <2>1, <2>2, <3>1 DEF SheetIsUnplayed, NothingOlder
    <3>. QED
      BY <3>3, <3>4
  <2>3. CASE t # listed
    <3>1. Assign(t) /\ fresh' = FALSE
      BY <1>5, <2>3 DEF Snapshot
    <3>2. Tables' \subseteq Tables
      BY <2>1, <3>1 DEF Tables, Assign
    <3>3. /\ SheetIsUnplayed'
          /\ overtaken' \in BOOLEAN /\ (overtaken => overtaken')
          /\ t = table /\ ~ overtaken => ~ overtaken'
      BY <2>1, <3>1, AssignedSheet
    <3>4. TypeOK' /\ TablesAreSound' /\ CountExact'
      BY <2>1, <3>1, <3>2, <3>3, TablesStay DEF TypeOK
    <3>5. NothingOlder'
      BY <2>1, <3>1, <3>3 DEF NothingOlder, Assign
    <3>. QED
      BY <3>3, <3>4, <3>5
  <2>. QED
    BY <2>2, <2>3
<1>6. CASE FirstSnapshot
  <2>1. /\ Assign(listed) /\ fresh /\ fresh' = FALSE
        /\ UNCHANGED <<stage, match, sent, underWay, listed, early>>
    BY <1>6 DEF FirstSnapshot
  <2>2. Tables' \subseteq Tables
    BY <2>1 DEF Tables, Assign
  <2>3. /\ SheetIsUnplayed'
        /\ overtaken' \in BOOLEAN /\ (overtaken => overtaken')
        /\ listed = table /\ ~ overtaken => ~ overtaken'
    BY <2>1, AssignedSheet
  <2>4. TypeOK' /\ TablesAreSound' /\ CountExact'
    BY <2>1, <2>2, <2>3, TablesStay DEF TypeOK
  <2>5. NothingOlder'
    BY <2>1, <2>3 DEF NothingOlder, Assign
  <2>. QED
    BY <2>3, <2>4, <2>5
<1>7. ASSUME NEW t \in underWay, Drop(t)
      PROVE  BoardInv'
  <2>1. Tables' \subseteq Tables
    BY <1>7 DEF Drop, Tables
  <2>2. TypeOK' /\ TablesAreSound' /\ CountExact'
    BY <1>7, <2>1, TablesStay DEF Drop, TypeOK
  <2>3. SheetIsUnplayed' /\ NothingOlder'
    BY <1>7 DEF Drop, SheetIsUnplayed, NothingOlder
  <2>. QED
    BY <2>2, <2>3
<1>8. CASE UNCHANGED vars
  <2>1. TypeOK' /\ TablesAreSound' /\ CountExact'
    BY <1>8 DEF vars, TypeOK, Tables, TablesAreSound, CountExact
  <2>2. SheetIsUnplayed' /\ NothingOlder'
    BY <1>8 DEF vars, SheetIsUnplayed, NothingOlder
  <2>. QED
    BY <2>1, <2>2
<1>. QED
  BY <1>1, <1>2, <1>3, <1>4, <1>5, <1>6, <1>7, <1>8 DEF Next

\* The invariant holds in every state of the board.
THEOREM BoardInvariant == Spec => []BoardInv
BY BoardInit, BoardStep, PTL DEF Spec

\* Type correctness for any players and scores.
THEOREM BoardTypeOK == Spec => []TypeOK
<1>1. BoardInv => TypeOK
  BY DEF BoardInv
<1>. QED
  BY <1>1, BoardInvariant, PTL

\* For any players, and whatever comes back: the two cells of a game never
\* disagree (CellsAgree).
THEOREM BoardSound == Spec => []CellsAgree
<1>1. BoardInv => CellsAgree
  BY DEF BoardInv, TablesAreSound, TableSound, CellsAgree
<1>. QED
  BY <1>1, BoardInvariant, PTL

\* For any players: qtyFinishedGames is the number of games with a result in every
\* table that is shown, listed or under way, unless a match came back as done
\* while it was open to be played (CountExact).
THEOREM BoardCount == Spec => []CountExact
<1>1. BoardInv => CountExact
  BY DEF BoardInv
<1>. QED
  BY <1>1, BoardInvariant, PTL

\* The invariant makes the flag say that every game is done: the counter equals
\* the number of done games, and there are exactly qtyGames games.
LEMMA InvFinished == BoardInv => FinishedIffAllPlayed
<1>. SUFFICES ASSUME BoardInv, ~ overtaken, NEW t \in Tables
              PROVE  t.isCompetitionFinished <=> DoneGames(t) = Games(n)
  BY DEF FinishedIffAllPlayed
<1>1. /\ t \in Table(n) /\ CountCoversDone(t)
      /\ t.qtyFinishedGames = Cardinality(DoneGames(t))
  BY DEF BoardInv, TypeOK, TablesAreSound, TableSound, CountExact
<1>2. t.qtyGames = Cardinality(Games(n))
  BY <1>1, SomeGame DEF Table
<1>3. /\ Cardinality(DoneGames(t)) \in Nat /\ Cardinality(Games(n)) \in Nat
      /\ Cardinality(DoneGames(t)) <= Cardinality(Games(n))
      /\ Cardinality(DoneGames(t)) = Cardinality(Games(n)) <=> DoneGames(t) = Games(n)
  BY <1>1, SomeGame, DoneGamesFinite
<1>. QED
  BY <1>1, <1>2, <1>3 DEF CountCoversDone

\* For any players: isCompetitionFinished, raised by checkFinish on an equality
\* of counters, is up exactly when no game is left to play, with that exception.
THEOREM BoardFinished == Spec => []FinishedIffAllPlayed
BY BoardInvariant, InvFinished, PTL

\* Whatever the person does, a table without games left is flagged.
FullIsFlagged == DoneGames(table) = Games(n) => table.isCompetitionFinished

\* The flag follows a count that is not behind the games done.
LEMMA AllDoneIsFlagged == BoardInv => FullIsFlagged
<1>. SUFFICES ASSUME BoardInv, DoneGames(table) = Games(n)
              PROVE  table.isCompetitionFinished
  BY DEF FullIsFlagged
<1>1. table \in Table(n) /\ CountCoversDone(table)
  BY DEF BoardInv, TypeOK, Tables, TablesAreSound, TableSound
<1>2. table.qtyGames = Cardinality(Games(n)) /\ table.qtyFinishedGames \in Nat
  BY <1>1, SomeGame DEF Table
<1>. QED
  BY <1>1, <1>2, SomeGame DEF CountCoversDone

-----------------------------------------------------------------------------
\* The result of every game, as Tournament sees the table.
results == [g \in Games(n) |-> ResultOf(table, g)]

\* For who has waited, finishing a match records the result of its game and of
\* no other.
LEMMA FinishRecords ==
    ASSUME BoardInv, BoardInv', NEW s1 \in Score, NEW s2 \in Score,
           FinishMatch(s1, s2), ~ early'
    PROVE  \E g \in Games(n), r \in Score \X Score : T!Record(g, r)
<1>. DEFINE m == makeMatch(match, s1, s2)
            mx == match.matchIndex
            mm == makeMirrorMatch(m)
            g == Upper(mx)
            r == IF mx[1] < mx[2] THEN <<s1, s2>> ELSE <<s2, s1>>
<1>1. ~ early /\ early' = FALSE /\ ~ overtaken /\ ~ overtaken'
  BY DEF BoardInv, TypeOK, FinishMatch, NothingOlder
<1>2. /\ m \in Match(n) /\ m.matchIndex = mx /\ m.isDone /\ WinnerByScore(m)
      /\ m.scorePlayer1 = s1 /\ m.scorePlayer2 = s2
      /\ mx \in MatchIndex(n) /\ mx[1] # mx[2]
      /\ g \in Games(n) /\ g \notin DoneGames(table)
      /\ table'.competitionTable = [table.competitionTable EXCEPT ![mx] = m,
            ![Swap(mx)] = mm]
  BY <1>1, FinishStep
<1>3. mm.isDone /\ mm.scorePlayer1 = s2 /\ mm.scorePlayer2 = s1
  BY <1>2 DEF makeMirrorMatch
<1>4. /\ table \in Table(n) /\ table' \in Table(n) /\ n \in Nat
      /\ table.qtyPlayers = n /\ table'.qtyPlayers = n
      /\ DOMAIN table.competitionTable = MatchIndex(n)
      /\ mx[1] \in Int /\ mx[2] \in Int
  <2>1. table \in Table(n) /\ table' \in Table(n) /\ n \in Nat
    BY SomeGame DEF BoardInv, TypeOK, Tables
  <2>2. mx[1] \in Int /\ mx[2] \in Int
    BY <1>2, <2>1 DEF MatchIndex
  <2>. QED
    BY <2>1, <2>2 DEF Table
<1>5. Swap(mx) \in MatchIndex(n) /\ Swap(mx)[1] = mx[2] /\ Swap(mx)[2] = mx[1]
  BY <1>2, <1>4, SwapIndex
<1>. HIDE DEF m, mm, mx
<1>6. ResultOf(table, g) = NoResult
  BY <1>2, <1>4 DEF ResultOf, DoneGames
<1>7. ResultOf(table', g) = r
  BY <1>2, <1>3, <1>4, <1>5 DEF ResultOf, Upper
<1>8. ASSUME NEW h \in Games(n), h # g
      PROVE  ResultOf(table', h) = ResultOf(table, h)
  <2>1. h \in MatchIndex(n) /\ h[1] < h[2] /\ h[1] \in Int /\ h[2] \in Int
    BY DEF Games, MatchIndex
  <2>2. h # mx /\ h # Swap(mx)
    BY <1>2, <1>4, <1>5, <1>8, <2>1 DEF Upper
  <2>3. table'.competitionTable[h] = table.competitionTable[h]
    BY <1>2, <1>4, <1>5, <2>1, <2>2
  <2>. QED
    BY <2>3 DEF ResultOf
<1>9. results' = [results EXCEPT ![g] = r]
  BY <1>2, <1>7, <1>8 DEF results
<1>10. table'.isCompetitionFinished = (T!Recorded(results') = Games(n))
  <2>1. table'.isCompetitionFinished <=> DoneGames(table') = Games(n)
    <3>1. BoardInv' => FinishedIffAllPlayed'
      BY InvFinished, PTL
    <3>. QED
      BY <1>1, <3>1 DEF FinishedIffAllPlayed, Tables
  <2>2. table'.isCompetitionFinished \in BOOLEAN
    BY <1>4 DEF Table
  <2>3. T!Recorded(results') = DoneGames(table')
    <3>1. \A h \in Games(n) : ResultOf(table', h) # NoResult
                              <=> table'.competitionTable[h].isDone
      BY DEF ResultOf, NoResult
    <3>. QED
      BY <1>4, <3>1 DEF T!Recorded, results, DoneGames
  <2>. QED
    BY <2>1, <2>2, <2>3
<1>11. r \in Score \X Score
  OBVIOUS
<1>12. T!Record(g, r)
  BY <1>1, <1>2, <1>6, <1>9, <1>10 DEF T!Record, results
<1>. QED
  BY <1>2, <1>11, <1>12

\* Who has not waited may lose results, but a full table is flagged.
LEMMA EarlyStep ==
    ASSUME BoardInv', early'
    PROVE  T!NotWaited
<1>1. DoneGames(table') = Games(n) => table'.isCompetitionFinished
  <2>1. BoardInv' => FullIsFlagged'
    BY AllDoneIsFlagged, PTL
  <2>. QED
    BY <2>1 DEF FullIsFlagged
<1>2. early' = TRUE /\ table' \in Table(n) /\ table'.qtyPlayers = n
  BY DEF BoardInv, TypeOK, Tables, Table
<1>3. \A h \in Games(n) : ResultOf(table', h) # NoResult
                         <=> table'.competitionTable[h].isDone
  BY DEF ResultOf, NoResult
<1>4. T!Recorded([g \in Games(n) |-> ResultOf(table', g)]) = DoneGames(table')
  BY <1>2, <1>3 DEF T!Recorded, DoneGames
<1>. QED
  BY <1>1, <1>2, <1>4 DEF T!NotWaited

\* No other step of who has waited changes the table: what comes back, and what
\* the list has when the competition is opened again, is the table shown.
LEMMA OthersKeepTable ==
    ASSUME BoardInv, [Next]_vars, ~ early',
           \A s1, s2 \in Score : ~ FinishMatch(s1, s2)
    PROVE  UNCHANGED <<table, early>>
<1>1. ~ early \/ UNCHANGED <<table, early>>
  BY DEF Next, vars, ChooseMatch, CloseSheet, OpenAgain, Snapshot, FirstSnapshot, Drop
<1>2. CASE ~ early
  <2>1. underWay \subseteq {table} /\ (fresh => listed = table) /\ early \in BOOLEAN
    BY <1>2 DEF BoardInv, NothingOlder, TypeOK
  <2>. QED
    BY <1>2, <2>1 DEF Next, vars, ChooseMatch, CloseSheet, OpenAgain, Snapshot,
                      FirstSnapshot, Drop, Assign
<1>. QED
  BY <1>1, <1>2

\* The board implements Tournament, for any players and scores: as long as the
\* person waits, a result recorded through finishMatch is never changed, and the
\* flag follows.
THEOREM BoardImplementsTournament == Spec => ImplementsTournament
<1>1. BoardInv /\ Init => T!Init
  <2>. SUFFICES ASSUME BoardInv, Init PROVE T!Init
    OBVIOUS
  <2>1. DoneGames(table) = {} /\ table.qtyPlayers = n
    BY PlayersAssumption, NewTableSound DEF Init, n, BoardInv, TypeOK, Tables, Table
  <2>2. \A g \in Games(n) : ResultOf(table, g) = NoResult
    BY <2>1 DEF ResultOf, DoneGames
  <2>3. table.isCompetitionFinished = FALSE /\ early = FALSE
    BY DEF Init, NewTable
  <2>. QED
    BY <2>2, <2>3 DEF T!Init
<1>2. BoardInv /\ BoardInv' /\ [Next]_vars =>
        [T!Next]_<<[g \in Games(n) |-> ResultOf(table, g)], table.isCompetitionFinished,
                   early>>
  <2>. SUFFICES ASSUME BoardInv, BoardInv', [Next]_vars
                PROVE  \/ T!Next
                       \/ UNCHANGED <<[g \in Games(n) |-> ResultOf(table, g)],
                                      table.isCompetitionFinished, early>>
    OBVIOUS
  <2>1. CASE early'
    BY <2>1, EarlyStep DEF T!Next
  <2>2. ASSUME NEW s1 \in Score, NEW s2 \in Score, FinishMatch(s1, s2), ~ early'
        PROVE  T!Next
    BY <2>2, FinishRecords DEF T!Next
  <2>3. ASSUME UNCHANGED <<table, early>>
        PROVE  UNCHANGED <<[g \in Games(n) |-> ResultOf(table, g)],
                           table.isCompetitionFinished, early>>
    BY <2>3 DEF ResultOf
  <2>. QED
    BY <2>1, <2>2, <2>3, OthersKeepTable
<1>. QED
  BY <1>1, <1>2, BoardInvariant, PTL DEF Spec, ImplementsTournament, T!Spec

-----------------------------------------------------------------------------
(***************************************************************************)
(* The points of all players.  What MapThenSumSet adds up, row by row, is  *)
(* compared with a function that counts the won cells of a set of rows: a  *)
(* smallest set of rows for which the two differ cannot be.  A won cell    *)
(* and the game it belongs to determine each other.                        *)
(***************************************************************************)

\* The cells that are won, of a set of rows.
WonCells(s) == {ix \in MatchIndex(n) : ix[1] \in s /\ table.competitionTable[ix].isWinned}

\* The points of some players are the won cells of their rows.
CellsWonBy == [s \in SUBSET (1..n) |-> Cardinality(WonCells(s))]

\* There are finitely many players.
LEMMA PlayersFinite == IsFiniteSet(1..n)
<1>1. 1 \in Int /\ n \in Int
  BY SomeGame
<1>. QED
  BY <1>1, FS_Interval

\* There are finitely many won cells.
LEMMA WonCellsFinite ==
    ASSUME NEW s
    PROVE  IsFiniteSet(WonCells(s)) /\ Cardinality(WonCells(s)) \in Nat
<1>1. IsFiniteSet(MatchIndex(n))
  BY PlayersFinite, FS_Product, Zenon DEF MatchIndex
<1>2. WonCells(s) \in SUBSET MatchIndex(n)
  BY DEF WonCells
<1>. QED
  BY <1>1, <1>2, FS_Subset, FS_CardinalityType

\* A row more adds the points of its player.
LEMMA OneRowMore ==
    ASSUME table \in Table(n), NEW s \in SUBSET (1..n), NEW x \in s
    PROVE  CellsWonBy[s] = calculatePointsOfPlayer(table, x) + CellsWonBy[s \ {x}]
<1>. DEFINE Row == {j \in 1..n : table.competitionTable[<<x, j>>].isWinned}
            Rest == WonCells(s \ {x})
            f == [j \in Row |-> <<x, j>>]
<1>1. table.qtyPlayers = n /\ calculatePointsOfPlayer(table, x) = Cardinality(Row)
  BY DEF Table, calculatePointsOfPlayer
<1>2. CellsWonBy[s] = Cardinality(WonCells(s)) /\ CellsWonBy[s \ {x}] = Cardinality(Rest)
  BY DEF CellsWonBy
<1>3. Cardinality(Row) = Cardinality(WonCells({x})) /\ IsFiniteSet(Row)
  <2>1. IsFiniteSet(Row)
    BY PlayersFinite, FS_Subset
  <2>2. f \in Bijection(Row, WonCells({x}))
    <3>1. f \in [Row -> WonCells({x})]
      BY DEF WonCells, MatchIndex
    <3>2. \A i, j \in Row : f[i] = f[j] => i = j
      OBVIOUS
    <3>3. \A ix \in WonCells({x}) : ix[2] \in Row /\ f[ix[2]] = ix
      BY DEF WonCells, MatchIndex
    <3>. HIDE DEF f, Row
    <3>. QED
      BY <3>1, <3>2, <3>3, Fun_IsBij
  <2>. QED
    BY <2>1, <2>2, FS_Bijection DEF ExistsBijection
<1>4. WonCells(s) = WonCells({x}) \cup Rest /\ WonCells({x}) \cap Rest = {}
  BY DEF WonCells
<1>. HIDE DEF Row, Rest
<1>5. Cardinality(WonCells(s)) = Cardinality(WonCells({x})) + Cardinality(Rest)
  <2>1. /\ IsFiniteSet(WonCells({x})) /\ Cardinality(WonCells({x})) \in Nat
        /\ IsFiniteSet(Rest) /\ Cardinality(Rest) \in Nat
    BY WonCellsFinite DEF Rest
  <2>2. Cardinality(WonCells({x}) \cap Rest) = 0
    BY <1>4, FS_EmptySet, Zenon
  <2>3. Cardinality(WonCells({x}) \cup Rest) =
           Cardinality(WonCells({x})) + Cardinality(Rest) - Cardinality(WonCells({x}) \cap Rest)
    BY <2>1, FS_Union, Zenon
  <2>4. Cardinality(WonCells(s)) = Cardinality(WonCells({x}) \cup Rest)
    BY <1>4, Zenon
  <2>. QED
    BY <2>1, <2>2, <2>3, <2>4
<1>. QED
  BY <1>1, <1>2, <1>3, <1>5

\* So the sum over all players is the number of won cells.
LEMMA PointsAddUp ==
    ASSUME table \in Table(n)
    PROVE  MapThenSumSet(LAMBDA p : calculatePointsOfPlayer(table, p), 1..n)
             = CellsWonBy[1..n]
<1>. DEFINE Pick(s) == CHOOSE x \in s : TRUE
            Step(h) == [s \in SUBSET (1..n) |->
                          IF s = {} THEN 0
                          ELSE calculatePointsOfPlayer(table, Pick(s)) + h[s \ {Pick(s)}]]
            sum == CHOOSE h : h = Step(h)
<1>1. MapThenSumSet(LAMBDA p : calculatePointsOfPlayer(table, p), 1..n) = sum[1..n]
  BY Zenon DEF MapThenSumSet, MapThenFoldSet
<1>2. \A s \in SUBSET (1..n) : s # {} => Pick(s) \in s
  OBVIOUS
<1>3. CellsWonBy[{}] = 0
  BY FS_EmptySet DEF CellsWonBy, WonCells
<1>. HIDE DEF Pick
<1>4. CellsWonBy = Step(CellsWonBy)
  <2>1. ASSUME NEW s \in SUBSET (1..n) PROVE CellsWonBy[s] = Step(CellsWonBy)[s]
    BY <1>2, <1>3, OneRowMore
  <2>2. CellsWonBy = [s \in SUBSET (1..n) |-> CellsWonBy[s]]
    BY DEF CellsWonBy
  <2>. QED
    BY <2>1, <2>2
<1>5. sum = Step(sum)
  <2>. HIDE DEF Step
  <2>. QED
    BY <1>4, Zenon
<1>. HIDE DEF sum
<1>6. ASSUME NEW s0 \in SUBSET (1..n), sum[s0] # CellsWonBy[s0] PROVE FALSE
  <2>. DEFINE Sizes == {k \in Nat : \E s \in SUBSET (1..n) :
                           Cardinality(s) = k /\ sum[s] # CellsWonBy[s]}
  <2>1. \A s \in SUBSET (1..n) : IsFiniteSet(s) /\ Cardinality(s) \in Nat
    BY PlayersFinite, FS_Subset, FS_CardinalityType
  <2>2. Sizes \in SUBSET Nat /\ Sizes # {}
    BY <1>6, <2>1
  <2>3. PICK k \in Sizes : \A l \in Sizes : <<l, k>> \notin OpToRel(<, Nat)
    BY <2>2, WFMin, NatLessThanWellFounded
  <2>4. PICK s \in SUBSET (1..n) : Cardinality(s) = k /\ sum[s] # CellsWonBy[s]
    OBVIOUS
  <2>5. s # {}
    BY <1>3, <1>5, <2>4
  <2>6. PICK x \in s : x = Pick(s)
    BY <1>2, <2>5
  <2>7. s \ {x} \in SUBSET (1..n) /\ Cardinality(s \ {x}) = k - 1
    BY <2>1, <2>4, FS_RemoveElement
  <2>8. sum[s \ {x}] = CellsWonBy[s \ {x}]
    <3>1. k - 1 \in Nat /\ k \in Nat
      BY <2>1, <2>2, <2>7
    <3>2. <<k - 1, k>> \in OpToRel(<, Nat)
      BY <3>1 DEF OpToRel
    <3>3. k - 1 \notin Sizes
      BY <2>3, <3>2
    <3>. QED
      BY <2>7, <3>1, <3>3
  <2>9. sum[s] = calculatePointsOfPlayer(table, x) + sum[s \ {x}]
    BY <1>5, <2>5, <2>6
  <2>. QED
    BY <2>4, <2>8, <2>9, OneRowMore
<1>. QED
  BY <1>1, <1>6

\* A won cell is of a game that was decided, and of every such game one cell is.
LEMMA WonCellsAreDecidedGames ==
    ASSUME BoardInv
    PROVE  Cardinality(WonCells(1..n)) =
             Cardinality({ix \in DoneGames(table) :
                 table.competitionTable[ix].scorePlayer1
                     # table.competitionTable[ix].scorePlayer2})
<1>. DEFINE cell == table.competitionTable
            Decided == {ix \in DoneGames(table) : cell[ix].scorePlayer1 # cell[ix].scorePlayer2}
            f == [ix \in WonCells(1..n) |-> Upper(ix)]
            Winner(ix) == IF cell[ix].scorePlayer1 > cell[ix].scorePlayer2 THEN ix ELSE Swap(ix)
<1>1. /\ table \in Table(n) /\ n \in Nat /\ table.qtyPlayers = n /\ Mirrored(table)
      /\ cell \in [MatchIndex(n) -> Match(n)]
  BY SomeGame DEF BoardInv, TypeOK, Tables, TablesAreSound, TableSound, Table
<1>2. ASSUME NEW ix \in MatchIndex(n)
      PROVE  /\ Swap(ix) \in MatchIndex(n) /\ Swap(Swap(ix)) = ix
             /\ Swap(ix)[1] = ix[2] /\ Swap(ix)[2] = ix[1]
             /\ cell[ix].scorePlayer1 \in Nat /\ cell[ix].scorePlayer2 \in Nat
             /\ cell[ix].isWinned = (cell[ix].scorePlayer1 > cell[ix].scorePlayer2)
             /\ cell[Swap(ix)].scorePlayer1 = cell[ix].scorePlayer2
             /\ cell[Swap(ix)].scorePlayer2 = cell[ix].scorePlayer1
             /\ cell[Swap(ix)].isDone = cell[ix].isDone
             /\ ix[1] \in 1..n /\ ix[2] \in 1..n
             /\ ix[1] = ix[2] => Swap(ix) = ix
             /\ ~ cell[ix].isDone => cell[ix].scorePlayer1 = cell[ix].scorePlayer2
  <2>1. cell[ix] \in Match(n)
    BY <1>1
  <2>2. cell[Swap(ix)] = makeMirrorMatch(cell[ix])
        /\ cell[ix].isWinned = (cell[ix].scorePlayer1 > cell[ix].scorePlayer2)
    BY <1>1 DEF Mirrored
  <2>3. /\ cell[Swap(ix)].scorePlayer1 = cell[ix].scorePlayer2
        /\ cell[Swap(ix)].scorePlayer2 = cell[ix].scorePlayer1
        /\ cell[Swap(ix)].isDone = cell[ix].isDone
    BY <2>2 DEF makeMirrorMatch
  <2>4. cell[ix].scorePlayer1 \in Nat /\ cell[ix].scorePlayer2 \in Nat
    BY <2>1 DEF Match
  <2>5. ix[1] \in 1..n /\ ix[2] \in 1..n /\ (ix[1] = ix[2] => Swap(ix) = ix)
    BY DEF MatchIndex, Swap
  <2>6. ~ cell[ix].isDone => cell[ix].scorePlayer1 = cell[ix].scorePlayer2
    BY DEF BoardInv, Tables, TablesAreSound, UnplayedHasNoWinner
  <2>. QED
    BY <1>1, <2>2, <2>3, <2>4, <2>5, <2>6, SwapIndex
<1>3. \A ix \in WonCells(1..n) :
         /\ ix \in MatchIndex(n) /\ cell[ix].scorePlayer1 > cell[ix].scorePlayer2
         /\ ix[1] # ix[2] /\ cell[ix].isDone
  <2>. SUFFICES ASSUME NEW ix \in WonCells(1..n)
                PROVE  /\ ix \in MatchIndex(n) /\ cell[ix].scorePlayer1 > cell[ix].scorePlayer2
                       /\ ix[1] # ix[2] /\ cell[ix].isDone
    OBVIOUS
  <2>1. ix \in MatchIndex(n) /\ cell[ix].isWinned
    BY DEF WonCells
  <2>2. cell[ix].scorePlayer1 > cell[ix].scorePlayer2
    BY <1>2, <2>1
  <2>. QED
    BY <1>2, <2>1, <2>2
<1>4. \A ix : ix \in Decided <=>
         /\ ix \in MatchIndex(n) /\ ix[1] < ix[2]
         /\ cell[ix].isDone /\ cell[ix].scorePlayer1 # cell[ix].scorePlayer2
  BY <1>1 DEF DoneGames, Games
<1>5. \A ix \in MatchIndex(n) : cell[ix].scorePlayer1 > cell[ix].scorePlayer2 => ix \in WonCells(1..n)
  BY <1>2 DEF WonCells
<1>. HIDE DEF cell, Decided
<1>6. f \in [WonCells(1..n) -> Decided]
  <2>. SUFFICES ASSUME NEW ix \in WonCells(1..n) PROVE Upper(ix) \in Decided
    OBVIOUS
  <2>1. ix \in MatchIndex(n) /\ cell[ix].scorePlayer1 > cell[ix].scorePlayer2
        /\ ix[1] # ix[2] /\ cell[ix].isDone
    BY <1>3
  <2>2. CASE ix[1] < ix[2]
    BY <1>2, <1>4, <2>1, <2>2 DEF Upper
  <2>3. CASE ~ (ix[1] < ix[2])
    <3>1. Swap(ix)[1] < Swap(ix)[2]
      BY <1>2, <2>1, <2>3
    <3>2. cell[Swap(ix)].isDone /\ cell[Swap(ix)].scorePlayer1 # cell[Swap(ix)].scorePlayer2
      BY <1>2, <2>1
    <3>. QED
      BY <1>2, <1>4, <2>1, <2>3, <3>1, <3>2 DEF Upper
  <2>. QED
    BY <2>2, <2>3
<1>7. ASSUME NEW ix \in WonCells(1..n), NEW jx \in WonCells(1..n), Upper(ix) = Upper(jx)
      PROVE  ix = jx
  <2>1. /\ ix \in MatchIndex(n) /\ cell[ix].scorePlayer1 > cell[ix].scorePlayer2
        /\ jx \in MatchIndex(n) /\ cell[jx].scorePlayer1 > cell[jx].scorePlayer2
    BY <1>3
  <2>2. ix = jx \/ ix = Swap(jx)
    BY <1>2, <1>7, <2>1 DEF Upper
  <2>3. ix # Swap(jx)
    BY <1>2, <2>1
  <2>. QED
    BY <2>2, <2>3
<1>8. ASSUME NEW ix \in Decided
      PROVE  Winner(ix) \in WonCells(1..n) /\ Upper(Winner(ix)) = ix
  <2>1. ix \in MatchIndex(n) /\ ix[1] < ix[2] /\ cell[ix].scorePlayer1 # cell[ix].scorePlayer2
    BY <1>4
  <2>2. CASE cell[ix].scorePlayer1 > cell[ix].scorePlayer2
    BY <1>5, <2>1, <2>2 DEF Upper
  <2>3. CASE ~ (cell[ix].scorePlayer1 > cell[ix].scorePlayer2)
    <3>1. Swap(ix) \in MatchIndex(n)
          /\ cell[Swap(ix)].scorePlayer1 > cell[Swap(ix)].scorePlayer2
      BY <1>2, <2>1, <2>3
    <3>2. ~ (Swap(ix)[1] < Swap(ix)[2]) /\ Swap(Swap(ix)) = ix
      BY <1>2, <2>1
    <3>. QED
      BY <1>5, <2>3, <3>1, <3>2 DEF Upper
  <2>. QED
    BY <2>2, <2>3
<1>9. f \in Bijection(WonCells(1..n), Decided)
  <2>1. \A ix, jx \in WonCells(1..n) : f[ix] = f[jx] => ix = jx
    BY <1>7
  <2>2. \A ix \in Decided : \E w \in WonCells(1..n) : f[w] = ix
    BY <1>8
  <2>. HIDE DEF f
  <2>. QED
    BY <1>6, <2>1, <2>2, Fun_IsBij
<1>. QED
  BY <1>9, WonCellsFinite, FS_Bijection DEF ExistsBijection, Decided, cell

\* The points of all players together are the games that did not end in a draw,
\* for any number of players (calculatePointsOfPlayer, makeMirrorMatch).
THEOREM BoardPoints == Spec => []PointsAreDecidedGames
<1>1. BoardInv => PointsAreDecidedGames
  <2>. SUFFICES ASSUME BoardInv PROVE PointsAreDecidedGames
    OBVIOUS
  <2>1. table \in Table(n)
    BY DEF BoardInv, TypeOK, Tables
  <2>2. CellsWonBy[1..n] = Cardinality(WonCells(1..n))
    BY DEF CellsWonBy
  <2>. QED
    BY <2>1, <2>2, PointsAddUp, WonCellsAreDecidedGames, Zenon DEF PointsAreDecidedGames
<1>. QED
  BY <1>1, BoardInvariant, PTL

=============================================================================
