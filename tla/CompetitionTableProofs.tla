----------------------- MODULE CompetitionTableProofs -----------------------
(***************************************************************************)
(* Facts about the values of CompetitionTable, for any number of players.  *)
(* MatchBoardProofs and CompetitionSyncProofs rest on them.                *)
(***************************************************************************)
EXTENDS CompetitionTable, FiniteSetTheorems, FunctionTheorems, TLAPS

\* A match whose winner is the higher score, as makeMatch leaves it.
WinnerByScore(m) == m.isWinned = (m.scorePlayer1 > m.scorePlayer2)

\* Swapping an index stays in the table and undoes itself.
LEMMA SwapIndex ==
    ASSUME NEW n \in Nat, NEW ix \in MatchIndex(n)
    PROVE  /\ Swap(ix) \in MatchIndex(n)
           /\ Swap(Swap(ix)) = ix
           /\ Swap(ix)[1] = ix[2] /\ Swap(ix)[2] = ix[1]
BY DEF MatchIndex, Swap

\* The mirror of a match (makeMirrorMatch) is a match, its winner follows from
\* its scores, and mirroring it again gives the match back.
LEMMA MirrorMatch ==
    ASSUME NEW n \in Nat, NEW m \in Match(n), WinnerByScore(m)
    PROVE  /\ makeMirrorMatch(m) \in Match(n)
           /\ makeMirrorMatch(m).matchIndex = Swap(m.matchIndex)
           /\ makeMirrorMatch(m).isDone = m.isDone
           /\ WinnerByScore(makeMirrorMatch(m))
           /\ makeMirrorMatch(makeMirrorMatch(m)) = m
<1>. m.matchIndex \in MatchIndex(n)
  BY DEF Match
<1>. QED
  BY SwapIndex DEF Match, makeMirrorMatch, WinnerByScore

\* What makeMatch makes of a match that is not done.
LEMMA MadeMatch ==
    ASSUME NEW n \in Nat, NEW m \in Match(n), ~ m.isDone,
           NEW s1 \in Nat, NEW s2 \in Nat
    PROVE  /\ makeMatch(m, s1, s2) \in Match(n)
           /\ makeMatch(m, s1, s2).matchIndex = m.matchIndex
           /\ makeMatch(m, s1, s2).isDone
           /\ makeMatch(m, s1, s2).scorePlayer1 = s1
           /\ makeMatch(m, s1, s2).scorePlayer2 = s2
           /\ WinnerByScore(makeMatch(m, s1, s2))
<1>. DEFINE w == makeMatch(m, s1, s2)
<1>1. w = [m EXCEPT !.scorePlayer1 = s1, !.scorePlayer2 = s2,
                    !.isDone = TRUE, !.isWinned = s1 > s2]
  BY DEF makeMatch
<1>. HIDE DEF w
<1>2. (s1 > s2) \in BOOLEAN
  OBVIOUS
<1>3. w \in Match(n)
  <2>1. ASSUME NEW b \in BOOLEAN
        PROVE  [m EXCEPT !.scorePlayer1 = s1, !.scorePlayer2 = s2,
                         !.isDone = TRUE, !.isWinned = b] \in Match(n)
    BY Zenon DEF Match
  <2>. QED
    BY <1>1, <1>2, <2>1, Zenon
<1>4. /\ w.matchIndex = m.matchIndex
      /\ w.scorePlayer1 = s1 /\ w.scorePlayer2 = s2
  BY <1>1, SMT DEF Match
<1>5. w.isDone
  BY <1>1, SMT DEF Match
<1>6. w.isWinned = (s1 > s2)
  BY <1>1, SMT DEF Match
<1>. QED
  BY <1>3, <1>4, <1>5, <1>6 DEF w, WinnerByScore

\* A match that has not been played (Match.init) is its mirror's mirror.
LEMMA UnplayedMatch ==
    ASSUME NEW n \in Nat, NEW ix \in MatchIndex(n), NEW p \in User, NEW q \in User
    PROVE  /\ NewMatch(p, q, ix) \in Match(n)
           /\ NewMatch(p, q, ix).matchIndex = ix
           /\ ~ NewMatch(p, q, ix).isDone
           /\ WinnerByScore(NewMatch(p, q, ix))
           /\ makeMirrorMatch(NewMatch(p, q, ix)) = NewMatch(q, p, Swap(ix))
<1>1. NewMatch(p, q, ix) \in Match(n)
  BY DEF NewMatch, Match
<1>2. ~ NewMatch(p, q, ix).isDone /\ NewMatch(p, q, ix).matchIndex = ix
  BY DEF NewMatch
<1>. DEFINE m == NewMatch(p, q, ix)
<1>a. /\ m.player1 = p /\ m.player2 = q
      /\ m.scorePlayer1 = 0 /\ m.scorePlayer2 = 0
  BY DEF NewMatch
<1>b. m.isWinned = FALSE /\ m.isDone = FALSE
  BY DEF NewMatch
<1>c. (0 > 0) = FALSE
  OBVIOUS
<1>. HIDE DEF m
<1>3. WinnerByScore(m)
  BY <1>a, <1>b, <1>c, Zenon DEF WinnerByScore
<1>4. makeMirrorMatch(m) = NewMatch(q, p, Swap(ix))
  BY <1>2, <1>a, <1>b, <1>c, Zenon DEF makeMirrorMatch, NewMatch, m
<1>. QED
  BY <1>1, <1>2, <1>3, <1>4 DEF m

\* The table of a new competition (CompetitionTable.init).
LEMMA NewTableSound ==
    ASSUME NEW playersArray \in Seq(User)
    PROVE  /\ NewTable(playersArray) \in Table(Len(playersArray))
           /\ Mirrored(NewTable(playersArray))
           /\ DiagonalUnplayed(NewTable(playersArray))
           /\ DoneGames(NewTable(playersArray)) = {}
<1>. DEFINE n == Len(playersArray)
            cells == createCompetitionTable(playersArray)
            t == NewTable(playersArray)
            cell(ix) == NewMatch(playersArray[ix[1]], playersArray[ix[2]], ix)
<1>1. n \in Nat
  OBVIOUS
<1>2. \A ix \in MatchIndex(n) :
        playersArray[ix[1]] \in User /\ playersArray[ix[2]] \in User
  BY DEF MatchIndex
<1>3. cells = [ix \in MatchIndex(n) |-> cell(ix)]
  BY DEF createCompetitionTable
<1>4. \A ix \in MatchIndex(n) : cell(ix) \in Match(n)
  BY <1>1, <1>2, UnplayedMatch
<1>5. cells \in [MatchIndex(n) -> Match(n)]
  <2>. HIDE DEF cell
  <2>. QED
    BY <1>3, <1>4
<1>6. t.competitionTable = cells /\ t.qtyPlayers = n
  BY DEF NewTable
<1>7. t \in Table(n)
  <2>. HIDE DEF cells
  <2>1. t = [competitionTable |-> cells, qtyPlayers |-> n,
             qtyGames |-> (n * n - n) \div 2,
             qtyFinishedGames |-> 0, isCompetitionFinished |-> FALSE]
    BY DEF NewTable, cells
  <2>. QED
    BY <1>5, <2>1 DEF Table
<1>8. ASSUME NEW ix \in MatchIndex(n)
      PROVE  /\ cells[ix].matchIndex = ix
             /\ WinnerByScore(cells[ix])
             /\ ~ cells[ix].isDone
             /\ cells[Swap(ix)] = makeMirrorMatch(cells[ix])
  <2>1. Swap(ix) \in MatchIndex(n) /\ Swap(ix)[1] = ix[2] /\ Swap(ix)[2] = ix[1]
    BY <1>1, SwapIndex
  <2>2. cells[ix] = cell(ix)
    BY <1>3
  <2>3. cells[Swap(ix)] = NewMatch(playersArray[ix[2]], playersArray[ix[1]], Swap(ix))
    BY <1>3, <2>1
  <2>. QED
    BY <1>1, <1>2, <2>2, <2>3, UnplayedMatch
<1>. HIDE DEF t, cells
<1>9. Mirrored(t)
  BY <1>6, <1>8 DEF Mirrored, WinnerByScore
<1>10. DiagonalUnplayed(t)
  BY <1>6, <1>8 DEF DiagonalUnplayed, MatchIndex
<1>11. DoneGames(t) = {}
  BY <1>6, <1>8 DEF DoneGames, Games
<1>. QED
  BY <1>7, <1>9, <1>10, <1>11 DEF t

\* The game of a match is named by the cell above the diagonal.
Upper(ix) == IF ix[1] < ix[2] THEN ix ELSE Swap(ix)

\* finishMatch, field by field.
LEMMA FinishedTable ==
    ASSUME NEW n \in Nat, NEW t \in Table(n), NEW m \in Match(n), WinnerByScore(m)
    PROVE  /\ finishMatch(t, m) \in Table(n)
           /\ finishMatch(t, m).competitionTable =
                 [t.competitionTable EXCEPT ![m.matchIndex] = m,
                     ![Swap(m.matchIndex)] = makeMirrorMatch(m)]
           /\ finishMatch(t, m).qtyFinishedGames = t.qtyFinishedGames + 1
           /\ finishMatch(t, m).isCompetitionFinished <=>
                 \/ t.isCompetitionFinished
                 \/ t.qtyFinishedGames + 1 = t.qtyGames
<1>. DEFINE mm == makeMirrorMatch(m)
            cells == [t.competitionTable EXCEPT ![m.matchIndex] = m,
                                                ![Swap(m.matchIndex)] = mm]
            v == [t EXCEPT !.competitionTable = cells, !.qtyFinishedGames = @ + 1]
            u == finishMatch(t, m)
<1>1. mm.matchIndex = Swap(m.matchIndex)
  BY DEF makeMirrorMatch
<1>2. u = checkFinish(v)
  BY <1>1 DEF finishMatch
<1>3. cells \in [MatchIndex(n) -> Match(n)]
  <2>1. mm \in Match(n)
    BY MirrorMatch
  <2>2. t.competitionTable \in [MatchIndex(n) -> Match(n)]
    BY DEF Table
  <2>. HIDE DEF mm
  <2>. QED
    BY <2>1, <2>2
<1>. HIDE DEF cells
<1>4. /\ v.competitionTable = cells
      /\ v.qtyGames = t.qtyGames
      /\ v.qtyFinishedGames = t.qtyFinishedGames + 1
      /\ v.isCompetitionFinished = t.isCompetitionFinished
  BY DEF Table
<1>5. v \in Table(n)
  <2>1. t.qtyFinishedGames + 1 \in Nat
    BY DEF Table
  <2>. QED
    BY <1>3, <2>1, Zenon DEF Table
<1>. HIDE DEF v, u
<1>6. CASE v.qtyFinishedGames = v.qtyGames
  <2>1. u = [v EXCEPT !.isCompetitionFinished = TRUE]
    BY <1>2, <1>6 DEF checkFinish
  <2>2. u \in Table(n)
    BY <1>5, <2>1, Zenon DEF Table
  <2>3. u.isCompetitionFinished
    BY <1>5, <2>1, Zenon DEF Table
  <2>4. u.competitionTable = cells /\ u.qtyFinishedGames = t.qtyFinishedGames + 1
    BY <1>4, <1>5, <2>1 DEF Table
  <2>. QED
    BY <1>4, <1>6, <2>2, <2>3, <2>4 DEF cells, u
<1>7. CASE v.qtyFinishedGames # v.qtyGames
  <2>1. u = v
    BY <1>2, <1>7 DEF checkFinish
  <2>2. u.isCompetitionFinished <=>
            t.isCompetitionFinished \/ t.qtyFinishedGames + 1 = t.qtyGames
    BY <1>4, <1>7, <2>1
  <2>. QED
    BY <1>4, <1>5, <2>1, <2>2 DEF cells, u
<1>. QED
  BY <1>6, <1>7

\* finishMatch keeps the two cells of every game in agreement.
LEMMA FinishedMirrored ==
    ASSUME NEW n \in Nat, NEW t \in Table(n), NEW m \in Match(n),
           Mirrored(t), WinnerByScore(m),
           DiagonalUnplayed(t), m.matchIndex[1] # m.matchIndex[2]
    PROVE  Mirrored(finishMatch(t, m)) /\ DiagonalUnplayed(finishMatch(t, m))
<1>. DEFINE mx == m.matchIndex
            mm == makeMirrorMatch(m)
            old == t.competitionTable
            u == finishMatch(t, m)
            new == u.competitionTable
<1>1. /\ mx \in MatchIndex(n)
      /\ Swap(mx) \in MatchIndex(n)
      /\ Swap(Swap(mx)) = mx
      /\ Swap(mx) # mx
      /\ Swap(mx)[1] = mx[2] /\ Swap(mx)[2] = mx[1]
  <2>1. mx \in MatchIndex(n)
    BY DEF Match
  <2>. QED
    BY <2>1, SwapIndex
<1>2. t.qtyPlayers = n /\ u.qtyPlayers = n /\ DOMAIN old = MatchIndex(n)
  <2>1. u \in Table(n)
    BY FinishedTable
  <2>. QED
    BY <2>1 DEF Table
<1>3. /\ new[mx] = m
      /\ new[Swap(mx)] = mm
      /\ \A ix \in MatchIndex(n) \ {mx, Swap(mx)} : new[ix] = old[ix]
  <2>1. new = [old EXCEPT ![mx] = m, ![Swap(mx)] = mm]
    BY FinishedTable, Zenon
  <2>. HIDE DEF new, mx, old, mm
  <2>. QED
    BY <1>1, <1>2, <2>1
<1>4. /\ mm.matchIndex = Swap(mx)
      /\ WinnerByScore(mm)
      /\ makeMirrorMatch(mm) = m
  BY MirrorMatch
<1>. HIDE DEF new, u, mm, mx, old
<1>5. ASSUME NEW ix \in MatchIndex(n)
      PROVE  /\ new[ix].matchIndex = ix
             /\ WinnerByScore(new[ix])
             /\ new[Swap(ix)] = makeMirrorMatch(new[ix])
  <2>1. CASE ix = mx
    BY <1>1, <1>3, <2>1, Zenon DEF mm, mx
  <2>2. CASE ix = Swap(mx)
    BY <1>1, <1>3, <1>4, <2>2, Zenon
  <2>3. CASE ix \notin {mx, Swap(mx)}
    <3>1. Swap(ix) \in MatchIndex(n) \ {mx, Swap(mx)}
      BY <1>1, <2>3, SwapIndex, Zenon
    <3>2. /\ old[ix].matchIndex = ix
          /\ WinnerByScore(old[ix])
          /\ old[Swap(ix)] = makeMirrorMatch(old[ix])
      BY <1>2, Zenon DEF Mirrored, old, WinnerByScore
    <3>. QED
      BY <1>3, <2>3, <3>1, <3>2, Zenon
  <2>. QED
    BY <2>1, <2>2, <2>3, Zenon
<1>6. Mirrored(u)
  BY <1>2, <1>5 DEF Mirrored, WinnerByScore, new
<1>7. ASSUME NEW p \in 1..n
      PROVE  ~ new[<<p, p>>].isDone
  <2>1. <<p, p>> \in MatchIndex(n) \ {mx, Swap(mx)}
    BY <1>1 DEF MatchIndex, mx
  <2>. QED
    BY <1>2, <1>3, <2>1 DEF DiagonalUnplayed, old
<1>. QED
  BY <1>2, <1>6, <1>7 DEF DiagonalUnplayed, u, new

\* A match that finishMatch records adds its game to the games that are done.
LEMMA FinishedDoneGames ==
    ASSUME NEW n \in Nat, NEW t \in Table(n), NEW m \in Match(n),
           WinnerByScore(m), m.isDone, m.matchIndex[1] # m.matchIndex[2]
    PROVE  /\ Upper(m.matchIndex) \in Games(n)
           /\ DoneGames(finishMatch(t, m)) = DoneGames(t) \cup {Upper(m.matchIndex)}
<1>. DEFINE mx == m.matchIndex
            mm == makeMirrorMatch(m)
            old == t.competitionTable
            u == finishMatch(t, m)
            new == u.competitionTable
<1>1. mx \in MatchIndex(n)
  BY DEF Match
<1>2. /\ Swap(mx) \in MatchIndex(n)
      /\ Swap(mx)[1] = mx[2] /\ Swap(mx)[2] = mx[1]
      /\ mx[1] \in Int /\ mx[2] \in Int
  BY <1>1, SwapIndex DEF MatchIndex
<1>3. t.qtyPlayers = n /\ u.qtyPlayers = n /\ DOMAIN old = MatchIndex(n)
  <2>1. u \in Table(n)
    BY FinishedTable
  <2>. QED
    BY <2>1 DEF Table
<1>4. new = [old EXCEPT ![mx] = m, ![Swap(mx)] = mm]
  BY FinishedTable, Zenon
<1>5. mm.isDone
  BY MirrorMatch
<1>6. Upper(mx) \in Games(n)
  <2>. HIDE DEF mx
  <2>1. mx[1] # mx[2]
    BY DEF mx
  <2>. QED
    BY <1>1, <1>2, <2>1 DEF Upper, Games
<1>7. ASSUME NEW ix \in Games(n)
      PROVE  new[ix].isDone <=> old[ix].isDone \/ ix = Upper(mx)
  <2>. HIDE DEF new, mx, old, mm
  <2>1. ix \in MatchIndex(n) /\ ix[1] < ix[2] /\ ix[1] \in Int /\ ix[2] \in Int
    BY DEF Games, MatchIndex
  <2>2. mx[1] # mx[2] /\ m.isDone
    BY DEF mx
  <2>3. CASE ix = mx
    BY <1>1, <1>2, <1>3, <1>4, <1>5, <2>1, <2>2, <2>3 DEF Upper
  <2>4. CASE ix = Swap(mx)
    BY <1>1, <1>2, <1>3, <1>4, <1>5, <2>1, <2>2, <2>4 DEF Upper
  <2>5. CASE ix # mx /\ ix # Swap(mx)
    BY <1>1, <1>2, <1>3, <1>4, <2>1, <2>5 DEF Upper
  <2>. QED
    BY <2>3, <2>4, <2>5
<1>. HIDE DEF new, u, old, mx
<1>8. DoneGames(u) = DoneGames(t) \cup {Upper(mx)}
  BY <1>3, <1>6, <1>7 DEF DoneGames, new, old
<1>. QED
  BY <1>6, <1>8 DEF u, mx

\* n players play (n*n - n)/2 games, the number that CompetitionTable.init keeps
\* in qtyGames: the cells off the diagonal are the games and their mirrors.
LEMMA GamesCount ==
    ASSUME NEW n \in Nat
    PROVE  /\ IsFiniteSet(Games(n))
           /\ Cardinality(Games(n)) = (n * n - n) \div 2
<1>. DEFINE All == MatchIndex(n)
            Diagonal == {ix \in All : ix[1] = ix[2]}
            Below == {ix \in All : ix[2] < ix[1]}
<1>1. IsFiniteSet(1..n) /\ Cardinality(1..n) = n
  BY FS_Interval
<1>2. IsFiniteSet(All) /\ Cardinality(All) = n * n
  BY <1>1, FS_Product DEF MatchIndex
<1>3. IsFiniteSet(Diagonal) /\ Cardinality(Diagonal) = n
  <2>. DEFINE f == [i \in 1..n |-> <<i, i>>]
  <2>1. f \in Bijection(1..n, Diagonal)
    <3>1. f \in [1..n -> Diagonal]
      BY DEF MatchIndex
    <3>2. \A i, j \in 1..n : f[i] = f[j] => i = j
      OBVIOUS
    <3>3. \A ix \in Diagonal : ix[1] \in 1..n /\ f[ix[1]] = ix
      BY DEF MatchIndex
    <3>. HIDE DEF f, Diagonal
    <3>. QED
      BY <3>1, <3>2, <3>3, Fun_IsBij
  <2>. QED
    BY <1>1, <2>1, FS_Bijection DEF ExistsBijection
<1>4. IsFiniteSet(Games(n)) /\ IsFiniteSet(Below)
  BY <1>2, FS_Subset DEF Games
<1>5. Cardinality(Games(n)) = Cardinality(Below)
  <2>. DEFINE f == [ix \in Games(n) |-> Swap(ix)]
  <2>1. f \in Bijection(Games(n), Below)
    <3>1. f \in [Games(n) -> Below]
      BY SwapIndex DEF Games
    <3>2. \A ix, jx \in Games(n) : f[ix] = f[jx] => ix = jx
      BY SwapIndex DEF Games
    <3>3. \A ix \in Below : Swap(ix) \in Games(n) /\ f[Swap(ix)] = ix
      BY SwapIndex DEF Games
    <3>. HIDE DEF f, Below
    <3>. QED
      BY <3>1, <3>2, <3>3, Fun_IsBij
  <2>. QED
    BY <1>4, <2>1, FS_Bijection DEF ExistsBijection
<1>6. All \ Diagonal = Games(n) \cup Below /\ Games(n) \cap Below = {}
  BY DEF Games, MatchIndex
<1>7. All \cap Diagonal = Diagonal
  OBVIOUS
<1>. HIDE DEF All, Diagonal, Below
<1>8. /\ Cardinality(All) \in Nat /\ Cardinality(Diagonal) \in Nat
      /\ Cardinality(Games(n)) \in Nat /\ Cardinality(Below) \in Nat
  BY <1>2, <1>3, <1>4, FS_CardinalityType
<1>9. Cardinality(All \ Diagonal) = n * n - n
  <2>1. Cardinality(All \ Diagonal) = Cardinality(All) - Cardinality(All \cap Diagonal)
    BY <1>2, FS_Difference, Zenon
  <2>. QED
    BY <1>2, <1>3, <1>7, <2>1, Zenon
<1>10. Cardinality(Games(n) \cup Below) = Cardinality(Games(n)) + Cardinality(Below)
  <2>1. Cardinality(Games(n) \cap Below) = 0
    BY <1>6, FS_EmptySet, Zenon
  <2>2. Cardinality(Games(n) \cup Below) =
           Cardinality(Games(n)) + Cardinality(Below) - Cardinality(Games(n) \cap Below)
    BY <1>4, FS_Union, Zenon
  <2>. QED
    BY <1>8, <2>1, <2>2
<1>11. n * n - n = Cardinality(Games(n)) + Cardinality(Games(n))
  BY <1>5, <1>6, <1>9, <1>10, Zenon
<1>12. (n * n - n) \div 2 = Cardinality(Games(n))
  <2>1. \A k \in Nat : (k + k) \div 2 = k
    OBVIOUS
  <2>. QED
    BY <1>8, <1>11, <2>1, Zenon
<1>. QED
  BY <1>4, <1>12, Zenon

\* What every table in the system satisfies.
TableSound(t) == Mirrored(t) /\ DiagonalUnplayed(t) /\ CountCoversDone(t)

\* The games that are done are finitely many, and all of them are games.
LEMMA DoneGamesCount ==
    ASSUME NEW n \in Nat, NEW t \in Table(n)
    PROVE  /\ DoneGames(t) \subseteq Games(n)
           /\ IsFiniteSet(DoneGames(t))
           /\ Cardinality(DoneGames(t)) \in Nat
<1>1. DoneGames(t) \subseteq Games(n)
  BY DEF DoneGames, Table
<1>. QED
  BY <1>1, GamesCount, FS_Subset, FS_CardinalityType

\* The table of a new competition of at least two players is sound.
LEMMA NewTableCounts ==
    ASSUME NEW playersArray \in Seq(User), Len(playersArray) >= 2
    PROVE  /\ TableSound(NewTable(playersArray))
           /\ NewTable(playersArray).qtyFinishedGames = 0
<1>. DEFINE n == Len(playersArray)
            t == NewTable(playersArray)
<1>1. /\ t.qtyFinishedGames = 0 /\ ~ t.isCompetitionFinished
      /\ t.qtyGames = (n * n - n) \div 2
  BY DEF NewTable
<1>2. (n * n - n) \div 2 \in Nat \ {0}
  <2>1. <<1, 2>> \in Games(n)
    BY DEF Games, MatchIndex
  <2>2. IsFiniteSet(Games(n)) /\ Cardinality(Games(n)) = (n * n - n) \div 2
    BY GamesCount
  <2>. QED
    BY <2>1, <2>2, FS_CardinalityType, FS_EmptySet
<1>3. Cardinality(DoneGames(t)) = 0
  BY NewTableSound, FS_EmptySet
<1>. HIDE DEF t, n
<1>4. CountCoversDone(t)
  BY <1>1, <1>2, <1>3 DEF CountCoversDone
<1>. QED
  BY <1>1, <1>4, NewTableSound DEF TableSound, t

\* finishMatch keeps a table sound, whether or not the game was done before.
LEMMA FinishedSound ==
    ASSUME NEW n \in Nat, NEW t \in Table(n), TableSound(t),
           NEW m \in Match(n), WinnerByScore(m), m.isDone,
           m.matchIndex[1] # m.matchIndex[2]
    PROVE  TableSound(finishMatch(t, m))
<1>. DEFINE u == finishMatch(t, m)
            g == Upper(m.matchIndex)
<1>1. Mirrored(u) /\ DiagonalUnplayed(u)
  BY FinishedMirrored DEF TableSound
<1>2. /\ u.qtyFinishedGames = t.qtyFinishedGames + 1
      /\ u.qtyGames = t.qtyGames
      /\ t.qtyGames \in Int /\ t.qtyFinishedGames \in Nat
  <2>1. u \in Table(n) /\ u.qtyFinishedGames = t.qtyFinishedGames + 1
    BY FinishedTable, Zenon
  <2>. QED
    BY <2>1 DEF Table
<1>3. u.isCompetitionFinished <=>
          t.isCompetitionFinished \/ t.qtyFinishedGames + 1 = t.qtyGames
  BY FinishedTable, Zenon
<1>4. Cardinality(DoneGames(u)) <= Cardinality(DoneGames(t)) + 1
  <2>1. DoneGames(u) = DoneGames(t) \cup {g}
    BY FinishedDoneGames
  <2>2. IsFiniteSet(DoneGames(t)) /\ Cardinality(DoneGames(t)) \in Nat
    BY DoneGamesCount
  <2>. HIDE DEF u, g
  <2>3. Cardinality(DoneGames(u)) =
          IF g \in DoneGames(t) THEN Cardinality(DoneGames(t))
                                ELSE Cardinality(DoneGames(t)) + 1
    BY <2>1, <2>2, FS_AddElement, Zenon
  <2>. QED
    BY <2>2, <2>3
<1>5. Cardinality(DoneGames(t)) \in Nat /\ Cardinality(DoneGames(u)) \in Nat
  BY DoneGamesCount, FinishedTable
<1>. HIDE DEF u, g
<1>6. CountCoversDone(u)
  <2>1. /\ t.qtyFinishedGames >= Cardinality(DoneGames(t))
        /\ t.isCompetitionFinished <=> t.qtyFinishedGames >= t.qtyGames
    BY DEF TableSound, CountCoversDone
  <2>2. u.qtyFinishedGames >= Cardinality(DoneGames(u))
    BY <1>2, <1>4, <1>5, <2>1
  <2>3. u.isCompetitionFinished <=> u.qtyFinishedGames >= u.qtyGames
    BY <1>2, <1>3, <2>1
  <2>. QED
    BY <2>2, <2>3 DEF CountCoversDone
<1>. QED
  BY <1>1, <1>6 DEF TableSound, u

=============================================================================
