------------------------ MODULE CompetitionSyncProofs ------------------------
(***************************************************************************)
(* CompetitionSync for any number of devices, documents, players and       *)
(* matches, whatever the network does.                                     *)
(*                                                                         *)
(* A table is only ever copied as a whole or changed by finishMatch, so    *)
(* what finishMatch preserves holds wherever a table is.  SyncInv spells   *)
(* out the places, and what makes a match on a sheet fit to be recorded.   *)
(***************************************************************************)
EXTENDS CompetitionSync, CompetitionTableProofs

\* A competition whose table is sound and counts at most k finished matches.
Good(content, k) ==
    TableSound(content.table) /\ content.table.qtyFinishedGames <= k

DocumentsGood ==
    /\ \A c \in Competition : Good(document[c], sent)
    /\ \A d \in Device, c \in Competition :
          /\ Good(listed[d][c], sent)
          /\ \A k \in 1..Len(arriving[d][c]) : Good(arriving[d][c][k], sent)

TransactionsGood == \A w \in flight : Good(w.content, sent)

StaticsGood ==
    \A d \in Device : competition[d] # NoCompetition =>
        Good(competition[d], sent) /\ competition[d].id \in listening[d]

\* The sheet that offers the finish button holds an unplayed match of a cell
\* that the view behind it has.
SheetsGood ==
    \A d \in Device : stage[d] = "play" =>
        /\ ~ match[d].isDone /\ match[d].matchIndex[1] # match[d].matchIndex[2]
        /\ match[d].matchIndex \in MatchIndex(Size(screen[d]))

SyncInv ==
    TypeOK /\ DocumentsGood /\ TransactionsGood /\ StaticsGood /\ SheetsGood

-----------------------------------------------------------------------------
\* A content names its competition, and is not the absence of one.
LEMMA ContentFacts ==
    ASSUME NEW c \in Competition, NEW v \in Content(c)
    PROVE  /\ v.id = c
           /\ v.table \in Table(Size(c))
           /\ v # NoCompetition
           /\ Size(c) \in Nat /\ Size(c) >= 2
BY NoCompetitionAssumption, RosterAssumption DEF Content, Size

\* The documents of new competitions satisfy the invariant.
LEMMA SyncInit == Init => SyncInv
<1>. SUFFICES ASSUME Init PROVE SyncInv
  OBVIOUS
<1>1. ASSUME NEW c \in Competition
      PROVE  /\ document[c] \in Content(c)
             /\ Good(document[c], sent)
  <2>1. players[c] \in Seq(User) /\ Len(players[c]) >= 2
    BY RosterAssumption
  <2>2. document[c] = [id |-> c, table |-> NewTable(players[c])] /\ sent = 0
    BY DEF Init
  <2>3. /\ NewTable(players[c]) \in Table(Size(c))
        /\ TableSound(NewTable(players[c]))
        /\ NewTable(players[c]).qtyFinishedGames = 0
    BY <2>1, NewTableSound, NewTableCounts DEF Size
  <2>. QED
    BY <2>2, <2>3 DEF Content, Good
<1>2. DocumentsOK
  BY <1>1 DEF Init, DocumentsOK
<1>3. TransactionsOK
  BY DEF Init, TransactionsOK
<1>4. ScreensOK
  BY NoCompetitionAssumption DEF Init, ScreensOK, Stage
<1>5. DocumentsGood
  BY <1>1 DEF Init, DocumentsGood
<1>6. TransactionsGood /\ StaticsGood /\ SheetsGood
  BY DEF Init, TransactionsGood, StaticsGood, SheetsGood
<1>. QED
  BY <1>2, <1>3, <1>4, <1>5, <1>6 DEF SyncInv, TypeOK

\* What is on the phones is unchanged by a step of the person that neither
\* sends nor receives anything.
LEMMA DocumentsUnchanged ==
    ASSUME SyncInv, UNCHANGED <<document, arriving, listed, flight, sent>>
    PROVE  DocumentsOK' /\ TransactionsOK' /\ DocumentsGood' /\ TransactionsGood'
BY DEF SyncInv, TypeOK, DocumentsOK, TransactionsOK, DocumentsGood,
       TransactionsGood, Good

\* pressCompetition preserves the invariant.
LEMMA PressCompetitionStep ==
    ASSUME SyncInv, NEW d \in Device, NEW c \in Competition, PressCompetition(d, c)
    PROVE  SyncInv'
<1>1. listed[d][c] \in Content(c) /\ Good(listed[d][c], sent)
  BY DEF SyncInv, TypeOK, DocumentsOK, DocumentsGood
<1>2. listed[d][c].id = c /\ listed[d][c] # NoCompetition
  BY <1>1, ContentFacts
<1>3. DocumentsOK' /\ TransactionsOK' /\ DocumentsGood' /\ TransactionsGood'
  BY DocumentsUnchanged DEF PressCompetition
<1>4. ScreensOK'
  BY <1>1, <1>2, NoCompetitionAssumption
     DEF SyncInv, TypeOK, ScreensOK, PressCompetition
<1>5. StaticsGood'
  BY <1>1, <1>2 DEF SyncInv, TypeOK, ScreensOK, StaticsGood, PressCompetition, Good
<1>6. SheetsGood'
  BY DEF SyncInv, TypeOK, ScreensOK, SheetsGood, PressCompetition
<1>. QED
  BY <1>3, <1>4, <1>5, <1>6 DEF SyncInv, TypeOK

\* Going back, and dismissing the sheet, preserve the invariant.
LEMMA BackStep ==
    ASSUME SyncInv, NEW d \in Device, Back(d) \/ CloseSheet(d)
    PROVE  SyncInv'
<1>1. DocumentsOK' /\ TransactionsOK' /\ DocumentsGood' /\ TransactionsGood'
  BY DocumentsUnchanged DEF Back, CloseSheet
<1>2. ScreensOK'
  BY DEF SyncInv, TypeOK, ScreensOK, Stage, Back, CloseSheet
<1>3. StaticsGood'
  BY DEF SyncInv, StaticsGood, Back, CloseSheet, Good
<1>4. SheetsGood'
  BY DEF SyncInv, TypeOK, ScreensOK, SheetsGood, Back, CloseSheet
<1>. QED
  BY <1>1, <1>2, <1>3, <1>4 DEF SyncInv, TypeOK

\* chooseMatch preserves the invariant: the cell it copies is one of the static.
LEMMA ChooseMatchStep ==
    ASSUME SyncInv, NEW d \in Device, NEW ix, ChooseMatch(d, ix)
    PROVE  SyncInv'
<1>1. DocumentsOK' /\ TransactionsOK' /\ DocumentsGood' /\ TransactionsGood'
  BY DocumentsUnchanged DEF ChooseMatch
<1>2. competition[d] # NoCompetition
  BY DEF SyncInv, TypeOK, ScreensOK, ChooseMatch
<1>3. PICK c \in Competition : competition[d] \in Content(c)
  BY <1>2 DEF SyncInv, TypeOK, ScreensOK
<1>. DEFINE t == competition[d].table
            m == t.competitionTable[ix]
<1>4. t \in Table(Size(c)) /\ Mirrored(t)
  BY <1>2, <1>3, ContentFacts DEF SyncInv, StaticsGood, Good, TableSound
<1>5. ix \in MatchIndex(Size(c)) /\ t.qtyPlayers = Size(c) /\ ix[1] # ix[2]
  BY <1>4 DEF ChooseMatch, InTable, Table
<1>6. /\ m \in Match(Size(c)) /\ m.matchIndex = ix
      /\ ix \in MatchIndex(Size(screen[d]))
  BY <1>4, <1>5 DEF Table, Mirrored, ChooseMatch
<1>7. /\ match' = [match EXCEPT ![d] = IF m.isDone THEN NoMatch ELSE m]
      /\ stage' = [stage EXCEPT ![d] = IF m.isDone THEN "shown" ELSE "play"]
      /\ UNCHANGED <<sent, listening, fresh, competition, screen>>
      /\ screen[d] # NoCompetition
  BY DEF ChooseMatch
<1>. HIDE DEF m, t
<1>8. ScreensOK'
  BY <1>6, <1>7 DEF SyncInv, TypeOK, ScreensOK, Stage
<1>9. StaticsGood'
  BY <1>7 DEF SyncInv, StaticsGood, Good
<1>10. SheetsGood'
  BY <1>5, <1>6, <1>7 DEF SyncInv, TypeOK, ScreensOK, SheetsGood
<1>. QED
  BY <1>1, <1>8, <1>9, <1>10 DEF SyncInv, TypeOK

\* The end of the process preserves the invariant.
LEMMA RelaunchStep ==
    ASSUME SyncInv, NEW d \in Device, Relaunch(d)
    PROVE  SyncInv'
<1>1. DocumentsOK' /\ DocumentsGood'
  BY DEF SyncInv, TypeOK, DocumentsOK, DocumentsGood, Relaunch, Good
<1>2. TransactionsOK' /\ TransactionsGood'
  <2>. SUFFICES ASSUME NEW w \in flight
                PROVE  LET v == IF w.by = d THEN [w EXCEPT !.attempts = 1] ELSE w
                       IN  /\ \E c \in Competition : v \in Transaction(c)
                           /\ v.no <= sent /\ Good(v.content, sent)
    BY DEF SyncInv, TypeOK, TransactionsOK, TransactionsGood, Relaunch, Good
  <2>1. PICK c \in Competition : w \in Transaction(c)
    BY DEF SyncInv, TypeOK, TransactionsOK
  <2>2. [w EXCEPT !.attempts = 1] \in Transaction(c)
    BY <2>1 DEF Transaction
  <2>3. [w EXCEPT !.attempts = 1].no = w.no /\ [w EXCEPT !.attempts = 1].content = w.content
    BY <2>1 DEF Transaction
  <2>. QED
    BY <2>1, <2>2, <2>3 DEF SyncInv, TypeOK, TransactionsOK, TransactionsGood
<1>3. ScreensOK'
  BY DEF SyncInv, TypeOK, ScreensOK, Stage, Relaunch
<1>4. StaticsGood'
  BY DEF SyncInv, TypeOK, ScreensOK, StaticsGood, Relaunch, Good
<1>5. SheetsGood'
  BY DEF SyncInv, TypeOK, ScreensOK, SheetsGood, Relaunch
<1>. QED
  BY <1>1, <1>2, <1>3, <1>4, <1>5 DEF SyncInv, TypeOK

\* Finishing a match preserves the invariant, whatever competition the static
\* holds by then and whether or not the match was done meanwhile.
LEMMA FinishMatchStep ==
    ASSUME SyncInv, NEW d \in Device, NEW s1 \in Score, NEW s2 \in Score,
           FinishMatch(d, s1, s2)
    PROVE  SyncInv'
<1>. DEFINE t == competition[d].table
            m == makeMatch(match[d], s1, s2)
            v == [competition[d] EXCEPT !.table = finishMatch(t, m)]
<1>1. stage[d] = "play" /\ competition[d] # NoCompetition /\ screen[d] # NoCompetition
  BY DEF SyncInv, TypeOK, ScreensOK, FinishMatch
<1>2. PICK c \in Competition : competition[d] \in Content(c)
  BY <1>1 DEF SyncInv, TypeOK, ScreensOK
<1>3. PICK b \in Competition : match[d] \in Match(Size(b))
  BY <1>1 DEF SyncInv, TypeOK, ScreensOK
<1>4. /\ t \in Table(Size(c)) /\ TableSound(t) /\ t.qtyFinishedGames <= sent
      /\ competition[d].id = c /\ c \in listening[d]
      /\ Size(c) \in Nat
  <2>1. /\ competition[d].table \in Table(Size(c))
        /\ competition[d].id = c /\ Size(c) \in Nat
    BY <1>2, ContentFacts
  <2>2. Good(competition[d], sent) /\ competition[d].id \in listening[d]
    BY <1>1 DEF SyncInv, StaticsGood
  <2>. QED
    BY <2>1, <2>2 DEF Good
<1>5. match[d].matchIndex \in MatchIndex(Size(c))
  BY <1>4 DEF FinishMatch, InTable, Table
<1>6. match[d] \in Match(Size(c))
  BY <1>3, <1>5 DEF Match
<1>7. ~ match[d].isDone /\ match[d].matchIndex[1] # match[d].matchIndex[2]
  BY <1>1 DEF SyncInv, SheetsGood
<1>8. s1 \in Nat /\ s2 \in Nat
  BY ScoreAssumption
<1>9. /\ m \in Match(Size(c)) /\ m.isDone /\ WinnerByScore(m)
      /\ m.matchIndex[1] # m.matchIndex[2]
  BY <1>4, <1>6, <1>7, <1>8, MadeMatch
<1>. HIDE DEF m, t
<1>10. finishMatch(t, m) \in Table(Size(c))
  BY <1>4, <1>9, FinishedTable, Zenon
<1>11. TableSound(finishMatch(t, m))
  BY <1>4, <1>9, FinishedSound
<1>12. finishMatch(t, m).qtyFinishedGames = t.qtyFinishedGames + 1
  BY <1>4, <1>9, FinishedTable
<1>13. v \in Content(c) /\ v.table = finishMatch(t, m) /\ v.id = c
  BY <1>2, <1>10 DEF Content
<1>. HIDE DEF v
<1>14. sent \in Nat /\ sent' = sent + 1 /\ t.qtyFinishedGames \in Nat
  BY <1>4 DEF SyncInv, TypeOK, TransactionsOK, FinishMatch, Table
<1>15. Good(v, sent')
  BY <1>4, <1>11, <1>12, <1>13, <1>14 DEF Good
<1>16. \A x : Good(x, sent) /\ x.table.qtyFinishedGames \in Nat => Good(x, sent')
  BY <1>14 DEF Good
<1>17. /\ competition' = [competition EXCEPT ![d] = v]
       /\ flight' = flight \cup {[no |-> sent + 1, by |-> d, content |-> v,
                                   attempts |-> MaxAttempts]}
       /\ stage' = [stage EXCEPT ![d] = "shown"]
       /\ match' = [match EXCEPT ![d] = NoMatch]
       /\ UNCHANGED <<document, arriving, listed, listening, fresh, screen>>
  <2>1. competition' = [competition EXCEPT ![d] = v]
    BY DEF FinishMatch, v, t, m
  <2>2. competition'[d] = v
    BY <2>1 DEF SyncInv, TypeOK, ScreensOK
  <2>. QED
    BY <2>1, <2>2 DEF FinishMatch
<1>18. \A e \in Competition : \A x \in Content(e) : x.table.qtyFinishedGames \in Nat
  BY DEF Content, Table
<1>19. DocumentsOK' /\ DocumentsGood'
  <2>1. DocumentsOK'
    BY <1>17 DEF SyncInv, TypeOK, DocumentsOK
  <2>2. \A e \in Competition : Good(document'[e], sent')
    BY <1>16, <1>17, <1>18 DEF SyncInv, TypeOK, DocumentsOK, DocumentsGood
  <2>3. \A x \in Device, e \in Competition : Good(listed'[x][e], sent')
    BY <1>16, <1>17, <1>18 DEF SyncInv, TypeOK, DocumentsOK, DocumentsGood
  <2>4. ASSUME NEW x \in Device, NEW e \in Competition, NEW k \in 1..Len(arriving[x][e])
        PROVE  Good(arriving'[x][e][k], sent')
    <3>1. arriving[x][e][k] \in Content(e) /\ Good(arriving[x][e][k], sent)
      BY DEF SyncInv, TypeOK, DocumentsOK, DocumentsGood
    <3>. QED
      BY <1>16, <1>17, <1>18, <3>1
  <2>. QED
    BY <1>17, <2>1, <2>2, <2>3, <2>4 DEF DocumentsGood
<1>20. TransactionsOK' /\ TransactionsGood'
  <2>. DEFINE w == [no |-> sent + 1, by |-> d, content |-> v, attempts |-> MaxAttempts]
  <2>1. w \in Transaction(c) /\ w.no <= sent' /\ Good(w.content, sent')
    BY <1>13, <1>14, <1>15, BoundAssumption DEF Transaction
  <2>2. ASSUME NEW x \in flight
        PROVE  /\ \E e \in Competition : x \in Transaction(e)
               /\ x.no <= sent' /\ Good(x.content, sent')
    <3>1. PICK e \in Competition : x \in Transaction(e)
      BY DEF SyncInv, TypeOK, TransactionsOK
    <3>2. x.no \in Nat /\ x.no <= sent /\ x.content \in Content(e) /\ Good(x.content, sent)
      BY <3>1 DEF SyncInv, TypeOK, TransactionsOK, TransactionsGood, Transaction
    <3>. QED
      BY <1>14, <1>16, <1>18, <3>1, <3>2
  <2>. HIDE DEF w
  <2>3. flight' = flight \cup {w}
    BY <1>17 DEF w
  <2>. QED
    <3>1. TransactionsOK'
      BY <1>14, <2>1, <2>2, <2>3 DEF TransactionsOK, Transaction, Content
    <3>2. TransactionsGood'
      BY <2>1, <2>2, <2>3 DEF TransactionsGood
    <3>. QED
      BY <3>1, <3>2
<1>21. ScreensOK'
  <2>1. v # NoCompetition
    BY <1>13, ContentFacts
  <2>. QED
    BY <1>1, <1>13, <1>17, <2>1 DEF SyncInv, TypeOK, ScreensOK, Stage
<1>22. StaticsGood'
  <2>1. ASSUME NEW x \in Device, competition[x] # NoCompetition
        PROVE  Good(competition'[x], sent') \/ x = d
    <3>1. PICK e \in Competition : competition[x] \in Content(e)
      BY <2>1 DEF SyncInv, TypeOK, ScreensOK
    <3>2. Good(competition[x], sent)
      BY <2>1 DEF SyncInv, StaticsGood
    <3>3. x # d => competition'[x] = competition[x]
      BY <1>17 DEF SyncInv, TypeOK, ScreensOK
    <3>. QED
      BY <1>16, <1>18, <3>1, <3>2, <3>3
  <2>. QED
    BY <1>4, <1>13, <1>15, <1>17, <2>1 DEF SyncInv, TypeOK, ScreensOK, StaticsGood
<1>23. SheetsGood'
  BY <1>17 DEF SyncInv, TypeOK, ScreensOK, SheetsGood
<1>. QED
  BY <1>19, <1>20, <1>21, <1>22, <1>23 DEF SyncInv, TypeOK

\* What the closure of addListenerToCompetition assigns keeps the static good.
LEMMA AssignStep ==
    ASSUME SyncInv, NEW d \in Device, NEW c \in Competition,
           NEW v \in Content(c), Good(v, sent), Assign(d, c, v),
           UNCHANGED <<sent, listening, screen, stage, match>>,
           fresh' = [fresh EXCEPT ![d] = @ \ {c}]
    PROVE  ScreensOK' /\ StaticsGood' /\ SheetsGood'
<1>1. v.id = c /\ v # NoCompetition
  BY ContentFacts
<1>2. \A x \in Device :
        \/ competition'[x] = competition[x]
        \/ x = d /\ competition'[x] = v /\ c \in listening[x]
  BY DEF SyncInv, TypeOK, ScreensOK, Assign
<1>3. ScreensOK'
  <2>1. DOMAIN competition' = Device
    BY DEF SyncInv, TypeOK, ScreensOK, Assign
  <2>2. \A x \in Device :
          \/ competition'[x] = NoCompetition
          \/ \E e \in Competition : competition'[x] \in Content(e)
    BY <1>2 DEF SyncInv, TypeOK, ScreensOK
  <2>3. \A x \in Device : screen[x] # NoCompetition => competition'[x] # NoCompetition
    BY <1>1, <1>2 DEF SyncInv, TypeOK, ScreensOK
  <2>4. fresh' \in [Device -> SUBSET Competition]
        /\ \A x \in Device : fresh'[x] \subseteq listening[x]
    BY DEF SyncInv, TypeOK, ScreensOK
  <2>. QED
    BY <2>1, <2>2, <2>3, <2>4 DEF SyncInv, TypeOK, ScreensOK
<1>4. StaticsGood'
  BY <1>1, <1>2 DEF SyncInv, StaticsGood
<1>5. SheetsGood'
  BY DEF SyncInv, SheetsGood
<1>. QED
  BY <1>3, <1>4, <1>5

\* The first call of a listener preserves the invariant.
LEMMA FirstSnapshotStep ==
    ASSUME SyncInv, NEW d \in Device, NEW c \in Competition, FirstSnapshot(d, c)
    PROVE  SyncInv'
<1>1. listed[d][c] \in Content(c) /\ Good(listed[d][c], sent)
  BY DEF SyncInv, TypeOK, DocumentsOK, DocumentsGood
<1>2. ScreensOK' /\ StaticsGood' /\ SheetsGood'
  BY <1>1, AssignStep DEF FirstSnapshot
<1>3. DocumentsOK' /\ TransactionsOK' /\ DocumentsGood' /\ TransactionsGood'
  BY DocumentsUnchanged DEF FirstSnapshot
<1>. QED
  BY <1>2, <1>3 DEF SyncInv, TypeOK

\* A later snapshot preserves the invariant.
LEMMA SnapshotStep ==
    ASSUME SyncInv, NEW d \in Device, NEW c \in Competition,
           NEW k \in 1..Len(arriving[d][c]), Snapshot(d, c, k)
    PROVE  SyncInv'
<1>. DEFINE q == arriving[d][c]
            v == q[k]
<1>1. q \in Seq(Content(c)) /\ v \in Content(c) /\ Good(v, sent)
  BY DEF SyncInv, TypeOK, DocumentsOK, DocumentsGood
<1>2. ScreensOK' /\ StaticsGood' /\ SheetsGood'
  <2>1. CASE v = listed[d][c]
    BY <2>1 DEF Snapshot, SyncInv, TypeOK, ScreensOK, StaticsGood, SheetsGood
  <2>2. CASE v # listed[d][c]
    BY <1>1, <2>2, AssignStep DEF Snapshot
  <2>. QED
    BY <2>1, <2>2
<1>3. TransactionsOK' /\ TransactionsGood'
  BY DEF Snapshot, SyncInv, TypeOK, TransactionsOK, TransactionsGood
<1>. DEFINE rest == SubSeq(q, k + 1, Len(q))
<1>4. /\ rest \in Seq(Content(c))
      /\ Len(rest) = Len(q) - k
      /\ \A i \in 1..Len(rest) : rest[i] = q[k + i] /\ k + i \in 1..Len(q)
  BY <1>1
<1>5. /\ arriving' = [arriving EXCEPT ![d] = [arriving[d] EXCEPT ![c] = rest]]
      /\ listed' = [listed EXCEPT ![d] = [listed[d] EXCEPT ![c] = v]]
      /\ UNCHANGED <<document, sent>>
  BY DEF Snapshot
<1>. HIDE DEF rest, v
<1>6. DocumentsOK'
  BY <1>1, <1>4, <1>5 DEF SyncInv, TypeOK, DocumentsOK
<1>7. DocumentsGood'
  <2>1. \A i \in 1..Len(rest) : Good(rest[i], sent)
    BY <1>4 DEF SyncInv, DocumentsGood
  <2>2. ASSUME NEW x \in Device, NEW e \in Competition
        PROVE  /\ Good(listed'[x][e], sent)
               /\ \A i \in 1..Len(arriving'[x][e]) : Good(arriving'[x][e][i], sent)
    <3>1. CASE x = d /\ e = c
      <4>1. arriving'[x][e] = rest /\ listed'[x][e] = v
        BY <1>5, <3>1 DEF SyncInv, TypeOK, DocumentsOK
      <4>. QED
        BY <1>1, <2>1, <4>1
    <3>2. CASE ~ (x = d /\ e = c)
      <4>1. arriving'[x][e] = arriving[x][e] /\ listed'[x][e] = listed[x][e]
        BY <1>5, <3>2 DEF SyncInv, TypeOK, DocumentsOK
      <4>. QED
        BY <4>1 DEF SyncInv, DocumentsGood
    <3>. QED
      BY <3>1, <3>2
  <2>. QED
    BY <1>5, <2>2 DEF SyncInv, DocumentsGood
<1>. QED
  BY <1>2, <1>3, <1>6, <1>7 DEF SyncInv, TypeOK

\* Applying a transaction keeps the documents good.
LEMMA ApplyStep ==
    ASSUME SyncInv, NEW w \in flight, Apply(w), UNCHANGED <<sent, listed>>
    PROVE  DocumentsOK' /\ DocumentsGood'
<1>1. PICK c \in Competition : w \in Transaction(c)
  BY DEF SyncInv, TypeOK, TransactionsOK
<1>. DEFINE v == w.content
<1>2. v \in Content(c) /\ Good(v, sent)
  BY <1>1 DEF Transaction, SyncInv, TransactionsGood
<1>3. v.id = c
  BY <1>2, ContentFacts
<1>4. /\ document' = [document EXCEPT ![c] = v]
      /\ arriving' = [d \in Device |-> [arriving[d] EXCEPT ![c] = Append(@, v)]]
  BY <1>3 DEF Apply
<1>. HIDE DEF v
<1>5. ASSUME NEW d \in Device, NEW e \in Competition
      PROVE  /\ arriving'[d][e] \in Seq(Content(e))
             /\ \A k \in 1..Len(arriving'[d][e]) : Good(arriving'[d][e][k], sent)
  <2>1. /\ arriving[d][e] \in Seq(Content(e))
        /\ \A k \in 1..Len(arriving[d][e]) : Good(arriving[d][e][k], sent)
    BY DEF SyncInv, TypeOK, DocumentsOK, DocumentsGood
  <2>2. CASE e = c
    <3>1. arriving'[d][e] = Append(arriving[d][e], v)
      BY <1>4, <2>2 DEF SyncInv, TypeOK, DocumentsOK
    <3>2. /\ Append(arriving[d][e], v) \in Seq(Content(e))
          /\ \A k \in 1..Len(Append(arriving[d][e], v)) :
                \/ Append(arriving[d][e], v)[k] = v
                \/ /\ k \in 1..Len(arriving[d][e])
                   /\ Append(arriving[d][e], v)[k] = arriving[d][e][k]
      BY <1>2, <2>1, <2>2
    <3>. QED
      BY <1>2, <2>1, <3>1, <3>2
  <2>3. CASE e # c
    <3>1. arriving'[d][e] = arriving[d][e]
      BY <1>4, <2>3 DEF SyncInv, TypeOK, DocumentsOK
    <3>. QED
      BY <2>1, <3>1
  <2>. QED
    BY <2>2, <2>3
<1>6. DocumentsOK'
  BY <1>2, <1>4, <1>5 DEF SyncInv, TypeOK, DocumentsOK
<1>7. DocumentsGood'
  BY <1>2, <1>4, <1>5 DEF SyncInv, TypeOK, DocumentsOK, DocumentsGood
<1>. QED
  BY <1>6, <1>7

\* The end of a transaction, in any of its three ways, preserves the invariant.
LEMMA TransactionStep ==
    ASSUME SyncInv, NEW w \in flight, Commit(w) \/ CommitUnanswered(w) \/ Fail(w)
    PROVE  SyncInv'
<1>1. UNCHANGED <<sent, listed, listening, fresh, competition, screen, stage, match>>
  BY DEF Commit, CommitUnanswered, Fail
<1>2. ScreensOK' /\ StaticsGood' /\ SheetsGood'
  BY <1>1 DEF SyncInv, TypeOK, ScreensOK, StaticsGood, SheetsGood
<1>3. DocumentsOK' /\ DocumentsGood'
  <2>1. CASE Apply(w)
    BY <1>1, <2>1, ApplyStep
  <2>2. CASE UNCHANGED <<document, arriving>>
    BY <1>1, <2>2 DEF SyncInv, TypeOK, DocumentsOK, DocumentsGood
  <2>. QED
    BY <2>1, <2>2 DEF Commit, CommitUnanswered, Fail
<1>4. TransactionsOK' /\ TransactionsGood'
  <2>1. CASE flight' \subseteq flight
    BY <1>1, <2>1 DEF SyncInv, TypeOK, TransactionsOK, TransactionsGood
  <2>2. CASE CommitUnanswered(w)
    <3>. DEFINE v == [w EXCEPT !.attempts = @ - 1]
    <3>1. PICK c \in Competition : w \in Transaction(c)
      BY DEF SyncInv, TypeOK, TransactionsOK
    <3>2. w.attempts - 1 \in Nat \ {0}
      BY <2>2, <3>1 DEF CommitUnanswered, Transaction
    <3>3. v \in Transaction(c) /\ v.no = w.no /\ v.content = w.content
      BY <3>1, <3>2 DEF Transaction
    <3>4. flight' = (flight \ {w}) \cup {v}
      BY <2>2 DEF CommitUnanswered
    <3>. HIDE DEF v
    <3>. QED
      BY <1>1, <3>3, <3>4 DEF SyncInv, TypeOK, TransactionsOK, TransactionsGood
  <2>. QED
    BY <2>1, <2>2 DEF Commit, Fail
<1>. QED
  BY <1>2, <1>3, <1>4 DEF SyncInv, TypeOK

\* Every step of a person or of Firestore preserves the invariant.
LEMMA SyncStep == SyncInv /\ [Next]_vars => SyncInv'
<1>. SUFFICES ASSUME SyncInv, [Next]_vars PROVE SyncInv'
  OBVIOUS
<1>1. CASE Person
  BY <1>1, PressCompetitionStep, BackStep, ChooseMatchStep, FinishMatchStep,
     RelaunchStep DEF Person
<1>2. CASE Firestore
  BY <1>2, SnapshotStep, FirstSnapshotStep, TransactionStep DEF Firestore
<1>3. CASE UNCHANGED vars
  <2>1. DocumentsOK' /\ TransactionsOK' /\ DocumentsGood' /\ TransactionsGood'
    BY <1>3, DocumentsUnchanged DEF vars
  <2>2. ScreensOK' /\ StaticsGood' /\ SheetsGood'
    BY <1>3 DEF vars, SyncInv, TypeOK, ScreensOK, StaticsGood, SheetsGood
  <2>. QED
    BY <2>1, <2>2 DEF SyncInv, TypeOK
<1>. QED
  BY <1>1, <1>2, <1>3 DEF Next

\* The invariant holds in every state of the system.
THEOREM SyncInvariant == Spec => []SyncInv
BY SyncInit, SyncStep, PTL DEF Spec

\* Type correctness for any devices, documents, players, bounds and faults.
THEOREM SyncTypeOK == Spec => []TypeOK
<1>1. SyncInv => TypeOK
  BY DEF SyncInv
<1>. QED
  BY <1>1, SyncInvariant, PTL

\* Every table the system holds is sound.
LEMMA EveryTable ==
    ASSUME SyncInv, NEW t \in Tables
    PROVE  /\ TableSound(t) /\ t.qtyFinishedGames <= sent
           /\ \E c \in Competition : t \in Table(Size(c))
<1>1. \E c \in Competition : \E v \in Content(c) : v.table = t /\ Good(v, sent)
  <2>1. CASE \E c \in Competition : t = document[c].table
    BY <2>1 DEF SyncInv, TypeOK, DocumentsOK, DocumentsGood
  <2>2. CASE \E d \in Device, c \in Competition : t = listed[d][c].table
    BY <2>2 DEF SyncInv, TypeOK, DocumentsOK, DocumentsGood
  <2>3. CASE \E d \in Device, c \in Competition :
               \E k \in 1..Len(arriving[d][c]) : t = arriving[d][c][k].table
    BY <2>3 DEF SyncInv, TypeOK, DocumentsOK, DocumentsGood
  <2>4. CASE \E w \in flight : t = w.content.table
    BY <2>4 DEF SyncInv, TypeOK, TransactionsOK, TransactionsGood, Transaction
  <2>5. CASE \E d \in Device : competition[d] # NoCompetition /\ t = competition[d].table
    BY <2>5 DEF SyncInv, TypeOK, ScreensOK, StaticsGood
  <2>6. \/ \E c \in Competition : t = document[c].table
        \/ \E d \in Device, c \in Competition : t = listed[d][c].table
        \/ \E d \in Device, c \in Competition :
               \E k \in 1..Len(arriving[d][c]) : t = arriving[d][c][k].table
        \/ \E w \in flight : t = w.content.table
        \/ \E d \in Device : competition[d] # NoCompetition /\ t = competition[d].table
    BY DEF Tables
  <2>. QED
    BY <2>1, <2>2, <2>3, <2>4, <2>5, <2>6
<1>. QED
  BY <1>1, ContentFacts DEF Good

\* However the writes of any number of devices interleave, are lost, repeated or
\* put into the wrong document, the two cells of a game agree in every table.
THEOREM SyncCellsAgree == Spec => []CellsAgreeEverywhere
<1>1. SyncInv => CellsAgreeEverywhere
  BY EveryTable DEF CellsAgreeEverywhere, TableSound
<1>. QED
  BY <1>1, SyncInvariant, PTL

\* No table counts fewer games than are done or more than were finished, and the
\* flag is up exactly when the count has reached qtyGames.
THEOREM SyncCountsSound == Spec => []CountsSound
<1>1. SyncInv => CountsSound
  BY EveryTable DEF CountsSound, TableSound
<1>. QED
  BY <1>1, SyncInvariant, PTL

\* A table in which every game is done has its flag up: qtyGames is the number
\* of games (GamesCount), so no stale or repeated write steps over it.
THEOREM SyncAllPlayedIsFinished == Spec => []AllPlayedIsFinished
<1>1. SyncInv => AllPlayedIsFinished
  <2>. SUFFICES ASSUME SyncInv, NEW t \in Tables, DoneGames(t) = Games(t.qtyPlayers)
                PROVE  t.isCompetitionFinished
    BY DEF AllPlayedIsFinished
  <2>1. PICK c \in Competition : t \in Table(Size(c))
    BY EveryTable
  <2>2. Size(c) \in Nat
    BY RosterAssumption DEF Size
  <2>3. t.qtyPlayers = Size(c) /\ t.qtyGames = (Size(c) * Size(c) - Size(c)) \div 2
    BY <2>1 DEF Table
  <2>4. Cardinality(DoneGames(t)) = t.qtyGames
    BY <2>2, <2>3, GamesCount
  <2>5. CountCoversDone(t)
    BY EveryTable DEF TableSound
  <2>. QED
    BY <2>4, <2>5 DEF CountCoversDone
<1>. QED
  BY <1>1, SyncInvariant, PTL

\* A device that opened one competition since its start has it in the static,
\* and the match on its sheet is a cell of the static's table.
THEOREM SyncOnlyOpenedIsShown == Spec => []OnlyOpenedIsShown
<1>1. SyncInv => OnlyOpenedIsShown
  <2>. SUFFICES ASSUME SyncInv, NEW d \in Device,
                       screen[d] # NoCompetition, listening[d] = {screen[d]}
                PROVE  /\ competition[d].id = screen[d]
                       /\ stage[d] = "play" =>
                            InTable(competition[d].table, match[d].matchIndex)
    BY DEF OnlyOpenedIsShown
  <2>1. competition[d] # NoCompetition
    BY DEF SyncInv, TypeOK, ScreensOK
  <2>2. competition[d].id = screen[d]
    BY <2>1 DEF SyncInv, StaticsGood
  <2>3. PICK c \in Competition : competition[d] \in Content(c)
    BY <2>1 DEF SyncInv, TypeOK, ScreensOK
  <2>4. competition[d].table.qtyPlayers = Size(screen[d])
    BY <2>2, <2>3, ContentFacts DEF Table
  <2>5. stage[d] = "play" => match[d].matchIndex \in MatchIndex(Size(screen[d]))
    BY DEF SyncInv, SheetsGood
  <2>. QED
    BY <2>2, <2>4, <2>5 DEF InTable
<1>. QED
  BY <1>1, SyncInvariant, PTL

=============================================================================
