----------------------------- MODULE Tournament -----------------------------
(***************************************************************************)
(* What the table of a competition promises the person who enters results, *)
(* free of cells, mirrors, counters, screens and messages: every pair of   *)
(* players has one game, a game is given one result and keeps it, and the  *)
(* competition is finished exactly when no game is left to play.  Who does *)
(* not wait gives that up, except that a competition without games left is *)
(* finished.  MatchBoard implements this.                                  *)
(***************************************************************************)
EXTENDS Naturals

CONSTANTS
    Game,      \* the pairs that have to meet
    Result,    \* what can be recorded for a game
    NoResult   \* a game that has not been played

VARIABLES
    result,    \* Game -> Result, or NoResult
    finished,
    early      \* the person has not waited

Recorded(r) == {g \in Game : r[g] # NoResult}

Init ==
    /\ result = [g \in Game |-> NoResult]
    /\ finished = FALSE
    /\ early = FALSE

Record(g, r) ==
    /\ ~ early /\ early' = FALSE
    /\ result[g] = NoResult
    /\ result' = [result EXCEPT ![g] = r]
    /\ finished' = (Recorded(result') = Game)

\* From here on results may be taken back or altered.
NotWaited ==
    /\ early' = TRUE
    /\ Recorded(result') = Game => finished'

Next == NotWaited \/ \E g \in Game, r \in Result : Record(g, r)

Spec == Init /\ [][Next]_<<result, finished, early>>

=============================================================================
