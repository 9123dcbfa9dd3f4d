------------------------- MODULE MCCompetitionsList -------------------------
(***************************************************************************)
(* Instances of CompetitionsList.                                          *)
(***************************************************************************)
EXTENDS CompetitionsList, TLC

CONSTANTS darts, chess, old

=============================================================================
