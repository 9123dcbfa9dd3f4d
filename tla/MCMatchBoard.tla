---------------------------- MODULE MCMatchBoard ----------------------------
(***************************************************************************)
(* MatchBoard with three players: three games, of which the last can be    *)
(* open while the first two are sent and come back.                        *)
(***************************************************************************)
EXTENDS MatchBoard

CONSTANTS ann, bob, col

MCUser == {ann, bob, col}
MCPlayers == <<ann, bob, col>>

=============================================================================
