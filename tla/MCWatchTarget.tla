---------------------------- MODULE MCWatchTarget ----------------------------
(***************************************************************************)
(* Instances of WatchTarget.                                               *)
(***************************************************************************)
EXTENDS WatchTarget

CONSTANTS users, d1, d2

=============================================================================
