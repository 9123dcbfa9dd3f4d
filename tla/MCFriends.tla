----------------------------- MODULE MCFriends -----------------------------
(***************************************************************************)
(* Instances of Friends.                                                   *)
(***************************************************************************)
EXTENDS Friends

CONSTANTS ann, bob, col

=============================================================================
