------------------------------ MODULE MCScreens ------------------------------
(***************************************************************************)
(* Instances of Screens.                                                   *)
(***************************************************************************)
EXTENDS Screens

CONSTANTS ann, bob

=============================================================================
