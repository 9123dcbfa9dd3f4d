-------------------------- MODULE MCWritePipeline --------------------------
(***************************************************************************)
(* Instances of WritePipeline.                                             *)
(***************************************************************************)
EXTENDS WritePipeline, TLC

CONSTANTS ann, bob

\* The users of a device are interchangeable.
Users == Permutations(User)

=============================================================================
