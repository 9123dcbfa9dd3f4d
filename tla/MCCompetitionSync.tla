-------------------------- MODULE MCCompetitionSync --------------------------
(***************************************************************************)
(* Instances of CompetitionSync: a competition of three and one of two,    *)
(* with different people.                                                  *)
(***************************************************************************)
EXTENDS CompetitionSync, TLC

CONSTANTS ann, bob, col, dan, eva, cup, duel, phone1, phone2

MCUser == {ann, bob, col, dan, eva}

MCPlayers ==
    [c \in Competition |-> IF c = cup THEN <<ann, bob, col>> ELSE <<dan, eva>>]

\* Phones are interchangeable: no property names one.
Phones == Permutations(Device)

=============================================================================
