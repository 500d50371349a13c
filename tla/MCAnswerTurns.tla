--------------------------- MODULE MCAnswerTurns ---------------------------
(* TLC instance of AnswerTurns. *)
EXTENDS AnswerTurns, TLC

CONSTANTS p1, p2, k1, k2, k3, g1, g2

Symmetry == Permutations({p1, p2}) \union Permutations({k1, k2, k3})
              \union Permutations({g1, g2})
=============================================================================
