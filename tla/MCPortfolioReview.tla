-------------------------- MODULE MCPortfolioReview --------------------------
(* TLC instance of PortfolioReview: two turns of one session, one of another *)
(* session of the same principal, and an operator.                           *)
EXTENDS PortfolioReview, TLC

CONSTANTS t1, t2, t3, o1, s1, s2, p1, r1, r2, r3

MCSessions   == t1 :> s1 @@ t2 :> s1 @@ t3 :> s2
MCPrincipals == t1 :> p1 @@ t2 :> p1 @@ t3 :> p1
Symmetry == Permutations({t1, t2}) \union Permutations({r1, r2, r3})
==============================================================================
