--------------------------- MODULE MCModelGateway ---------------------------
(***************************************************************************)
(* Instances of ModelGateway.                                              *)
(***************************************************************************)
EXTENDS ModelGateway, TLC

CONSTANTS c1, c2, s1

\* One group of candidates, or a fallback to a model of the same account.
OneScopeOf == 1 :> s1
SharedScopeOf == 1 :> s1 @@ 2 :> s1

Symmetry == Permutations(Calls)
=============================================================================
