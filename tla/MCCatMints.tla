----------------------------- MODULE MCCatMints -----------------------------
(* CatMints on small instances: two tokens and two batches, and one item   *)
(* that reports may ask for, which takes it from the token of its number.  *)
EXTENDS CatMints, TLC

CONSTANTS r1, r2

TwoRequests == {r1, r2}
Symmetry == Permutations(TwoRequests)

OneAsked == {[batch |-> 1, serial |-> 1]}
=============================================================================
