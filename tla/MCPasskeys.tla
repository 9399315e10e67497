----------------------------- MODULE MCPasskeys -----------------------------
(* Passkeys on small instances: two requests, two wallets, and one name    *)
(* that every user who wants a name asks for.                              *)
EXTENDS Passkeys, TLC

CONSTANTS r1, r2, w1, w2

MCRequests == {r1, r2}
TwoWallets == {w1, w2}
OneName == {[base |-> "a", suffix |-> <<>>]}

Symmetry == Permutations(MCRequests) \cup Permutations(TwoWallets)
=============================================================================
