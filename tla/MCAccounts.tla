------------------------------ MODULE MCAccounts ------------------------------
(* Instances of Accounts for TLC. *)
EXTENDS Accounts, TLC

CONSTANTS u1, u2, u3

UpAndDown == {-10000, 10000}
CentAndABit == {-12525}

Symmetry == Permutations(Requests)

\* One purchase of an existing user.
OnePurchase ==
    {[txHash |-> 1, user |-> u1, product |-> "go", chances |-> 1, cooldownEndsAt |-> 1]}

\* Two logs of one transaction, bought from the wallet of a credential that
\* has no row yet.
RepeatedPurchase ==
    {[txHash |-> 1, user |-> u2, product |-> "go", chances |-> 1, cooldownEndsAt |-> 1],
     [txHash |-> 1, user |-> u2, product |-> "plan", chances |-> 3, cooldownEndsAt |-> 0]}
===============================================================================
