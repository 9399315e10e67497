--------------------------- MODULE MCChanceWorker ---------------------------
(* Instances of ChanceWorker for TLC. *)
EXTENDS ChanceWorker

CONSTANTS u1, u2

\* Two transactions of two buyers.
TwoPurchases ==
    {[txHash |-> 1, user |-> u1, chances |-> 1, index |-> 0],
     [txHash |-> 2, user |-> u2, chances |-> 2, index |-> 1]}

\* The first transaction buys twice: the contract emitted two logs.
TwinLogs ==
    TwoPurchases \cup {[txHash |-> 1, user |-> u1, chances |-> 3, index |-> 2]}

=============================================================================
