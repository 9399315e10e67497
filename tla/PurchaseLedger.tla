--------------------------- MODULE PurchaseLedger ---------------------------
(***************************************************************************)
(* What buyers are promised of the chance webhook, whichever way, however  *)
(* often and in whichever order the notifications of their purchases reach *)
(* it: a transaction hash is credited at most once, its chances are added  *)
(* in the same step, and nothing else ever adds a purchased chance.        *)
(***************************************************************************)
EXTENDS Integers

CONSTANTS
    Users,
    Purchases   \* ChancePurchased logs: at least [txHash, user, chances]

VARIABLES
    credited,   \* the purchases in chance_transactions
    chances     \* what each user was credited in all

Init == credited = {} /\ chances = [u \in Users |-> 0]

Credit(p) ==
    /\ \A q \in credited : q.txHash # p.txHash
    /\ credited' = credited \cup {p}
    /\ chances' = [chances EXCEPT ![p.user] = @ + p.chances]

Next == \E p \in Purchases : Credit(p)

Spec == Init /\ [][Next]_<<credited, chances>>

=============================================================================
