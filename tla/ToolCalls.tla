----------------------------- MODULE ToolCalls -----------------------------
(***************************************************************************)
(* What users are promised of each tool call of the wallet agent: it runs  *)
(* at most once, only while it is open; it ends once, and what it ended as *)
(* stays; and it is not cancelled when it has run.  A call is waived when  *)
(* two requests met over it, or the one that held it was lost half-way:    *)
(* nothing is promised of it any more.                                     *)
(***************************************************************************)
EXTENDS Integers

CONSTANT Calls

VARIABLES
    status,     \* what the tool log says of each call
    ran         \* how often it was run

Init ==
    /\ status = [c \in Calls |-> "none"]
    /\ ran = [c \in Calls |-> 0]

\* The call is logged, as started or as awaiting its confirmation.
Open(c) ==
    /\ status[c] = "none"
    /\ status' = [status EXCEPT ![c] = "open"]
    /\ UNCHANGED ran

Run(c) ==
    /\ status[c] = "open" /\ ran[c] = 0
    /\ ran' = [ran EXCEPT ![c] = 1]
    /\ UNCHANGED status

End(c) ==
    /\ status[c] = "open"
    /\ \E outcome \in {"completed", "failed"} : status' = [status EXCEPT ![c] = outcome]
    /\ UNCHANGED ran

Cancel(c) ==
    /\ status[c] = "open" /\ ran[c] = 0
    /\ status' = [status EXCEPT ![c] = "cancelled"]
    /\ UNCHANGED ran

Waive(C) ==
    /\ status' = [c \in Calls |-> IF c \in C THEN "waived" ELSE status[c]]
    /\ ran' = [c \in Calls |-> IF c \in C THEN 0 ELSE ran[c]]

Next ==
    \/ \E c \in Calls : Open(c) \/ Run(c) \/ End(c) \/ Cancel(c)
    \/ \E C \in SUBSET Calls : Waive(C)

Spec == Init /\ [][Next]_<<status, ran>>

=============================================================================
