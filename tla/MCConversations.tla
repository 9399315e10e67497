--------------------------- MODULE MCConversations ---------------------------
(* Conversations on small instances: bodies of two messages are enough for *)
(* a call to be interrupted or overtaken inside its body.                  *)
EXTENDS Conversations, TLC

CONSTANTS r1, r2

TwoRequests == {r1, r2}
Symmetry == Permutations(TwoRequests)
=============================================================================
