--------------------------- MODULE MCConversation ---------------------------
(* Conversation on a small instance. *)
EXTENDS Conversation

CONSTANTS r1, r2, c1, c2, c3, c4, x1, x2, k1
=============================================================================
