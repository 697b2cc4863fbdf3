--------------------------- MODULE MCConversation ---------------------------
(* A small instance of Conversation. *)
EXTENDS Conversation, TLC

CONSTANTS t1, t2

\* One message may bring a document, with or without a question.
OneDocument == t1 :> {"document"} @@ t2 :> {"plain"}
=============================================================================
