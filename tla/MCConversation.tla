--------------------------- MODULE MCConversation ---------------------------
(* Three messages, two seconds, pages of one message.                      *)
EXTENDS Conversation
=============================================================================
