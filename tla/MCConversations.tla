---------------------------- MODULE MCConversations ----------------------------
(* One conversation on its own, with its calls as atoms. *)
EXTENDS Conversations
================================================================================
