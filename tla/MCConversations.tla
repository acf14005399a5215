-------------------------- MODULE MCConversations --------------------------
(* A conversation with its requests, their keys and its deletes. *)
EXTENDS Conversations
=============================================================================
