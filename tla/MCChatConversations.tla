------------------------ MODULE MCChatConversations ------------------------
(***************************************************************************)
(* ChatConversations for TLC: requests and users are interchangeable.      *)
(***************************************************************************)
EXTENDS ChatConversations, TLC

AnyRequestOrUser == Permutations(Requests) \union Permutations(Users)
=============================================================================
