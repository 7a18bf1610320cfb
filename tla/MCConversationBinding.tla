----------------------- MODULE MCConversationBinding -----------------------
(* Two requests of the conversation at a time over three accounts.          *)
EXTENDS ConversationBinding, TLC

Symmetry == Permutations(Accounts) \cup Permutations(Requests)
=============================================================================
