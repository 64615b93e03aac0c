--------------------------- MODULE MCConversation ---------------------------
(* Instances of Conversation, in which one owner is as good as another. *)
EXTENDS Conversation

OwnersAreAlike == Permutations(Owners)

=============================================================================
