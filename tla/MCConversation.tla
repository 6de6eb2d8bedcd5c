--------------------------- MODULE MCConversation ---------------------------
(* A customer, an administrator, or an owner who also sells and edits. *)
EXTENDS Conversation

MCConfigurations == {{}, AdminRights, OwnerRights \cup {"content", "sales"}}

MCSubject == [a \in Alerts |-> <<"gold", "up">>]
=============================================================================
