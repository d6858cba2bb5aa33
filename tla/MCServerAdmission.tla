-------------------------- MODULE MCServerAdmission --------------------------
(* Instances of ServerAdmission for TLC. *)
EXTENDS ServerAdmission

CONSTANTS chat1, chat2, call1, list1, docs1, mcp1

MCKind == [r \in Requests |->
             CASE r \in {chat1, chat2} -> "chat" [] r = call1 -> "call"
               [] r = list1 -> "list" [] r = docs1 -> "docs" [] OTHER -> "mcp"]
=============================================================================
