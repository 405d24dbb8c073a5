---------------------------- MODULE MCPermissions ----------------------------
(* One person with a lid and a phone number. *)
EXTENDS Permissions

CONSTANTS lid, pn

MCPhones == {lid, pn}
MCPNOf == [l \in {lid} |-> pn]

=============================================================================
