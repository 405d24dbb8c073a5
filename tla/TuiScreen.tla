------------------------------ MODULE TuiScreen ------------------------------
(* What several parts of the TUI read and write: the chat that is open and *)
(* who has the keys (the fields active, mode and sidebarFocused of model). *)
CONSTANT NoChat     \* active = ""

VARIABLES active, mode, focused

openChat == <<active, mode, focused>>
=============================================================================
