------------------------------ MODULE MCTuiShell ------------------------------
(* The connection of the TUI, its session token and the list at its left in *)
(* one run: a behaviour is about one of them, each on a small instance of   *)
(* its own.                                                                 *)
EXTENDS TuiLink, TuiSession, TuiSidebar

(* Three chats and two people, one of them both. *)
MCInOrder == <<1, 2, 3, 4>>
MCFound   == {{1, 3, 4}}

VARIABLE part

MCInit ==
  /\ part \in {"link", "session", "sidebar"} /\ LinkInit /\ SessionInit /\ SidebarInit
  /\ part # "session" => file = NoToken /\ setting
  /\ part # "sidebar" => \A h \in Heights : height <= h

MCNext ==
  \/ part = "link" /\ LinkNext /\ UNCHANGED <<part, sessionVars, sidebarVars>>
  \/ part = "session" /\ SessionNext /\ UNCHANGED <<part, linkVars, sidebarVars>>
  \/ part = "sidebar" /\ SidebarNext /\ UNCHANGED <<part, linkVars, sessionVars>>

MCSpec == MCInit /\ [][MCNext]_<<part, linkVars, sessionVars, sidebarVars>>
=============================================================================
