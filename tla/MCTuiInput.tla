------------------------------ MODULE MCTuiInput ------------------------------
(* The message box and the panels over it in one run: a behaviour is about  *)
(* one of them, each on a small instance of its own.                        *)
EXTENDS TuiComposer, TuiPanels

(* Groups of one item and of more; the pickers have an uneven last row.     *)
MCThemeGroups == <<3, 1>>
MCHelpGroups  == <<1, 2>>

VARIABLE part

MCInit == part \in {"composer", "panels"} /\ ComposerInit /\ PanelsInit

MCNext ==
  \/ part = "composer" /\ ComposerNext /\ UNCHANGED <<part, panelVars>>
  \/ part = "panels" /\ PanelsNext /\ UNCHANGED <<part, composerVars>>

MCSpec == MCInit /\ [][MCNext]_<<part, composerVars, panelVars>>
=============================================================================
