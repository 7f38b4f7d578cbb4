--------------------------- MODULE MC_CommandForms ---------------------------
(* Two commands, one of them a config command, and two reboot chains. *)
EXTENDS CommandForms

CONSTANTS cfg1, run1

MC_Cmds == {cfg1, run1}
MC_CfgCmds == {cfg1}

=============================================================================
