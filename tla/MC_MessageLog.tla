---------------------------- MODULE MC_MessageLog ----------------------------
(* Model-checking instance of MessageLog. *)
EXTENDS MessageLog

CONSTANTS b1, b2, m1, m2

MC_BtNames == {b1, b2}
MC_StatusMsgs == {m1, m2}
=============================================================================
