--------------------------- MODULE MC_StatusPoller ---------------------------
(* Model-checking instance of StatusPoller. *)
EXTENDS StatusPoller

CONSTANTS t1, t2

MC_TickIds == {t1, t2}
=============================================================================
