---------------------------- MODULE MC_OtaClient ----------------------------
(* Model-checking instance of OtaClient. *)
EXTENDS OtaClient

CONSTANTS u1, u2

MC_DevicePct == {-1, 0, 100}
MC_UploadPct == {50, 100}
MC_UploadSlots == {u1, u2}
=============================================================================
