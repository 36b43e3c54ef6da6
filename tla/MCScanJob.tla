----------------------------- MODULE MCScanJob -----------------------------
(* Instances of ScanJob for TLC. *)
EXTENDS ScanJob, TLC

CONSTANTS s1, s2, c1, c2
=============================================================================
