------------------------------ MODULE MCPublish -----------------------------
(* Two POSTs for one report beside the logins and logouts of one user.       *)
EXTENDS Publish

CONSTANTS l1, l2, o1, s1, p1, p2
=============================================================================
