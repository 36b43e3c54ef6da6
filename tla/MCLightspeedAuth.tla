--------------------------- MODULE MCLightspeedAuth -------------------------
(* Two logins, a logout and a status request of one user, by name.           *)
EXTENDS LightspeedAuth

CONSTANTS l1, l2, o1, s1
=============================================================================
