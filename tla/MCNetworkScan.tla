---------------------------- MODULE MCNetworkScan ---------------------------
(* A source with four hosts, one of them excluded.                           *)
EXTENDS NetworkScan

CONSTANTS h1, h2, h3, h4
=============================================================================
