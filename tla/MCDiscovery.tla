---------------------------- MODULE MCDiscovery ----------------------------
(***************************************************************************)
(* An instance of Discovery for TLC.                                       *)
(***************************************************************************)
EXTENDS Discovery

CONSTANTS r1, r2, r3, k1, k2

(* Two requests to one endpoint and one to another.                        *)
MCEndpointOf(r) == IF r = r3 THEN k2 ELSE k1
=============================================================================
