-------------------------- MODULE MCSelfProtection --------------------------
(***************************************************************************)
(* Instances of SelfProtection for TLC: the .cfg files give the other      *)
(* constants.                                                              *)
(***************************************************************************)
EXTENDS SelfProtection

CONSTANTS pg, client, pool

(* pg.Client.prototype.query before pg.Pool.prototype.query.               *)
MCMethodsOf == [d \in {pg} |-> <<client, pool>>]
=============================================================================
