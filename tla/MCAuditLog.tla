----------------------------- MODULE MCAuditLog -----------------------------
(***************************************************************************)
(* Instances of AuditLog for TLC: the .cfg files give the constants.       *)
(***************************************************************************)
EXTENDS AuditLog
=============================================================================
