--------------------------- MODULE MCControlPlane ---------------------------
(***************************************************************************)
(* Instances of ControlPlane for TLC.                                      *)
(***************************************************************************)
EXTENDS ControlPlane

LOCAL R(kill, policy, mode) ==
    [killSwitch |-> kill, policyVersion |-> policy, mode |-> mode,
     targetVersion |-> Undefined, upgradeAvailable |-> FALSE]

LOCAL P(id, version, mode, fault) ==
    [id |-> id, version |-> version, mode |-> mode, signed |-> TRUE,
     fault |-> fault, exports |-> "all"]

MCPublished(v) ==
    IF v = "p1" THEN P("a", 1, "block", "none") ELSE P("b", 2, "monitor", "none")
MCPolicies == {MCPublished("p1"), MCPublished("p2")}

(* A kill switch, two policies and two modes.                              *)
MCResponses ==
    { R(FALSE, "p1", "monitor"), R(TRUE, "p2", "block"),
      R(FALSE, "p2", Undefined) }

(* One policy and a kill switch.                                           *)
MCKillResponses == { R(b, "p1", Undefined) : b \in BOOLEAN }
=============================================================================
