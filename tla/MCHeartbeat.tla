----------------------------- MODULE MCHeartbeat -----------------------------
(***************************************************************************)
(* An instance of Heartbeat for TLC.                                       *)
(***************************************************************************)
EXTENDS Heartbeat

LOCAL R(kill, policy, mode, target) ==
    [killSwitch |-> kill, policyVersion |-> policy, mode |-> mode,
     targetVersion |-> target,
     \* the collector's contract for upgradeAvailable (types.ts)
     upgradeAvailable |-> target \notin {AgentVersion, Null, Undefined}]

(* Kill switch, policy version and target version, some fields absent.     *)
MCResponses ==
    { R(FALSE, Undefined, Undefined, Undefined),
      R(TRUE,  "p1",      "block",   "v2"),
      R(FALSE, "p1",      "monitor", "v1"),
      R(FALSE, "p2",      "block",   Null) }
=============================================================================
