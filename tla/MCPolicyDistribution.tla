------------------------ MODULE MCPolicyDistribution ------------------------
(***************************************************************************)
(* Instances of PolicyDistribution for TLC.                                *)
(***************************************************************************)
EXTENDS PolicyDistribution

LOCAL P(id, version, mode, signed, fault, exports) ==
    [id |-> id, version |-> version, mode |-> mode, signed |-> signed,
     fault |-> fault, exports |-> exports]

(* Two generations that run, one that keeps every event local or only lets *)
(* blocked ones out; one newer policy whose redaction cannot be built and  *)
(* one that names no mode and whose rules cannot; and two forgeries that   *)
(* share their versions with real ones.                                    *)
MCPolicies ==
    { P("a", 1, "block",   TRUE,  "none",      "all"),
      P("b", 2, "monitor", TRUE,  "none",      "blocked"),
      P("c", 2, "absent",  TRUE,  "none",      "none"),
      P("d", 3, "monitor", TRUE,  "redaction", "all"),
      P("e", 3, "absent",  TRUE,  "rules",     "all"),
      P("f", 2, "block",   FALSE, "none",      "all"),
      P("g", 3, "monitor", FALSE, "none",      "all") }
=============================================================================
