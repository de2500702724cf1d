------------------------- MODULE PolicyDistribution -------------------------
(***************************************************************************)
(* Signed-policy distribution in the agent: PolicyManager                  *)
(* (policy/policy-manager.ts) and the half of RaspAgent (agent.ts) that    *)
(* fetches, verifies, applies, rolls back and reports policies.            *)
(*                                                                         *)
(* A change of policy announced by a heartbeat starts an asynchronous      *)
(* fetch.  Announcements do not wait for each other, so several fetches    *)
(* can be in flight, and their answers are handled in any order, each in   *)
(* one synchronous callback: verify, accept, apply, and either roll back   *)
(* or report.  The answer travels over a channel the agent does not trust, *)
(* so it can be any policy that was ever signed, or one that was not.      *)
(***************************************************************************)
EXTENDS Integers

CONSTANTS
    Policies,   \* the policies an answer may contain, see PolicyAssumption
    NoPolicy,   \* null: no policy accepted, or configuration as at boot
    Slots,      \* bounds the number of fetches in flight
    BootMode,   \* cfg.mode
    ReportCap   \* bounds the counting of policy_rejected events

Modes == {"monitor", "block"}

(***************************************************************************)
(* A DistributedPolicy, reduced to what the agent's decisions depend on:   *)
(*   mode     "absent" stands for any value applyPolicy does not recognise *)
(*   signed   verifyPolicySignature finds a pinned key that signed it      *)
(*   fault    which call of applyPolicy throws on its contents, if any     *)
(*   exports  what its dataResidency lets out of policy_rejected events    *)
(***************************************************************************)
PolicyShape ==
    [id : STRING, version : Nat, mode : Modes \cup {"absent"},
     signed : BOOLEAN, fault : {"none", "rules", "redaction"},
     exports : {"all", "blocked", "none"}]

ASSUME PolicyAssumption == Policies \subseteq PolicyShape
ASSUME NoPolicyAssumption == NoPolicy \notin Policies
ASSUME BootAssumption == BootMode \in Modes
ASSUME ReportCapAssumption == ReportCap \in Nat \ {0}

VARIABLES
    trusted,       \* policyManager.hasTrustAnchor, fixed by the constructor
    killed,        \* agent.killed
    manager,       \* PolicyManager's current and previous
    config,        \* agent.currentMode, detectors, redaction, dataResidency
    fetches,       \* the state of each fetchPolicy call
    lastRejected,  \* agent.lastRejectedPolicyKey
    reports        \* policy_rejected events enqueued so far, per key

vars == <<trusted, killed, manager, config, fetches, lastRejected, reports>>

-----------------------------------------------------------------------------
(* The state of a fetch: not running, waiting, or answered with a policy.  *)

FetchShape ==
    [phase : {"idle", "asked"}, policy : {NoPolicy}]
        \cup [phase : {"answered"}, policy : Policies]

Idle == [phase |-> "idle", policy |-> NoPolicy]
Asked == [phase |-> "asked", policy |-> NoPolicy]
Answered(p) == [phase |-> "answered", policy |-> p]

Reasons == {"no_trust_anchor", "invalid_signature", "stale_version"}

(* The key `version:reason` under which a rejection is deduplicated.       *)
Keys == [version : {p.version : p \in Policies}, reason : Reasons]
NoKey == [version |-> -1, reason |-> "none"]

(* Every part of the configuration is named by the policy it came from.    *)
BootConfig ==
    [mode |-> BootMode, rules |-> NoPolicy,
     redaction |-> NoPolicy, residency |-> NoPolicy]

(* policyVersion: the version in force, 0 when there is none.              *)
VersionOf(p) == IF p = NoPolicy THEN 0 ELSE p.version

-----------------------------------------------------------------------------
(* PolicyManager                                                           *)

(* What accept(p) decides: the reason of a rejection, or "applied".        *)
Verdict(p) ==
    CASE ~trusted -> "no_trust_anchor"
      [] trusted /\ ~p.signed -> "invalid_signature"
      [] trusted /\ p.signed /\ manager.current # NoPolicy
                 /\ p.version < manager.current.version -> "stale_version"
      [] OTHER -> "applied"

(* The manager after accept(p) has taken p.                                *)
Accepted(m, p) == [current |-> p, previous |-> m.current]

(* As RolledBack, clearing the policy that should have come back.          *)
RolledBackToNone(m) == [current |-> NoPolicy, previous |-> NoPolicy]

(* The manager after rollback().                                           *)
RolledBack(m) ==
    IF m.previous # NoPolicy
    THEN [current |-> m.previous, previous |-> NoPolicy]
    ELSE [m EXCEPT !.current = NoPolicy]

-----------------------------------------------------------------------------
(* RaspAgent: applying a policy                                            *)

(* applyPolicy(p) on configuration c, up to the call that throws, if any.  *)
(* The mode is set first, then rules, redaction and residency.             *)
Applied(c, p) ==
    LET mode == IF p.mode \in Modes THEN p.mode ELSE c.mode
    IN  CASE p.fault = "rules" -> [c EXCEPT !.mode = mode]
          [] p.fault = "redaction" -> [c EXCEPT !.mode = mode, !.rules = p]
          [] OTHER -> [mode |-> mode, rules |-> p,
                       redaction |-> p, residency |-> p]

(* Whether applyPolicy(p) runs to its end.                                 *)
Runs(p) == p.fault = "none"

(* As Restored, trusting that a failed application changed nothing.        *)
RestoredManagerOnly(c, m) == c

(* After a failed apply: roll the manager back and apply what it restored. *)
Restored(c, m) ==
    IF m.current # NoPolicy THEN Applied(c, m.current) ELSE c

(* An accepted policy is applied; if that throws, the previous one is      *)
(* restored on top of whatever the failed application left behind.         *)
Install(p) ==
    LET accepted == Accepted(manager, p)
        back == RolledBack(accepted)
    IN  /\ manager' = IF Runs(p) THEN accepted ELSE back
        /\ config' = IF Runs(p) THEN Applied(config, p)
                                ELSE Restored(Applied(config, p), back)

(* applyDataResidency on a policy_rejected event, whose action is the mode *)
(* in effect.                                                              *)
Exported(c) ==
    \/ c.residency = NoPolicy
    \/ c.residency.exports = "all"
    \/ c.residency.exports = "blocked" /\ c.mode = "block"

(* enqueuePolicyRejected: the key is remembered before the event is        *)
(* filtered, and only the last key is remembered.                          *)
Report(key) ==
    IF key = lastRejected
    THEN UNCHANGED <<lastRejected, reports>>
    ELSE /\ lastRejected' = key
         /\ reports' = [reports EXCEPT ![key] =
                          IF Exported(config) /\ @ < ReportCap THEN @ + 1
                                                               ELSE @]

-----------------------------------------------------------------------------
(* Actions of the agent                                                    *)

(* fetchPolicy is called; no earlier call is waited for.                    *)
BeginFetch(s) ==
    /\ fetches[s].phase = "idle"
    /\ fetches' = [fetches EXCEPT ![s] = Asked]

(* As FollowHint, whether or not there is a trust anchor.                  *)
FollowHintAnyway(m) == config' = [config EXCEPT !.mode = m]

(* onModeChange: the heartbeat's unsigned mode hint is only followed by an *)
(* agent that has no trust anchor.                                         *)
FollowHint(m) ==
    config' = IF trusted THEN config ELSE [config EXCEPT !.mode = m]

(* The callbacks that one heartbeat answer triggers, in their order: the   *)
(* kill switch is set or lifted (kill), then a policy change, if announced,*)
(* starts a fetch unless the agent is killed or has no trust anchor, then  *)
(* a mode hint, if there is one ("absent" if not), is looked at.           *)
HandleDirectives(kill, announced, hint) ==
    /\ killed' = kill
    /\ IF announced /\ ~kill /\ trusted
       THEN \E s \in Slots : BeginFetch(s)
       ELSE UNCHANGED fetches
    /\ IF hint \in Modes THEN FollowHint(hint) ELSE UNCHANGED config
    /\ UNCHANGED <<trusted, manager, lastRejected, reports>>

(* The fetch's callback, for a policy that accept() takes.  There is no    *)
(* second look at `killed`.                                                *)
HandleAccepted(s) ==
    /\ fetches[s].phase = "answered"
    /\ Verdict(fetches[s].policy) = "applied"
    /\ Install(fetches[s].policy)
    /\ fetches' = [fetches EXCEPT ![s] = Idle]
    /\ UNCHANGED <<trusted, killed, lastRejected, reports>>

(* The fetch's callback, for a policy that accept() rejects.               *)
HandleRejected(s) ==
    /\ fetches[s].phase = "answered"
    /\ Verdict(fetches[s].policy) # "applied"
    /\ Report([version |-> fetches[s].policy.version,
               reason |-> Verdict(fetches[s].policy)])
    /\ fetches' = [fetches EXCEPT ![s] = Idle]
    /\ UNCHANGED <<trusted, killed, manager, config>>

-----------------------------------------------------------------------------
(* The collector and the network                                           *)

(* GET /v1/policy answers; the answer is not handled yet.                  *)
Answer(s, p) ==
    /\ fetches[s] = Asked
    /\ fetches' = [fetches EXCEPT ![s] = Answered(p)]
    /\ UNCHANGED <<trusted, killed, manager, config, lastRejected, reports>>

(* Any failure of the request: fetchPolicy returns null, which the agent's *)
(* callback ignores.                                                       *)
FetchFails(s) ==
    /\ fetches[s] = Asked
    /\ fetches' = [fetches EXCEPT ![s] = Idle]
    /\ UNCHANGED <<trusted, killed, manager, config, lastRejected, reports>>

-----------------------------------------------------------------------------

Init ==
    /\ trusted \in BOOLEAN
    /\ killed = FALSE
    /\ manager = [current |-> NoPolicy, previous |-> NoPolicy]
    /\ config = BootConfig
    /\ fetches = [s \in Slots |-> Idle]
    /\ lastRejected = NoKey
    /\ reports = [k \in Keys |-> 0]

Next ==
    \/ \E kill, announced \in BOOLEAN, hint \in Modes \cup {"absent"} :
         HandleDirectives(kill, announced, hint)
    \/ \E s \in Slots :
         \/ HandleAccepted(s)
         \/ HandleRejected(s)
         \/ FetchFails(s)
         \/ \E p \in Policies : Answer(s, p)

Spec == Init /\ [][Next]_vars

-----------------------------------------------------------------------------
(* Properties                                                              *)

TypeOK ==
    /\ trusted \in BOOLEAN
    /\ killed \in BOOLEAN
    /\ manager \in [current : Policies \cup {NoPolicy},
                    previous : Policies \cup {NoPolicy}]
    /\ config \in [mode : Modes, rules : Policies \cup {NoPolicy},
                   redaction : Policies \cup {NoPolicy},
                   residency : Policies \cup {NoPolicy}]
    /\ fetches \in [Slots -> FetchShape]
    /\ lastRejected \in Keys \cup {NoKey}
    /\ reports \in [Keys -> 0 .. ReportCap]

(* The policy that policyVersion reports is the one that is running: its   *)
(* rules, redaction, residency and (if it names one) mode are all in       *)
(* effect, however many later policies were accepted, failed half-way and  *)
(* were rolled back.                                                       *)
ConfigIsPolicyInForce ==
    LET p == manager.current
    IN  p # NoPolicy =>
          /\ config.rules = p
          /\ config.redaction = p
          /\ config.residency = p
          /\ p.mode \in Modes => config.mode = p.mode

(* A policy that has just been restored can be restored: rollback() never  *)
(* returns a policy whose application would fail again.                    *)
PolicyInForceRuns ==
    \A p \in {manager.current, manager.previous} \ {NoPolicy} :
        p.signed /\ Runs(p)

(* With a trust anchor, only the answer to a fetch ever changes what the   *)
(* agent runs, and only if its policy is signed and not older than the one *)
(* in force: an unsigned mode hint, a forgery or a replay never gets       *)
(* through.  Each part that changes then comes from that policy or, if it  *)
(* cannot be applied, from the one that is restored.                       *)
ConfigIsAuthentic ==
    [][trusted /\ config' # config =>
         \E s \in Slots :
            LET p == fetches[s].policy
                sources == {p, manager.current} \ {NoPolicy}
            IN  /\ fetches[s].phase = "answered" /\ fetches'[s].phase = "idle"
                /\ p.signed /\ VersionOf(manager.current) <= VersionOf(p)
                /\ config'.mode \in {config.mode} \cup {q.mode : q \in sources}
                /\ config'.rules \in {config.rules} \cup sources
                /\ config'.redaction \in {config.redaction} \cup sources
                /\ config'.residency \in {config.residency} \cup sources]_vars

(* Anti-replay: the version in force never decreases, whatever the order   *)
(* in which overlapping fetches are answered and however often a newer     *)
(* policy is rolled back.                                                  *)
VersionNeverDecreases ==
    [][VersionOf(manager.current) <= VersionOf(manager.current')]_vars

(* What distribution promises: see PolicyRegister.                         *)
Register ==
    INSTANCE PolicyRegister
        WITH held <- manager.current, NoPolicy <- NoPolicy,
             Runnable <- {p \in Policies : p.signed /\ Runs(p)},
             VersionOf <- VersionOf

RegisterSpec == Register!Spec

(* Two claims that the code does not keep.                                 *)
(* The test suite's claim that a policy_rejected event is enqueued once    *)
(* per version and reason (test/policy-rejection.test.ts).                 *)
RejectedOncePerPair == \A k \in Keys : reports[k] <= 1

(* The claim of handlePolicyChange's comment that an agent whose new       *)
(* policy cannot be applied keeps its current configuration, for an agent  *)
(* that never had another policy.                                          *)
FailedPolicyLeavesBootConfig ==
    trusted /\ manager.current = NoPolicy => config = BootConfig
=============================================================================
