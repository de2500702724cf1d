---------------------------- MODULE ControlPlane ----------------------------
(***************************************************************************)
(* The heartbeat and policy distribution together, as RaspAgent's          *)
(* constructor (agent.ts) wires them: one heartbeat answer may in one step *)
(* set or lift the kill switch, start the fetch of a policy and change the *)
(* mode; the fetched policy is handled later, by which time other answers  *)
(* may have been handled.                                                  *)
(***************************************************************************)
EXTENDS Integers

CONSTANTS
    Beats, Responses, Versions, PolicyVersions, AgentVersion, Upgrades,
    Null, Undefined,                             \* see Heartbeat
    Policies, NoPolicy, Fetches, BootMode, ReportCap,  \* see PolicyDistribution
    Published(_)   \* the policy that the collector has under a version string

VARIABLES
    server, timer, beats, killSwitchActive, lastPolicyVersion, lastMode,
    lastTargetVersion, pendingUpgrade, targetVersion, upgradePending,
    unsentUpgrades, reported,                    \* see Heartbeat
    killed,                                      \* in both
    trusted, manager, config, fetches, lastRejected, reports,
                                                 \* see PolicyDistribution
    fetchesFail    \* whether GET /v1/policy can fail in this behaviour

HB == INSTANCE Heartbeat WITH Slots <- Beats
PD == INSTANCE PolicyDistribution WITH Slots <- Fetches

ASSUME PublishedAssumption ==
    \A v \in PolicyVersions : Published(v) \in Policies
ASSUME ResponsesAssumption == Responses \subseteq HB!ResponseShape
ASSUME BootAssumption == BootMode \in HB!Modes
ASSUME UndefinedAssumption == Undefined \notin HB!Modes \cup PolicyVersions
ASSUME PoliciesAssumption ==
    Policies \subseteq PD!PolicyShape /\ NoPolicy \notin Policies

heartbeatVars == <<server, timer, beats, killSwitchActive, lastPolicyVersion,
                   lastMode, lastTargetVersion, pendingUpgrade, targetVersion,
                   upgradePending, unsentUpgrades, reported>>
policyVars == <<trusted, manager, config, fetches, lastRejected, reports,
                fetchesFail>>
vars == <<heartbeatVars, killed, policyVars>>

-----------------------------------------------------------------------------

(* As HandleAnswer, with a killed agent that does not listen to the rest.  *)
HandleAnswerDeafWhileKilled(b) ==
    LET r == beats[b].answer
    IN  /\ HB!HandleAnswer(b)
        /\ PD!HandleDirectives(killed', HB!AnnouncesPolicy(r),
                               IF HB!AnnouncesMode(r) /\ ~killed' THEN r.mode
                                                                  ELSE "absent")
        /\ UNCHANGED fetchesFail

(* As HandleAnswer, fetching only when no other fetch is running.          *)
HandleAnswerOneFetchAtATime(b) ==
    LET r == beats[b].answer
    IN  /\ HB!HandleAnswer(b)
        /\ PD!HandleDirectives(killed',
                               /\ HB!AnnouncesPolicy(r)
                               /\ \A f \in Fetches : fetches[f].phase = "idle",
                               IF HB!AnnouncesMode(r) THEN r.mode ELSE "absent")
        /\ UNCHANGED fetchesFail

(* As HandleAnswer, with a killed agent that still fetches.                *)
HandleAnswerFetchingWhileKilled(b) ==
    LET r == beats[b].answer
    IN  /\ HB!HandleAnswer(b)
        /\ IF HB!AnnouncesPolicy(r) /\ trusted
           THEN \E f \in Fetches : PD!BeginFetch(f)
           ELSE UNCHANGED fetches
        /\ IF HB!AnnouncesMode(r) THEN PD!FollowHint(r.mode)
                                  ELSE UNCHANGED config
        /\ UNCHANGED <<trusted, manager, lastRejected, reports, fetchesFail>>

(* A heartbeat answer and the callbacks it triggers.  handlePolicyChange   *)
(* looks at `killed` as the same answer has just set it.                   *)
HandleAnswer(b) ==
    LET r == beats[b].answer
    IN  /\ HB!HandleAnswer(b)
        /\ PD!HandleDirectives(killed', HB!AnnouncesPolicy(r),
                               IF HB!AnnouncesMode(r) THEN r.mode ELSE "absent")
        /\ UNCHANGED fetchesFail

(* The collector never goes back to an older policy ("Policies are         *)
(* monotonically versioned", README).                                      *)
VersionAt(r) ==
    IF r.policyVersion \in PolicyVersions
    THEN Published(r.policyVersion).version ELSE 0

PublishesForward ==
    HB!ServerChanges /\ VersionAt(server') >= VersionAt(server)

(* The heartbeat's other steps.                                            *)
HeartbeatStep ==
    /\ \/ HB!Stop
       \/ PublishesForward
       \/ \E u \in Upgrades : HB!SetUpgradeStatus(u)
       \/ \E b \in Beats : HB!Start(b) \/ HB!Tick(b) \/ HB!Answer(b)
                             \/ HB!BeatFails(b)
    /\ UNCHANGED policyVars

(* The collector answers a fetch with the policy it announces at the time. *)
AnswerFetch(f) ==
    /\ server.policyVersion \in PolicyVersions
    /\ PD!Answer(f, Published(server.policyVersion))
    /\ UNCHANGED <<heartbeatVars, fetchesFail>>

(* As FetchFails, for an agent that disables itself without a policy.      *)
FetchFailsClosed(f) ==
    /\ fetches[f].phase = "asked"
    /\ fetches' = [fetches EXCEPT ![f] = PD!Idle]
    /\ killed' = TRUE
    /\ UNCHANGED <<heartbeatVars, trusted, manager, config, lastRejected,
                   reports, fetchesFail>>

(* The request fails; a collector without a policy always answers 404.     *)
FetchFails(f) ==
    /\ fetchesFail \/ server.policyVersion = Undefined
    /\ PD!FetchFails(f)
    /\ UNCHANGED <<heartbeatVars, fetchesFail>>

(* The callback of a fetch.                                                *)
HandlePolicy(f) ==
    /\ PD!HandleAccepted(f) \/ PD!HandleRejected(f)
    /\ UNCHANGED <<heartbeatVars, fetchesFail>>

-----------------------------------------------------------------------------

Init == HB!Init /\ PD!Init /\ fetchesFail \in BOOLEAN

Next ==
    \/ HeartbeatStep
    \/ \E b \in Beats : HandleAnswer(b)
    \/ \E f \in Fetches : AnswerFetch(f) \/ FetchFails(f) \/ HandlePolicy(f)

Spec == Init /\ [][Next]_vars

(* Heartbeat's fairness, and the same of fetches: a collector that can be  *)
(* reached again and again is reached, and callbacks of settled requests   *)
(* run.                                                                    *)
Fairness ==
    /\ WF_vars(\E b \in Beats : HB!Tick(b) /\ UNCHANGED policyVars)
    /\ \A b \in Beats :
         /\ SF_vars(HB!Answer(b) /\ UNCHANGED policyVars)
         /\ SF_vars(HandleAnswer(b))
    /\ \A f \in Fetches :
         /\ SF_vars(AnswerFetch(f))
         /\ WF_vars(AnswerFetch(f) \/ FetchFails(f))
         /\ WF_vars(HandlePolicy(f))

FairSpec == Spec /\ Fairness

-----------------------------------------------------------------------------
(* Properties                                                              *)

(* Composing the two parts does not make either do something it does not   *)
(* do on its own, so what holds of each holds of the agent.                *)
HeartbeatSpec == HB!Spec
DistributionSpec == PD!Spec

(* An agent without a trust anchor runs in the mode of the last heartbeat  *)
(* answer that named one, killed or not: the scheduler remembers the mode  *)
(* as handed over and will not hand it over again.                         *)
HintFollowed ==
    ~trusted => config.mode = IF lastMode = Undefined THEN BootMode
                                                      ELSE lastMode

(* If the collector settles on a version, the agent ends up with a policy  *)
(* that is at least as new, although fetches overlap and each is answered  *)
(* with whatever is published when it reaches the collector.  An           *)
(* announcement is neither repeated after a fetch that failed nor after a  *)
(* time in which the agent was killed, so there must be none of either.    *)
PolicySettles ==
    \A v \in PolicyVersions :
        (/\ ~fetchesFail
         /\ []~killed
         /\ <>[](trusted /\ timer /\ server.policyVersion = v))
            => <>[](PD!VersionOf(manager.current) >= Published(v).version)

(* A claim that the code does not keep.  README, Kill-switch: "Recovery is *)
(* automatic": the same for an agent that was killed, when the collector's *)
(* kill switch ends up lifted.                                             *)
RecoveryIsAutomatic ==
    \A v \in PolicyVersions :
        (/\ ~fetchesFail
         /\ <>[](/\ trusted /\ timer
                 /\ server.policyVersion = v /\ ~server.killSwitch))
            => <>[](PD!VersionOf(manager.current) >= Published(v).version)
=============================================================================
