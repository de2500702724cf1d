----------------------------- MODULE Heartbeat -----------------------------
(***************************************************************************)
(* The heartbeat, the agent's bidirectional control channel:               *)
(* HeartbeatScheduler (transport/heartbeat.ts), the callbacks of RaspAgent *)
(* (agent.ts) that change what it reports or obeys, and the request's fate *)
(* as TransportClient.sendHeartbeat reports it (transport/client.ts).      *)
(*                                                                         *)
(* A beat is one asynchronous call: it reads the pending upgrade status,   *)
(* sends a request, and handles the answer when it comes.  The interval    *)
(* timer does not wait for the previous beat, so beats overlap, their      *)
(* answers can be handled in another order than the collector gave them,   *)
(* and some are handled after stop().                                      *)
(***************************************************************************)
EXTENDS Integers

CONSTANTS
    Slots,         \* bounds the number of beats in flight
    Responses,     \* the answers the collector may give, see ResponseShape
    Versions,      \* version strings of the agent
    PolicyVersions,\* non-empty version strings of policies
    AgentVersion,  \* cfg.agentVersion
    Upgrades,      \* the calls of setUpgradeStatus made by the agent's owner
    Null,          \* null
    Undefined      \* a field that is absent, or an empty string

Modes == {"monitor", "block"}

(* A HeartbeatResponse.  Changelog and impact only reach the log.          *)
ResponseShape ==
    [killSwitch : BOOLEAN, policyVersion : PolicyVersions \cup {Undefined},
     mode : Modes \cup {Undefined},
     targetVersion : Versions \cup {Null, Undefined},
     upgradeAvailable : BOOLEAN]

ASSUME ResponsesAssumption == Responses \subseteq ResponseShape
ASSUME NullAssumption ==
    /\ Null # Undefined
    /\ {Null, Undefined} \cap (Versions \cup PolicyVersions \cup Modes) = {}
    /\ Undefined \notin Upgrades

VARIABLES
    server,             \* what the collector answers now
    timer,              \* scheduler.timer is armed
    beats,              \* the state of each beat() call
    killSwitchActive,   \* scheduler.killSwitchActive
    lastPolicyVersion,  \* scheduler.lastPolicyVersion
    lastMode,           \* scheduler.lastMode
    lastTargetVersion,  \* scheduler.lastTargetVersion
    pendingUpgrade,     \* scheduler.pendingUpgradeStatus
    killed,             \* agent.killed
    targetVersion,      \* agent.targetVersion
    upgradePending,     \* agent.upgradePending
    unsentUpgrades,     \* the calls of setUpgradeStatus still to be made
    reported            \* how often the collector was told of each upgrade

schedulerVars == <<timer, killSwitchActive, lastPolicyVersion, lastMode,
                   lastTargetVersion, pendingUpgrade>>
agentVars == <<killed, targetVersion, upgradePending>>
collectorVars == <<server, unsentUpgrades, reported>>
vars == <<schedulerVars, agentVars, collectorVars, beats>>

-----------------------------------------------------------------------------
(* The state of a beat: `carries` is the upgrade status in the request,    *)
(* `answer` the response on its way back.                                  *)

NoAnswer ==
    [killSwitch |-> FALSE, policyVersion |-> Undefined, mode |-> Undefined,
     targetVersion |-> Undefined, upgradeAvailable |-> FALSE]

BeatShape ==
    [phase : {"idle", "sent", "answered"}, carries : Upgrades \cup {Undefined},
     answer : Responses \cup {NoAnswer}]

IdleBeat == [phase |-> "idle", carries |-> Undefined, answer |-> NoAnswer]

(* As Send, clearing the status only when an answer comes.                 *)
SendKeepingStatus(s) ==
    /\ beats[s].phase = "idle"
    /\ beats' = [beats EXCEPT ![s] = [phase |-> "sent",
                                      carries |-> pendingUpgrade,
                                      answer |-> NoAnswer]]
    /\ pendingUpgrade' = pendingUpgrade

(* beat() up to its await: the pending upgrade status moves into the       *)
(* payload and is cleared before the request is sent.                      *)
Send(s) ==
    /\ beats[s].phase = "idle"
    /\ beats' = [beats EXCEPT ![s] = [phase |-> "sent",
                                      carries |-> pendingUpgrade,
                                      answer |-> NoAnswer]]
    /\ pendingUpgrade' = Undefined

-----------------------------------------------------------------------------
(* The parts of beat() after its await, for the answer r.                  *)

(* As ObeyKillSwitch, for a scheduler that cannot recover.                 *)
ObeyKillSwitchForever(r) ==
    /\ killSwitchActive' = (r.killSwitch \/ killSwitchActive)
    /\ killed' = (killed \/ r.killSwitch)

(* As ObeyKillSwitch, without remembering that the kill switch was lifted. *)
ObeyKillSwitchNoReset(r) ==
    /\ killSwitchActive' = (r.killSwitch \/ killSwitchActive)
    /\ killed' = IF r.killSwitch # killSwitchActive THEN r.killSwitch
                                                    ELSE killed

(* The kill switch is an edge detector in the scheduler; the agent's       *)
(* handlers set and clear `killed`.                                        *)
ObeyKillSwitch(r) ==
    /\ killSwitchActive' = r.killSwitch
    /\ killed' = IF r.killSwitch # killSwitchActive THEN r.killSwitch
                                                    ELSE killed

(* Whether onPolicyChange is called with the answer's policy version.      *)
AnnouncesPolicy(r) ==
    r.policyVersion # Undefined /\ r.policyVersion # lastPolicyVersion

(* Whether onModeChange is called with the answer's mode.                  *)
AnnouncesMode(r) == r.mode # Undefined /\ r.mode # lastMode

RememberPolicy(r) ==
    lastPolicyVersion' = IF AnnouncesPolicy(r) THEN r.policyVersion
                                               ELSE lastPolicyVersion

RememberMode(r) == lastMode' = IF AnnouncesMode(r) THEN r.mode ELSE lastMode

(* r.targetVersion ?? null                                                 *)
OrNull(v) == IF v = Undefined THEN Null ELSE v

(* As ObeyTargetVersion, ignoring a target that was withdrawn.             *)
ObeyTargetVersionNoWithdrawal(r) ==
    IF r.targetVersion \in {lastTargetVersion, Null, Undefined}
    THEN UNCHANGED <<lastTargetVersion, targetVersion, upgradePending>>
    ELSE /\ lastTargetVersion' = r.targetVersion
         /\ targetVersion' = r.targetVersion
         /\ upgradePending' = (r.upgradeAvailable /\ r.targetVersion # AgentVersion)

(* As ObeyTargetVersion, asking for an upgrade whenever one is advertised. *)
ObeyTargetVersionBlindly(r) ==
    IF r.targetVersion = lastTargetVersion
    THEN UNCHANGED <<lastTargetVersion, targetVersion, upgradePending>>
    ELSE /\ lastTargetVersion' = OrNull(r.targetVersion)
         /\ targetVersion' = OrNull(r.targetVersion)
         /\ upgradePending' = (upgradePending \/ r.upgradeAvailable)

(* The advertised version: the comparison is with the raw field, what is   *)
(* remembered has null for an absent one, so an absent field is handled    *)
(* again on every beat.                                                    *)
ObeyTargetVersion(r) ==
    IF r.targetVersion = lastTargetVersion
    THEN UNCHANGED <<lastTargetVersion, targetVersion, upgradePending>>
    ELSE LET target == OrNull(r.targetVersion)
         IN  /\ lastTargetVersion' = target
             /\ targetVersion' = target
             /\ upgradePending' = (/\ r.upgradeAvailable
                                   /\ target \notin {Null, AgentVersion})

-----------------------------------------------------------------------------
(* Actions of the agent                                                    *)

(* start(): an immediate beat, then the interval.  Without effect when the *)
(* timer is armed.                                                         *)
Start(s) ==
    /\ ~timer
    /\ timer' = TRUE
    /\ Send(s)
    /\ UNCHANGED <<killSwitchActive, lastPolicyVersion, lastMode,
                   lastTargetVersion, agentVars, collectorVars>>

(* The interval fires.                                                     *)
Tick(s) ==
    /\ timer
    /\ Send(s)
    /\ UNCHANGED <<timer, killSwitchActive, lastPolicyVersion, lastMode,
                   lastTargetVersion, agentVars, collectorVars>>

(* stop(): beats in flight are not cancelled.                              *)
Stop ==
    /\ timer
    /\ timer' = FALSE
    /\ UNCHANGED <<killSwitchActive, lastPolicyVersion, lastMode,
                   lastTargetVersion, pendingUpgrade, agentVars,
                   collectorVars, beats>>

(* setUpgradeStatus(u): replaces a status that is still pending.           *)
SetUpgradeStatus(u) ==
    /\ u \in unsentUpgrades
    /\ unsentUpgrades' = unsentUpgrades \ {u}
    /\ pendingUpgrade' = u
    /\ UNCHANGED <<timer, killSwitchActive, lastPolicyVersion, lastMode,
                   lastTargetVersion, agentVars, server, reported, beats>>

(* An answer is handled, in one synchronous piece.                         *)
HandleAnswer(s) ==
    LET r == beats[s].answer
    IN  /\ beats[s].phase = "answered"
        /\ ObeyKillSwitch(r)
        /\ RememberPolicy(r)
        /\ RememberMode(r)
        /\ ObeyTargetVersion(r)
        /\ beats' = [beats EXCEPT ![s] = IdleBeat]
        /\ UNCHANGED <<timer, pendingUpgrade, collectorVars>>

(* sendHeartbeat returned null: nothing happens, and what the request      *)
(* carried is gone.                                                        *)
BeatFails(s) ==
    /\ beats[s].phase \in {"sent", "answered"}
    /\ beats' = [beats EXCEPT ![s] = IdleBeat]
    /\ UNCHANGED <<schedulerVars, agentVars, collectorVars>>

-----------------------------------------------------------------------------
(* The collector                                                           *)

(* An operator changes what the collector answers.                         *)
ServerChanges ==
    /\ server' \in Responses \ {server}
    /\ UNCHANGED <<schedulerVars, agentVars, unsentUpgrades, reported, beats>>

(* POST /v1/heartbeat arrives and is answered.                             *)
Answer(s) ==
    /\ beats[s].phase = "sent"
    /\ beats' = [beats EXCEPT ![s].phase = "answered", ![s].answer = server]
    /\ reported' = [u \in Upgrades |->
                      IF u = beats[s].carries /\ reported[u] < 2
                      THEN reported[u] + 1 ELSE reported[u]]
    /\ UNCHANGED <<schedulerVars, agentVars, server, unsentUpgrades>>

-----------------------------------------------------------------------------

Init ==
    /\ server \in Responses
    /\ timer = FALSE
    /\ beats = [s \in Slots |-> IdleBeat]
    /\ killSwitchActive = FALSE
    /\ lastPolicyVersion = Undefined
    /\ lastMode = Undefined
    /\ lastTargetVersion = Undefined
    /\ pendingUpgrade = Undefined
    /\ killed = FALSE
    /\ targetVersion = Null
    /\ upgradePending = FALSE
    /\ unsentUpgrades = Upgrades
    /\ reported = [u \in Upgrades |-> 0]

Next ==
    \/ Stop
    \/ ServerChanges
    \/ \E u \in Upgrades : SetUpgradeStatus(u)
    \/ \E s \in Slots :
         Start(s) \/ Tick(s) \/ Answer(s) \/ HandleAnswer(s) \/ BeatFails(s)

Spec == Init /\ [][Next]_vars

(***************************************************************************)
(* Fairness.  setInterval keeps firing while it is armed.  The network     *)
(* may lose any beat, but not every beat for ever: a collector that can    *)
(* be reached again and again is reached, and so is the agent by its       *)
(* answers.  Nothing is assumed about Start, Stop, setUpgradeStatus, the   *)
(* collector's operators or failures.                                      *)
(***************************************************************************)
Fairness ==
    /\ WF_vars(\E s \in Slots : Tick(s))
    /\ \A s \in Slots : SF_vars(Answer(s)) /\ SF_vars(HandleAnswer(s))

FairSpec == Spec /\ Fairness

-----------------------------------------------------------------------------
(* Properties                                                              *)

TypeOK ==
    /\ server \in Responses
    /\ timer \in BOOLEAN
    /\ beats \in [Slots -> BeatShape]
    /\ killSwitchActive \in BOOLEAN
    /\ lastPolicyVersion \in PolicyVersions \cup {Undefined}
    /\ lastMode \in Modes \cup {Undefined}
    /\ lastTargetVersion \in Versions \cup {Null, Undefined}
    /\ pendingUpgrade \in Upgrades \cup {Undefined}
    /\ killed \in BOOLEAN
    /\ targetVersion \in Versions \cup {Null}
    /\ upgradePending \in BOOLEAN
    /\ unsentUpgrades \subseteq Upgrades
    /\ reported \in [Upgrades -> 0 .. 2]

(* The scheduler's edge detector and the agent never disagree about the    *)
(* kill switch: if they did, the next edge would be missed and the agent   *)
(* would stay killed, or alive, for good.                                  *)
KillSwitchInStep == killed = killSwitchActive

(* The agent and the scheduler agree about the target version, and an      *)
(* upgrade is only pending towards a version the agent does not run.       *)
TargetInStep ==
    /\ targetVersion = OrNull(lastTargetVersion)
    /\ upgradePending => targetVersion \notin {Null, AgentVersion}

(* An upgrade status is reported at most once: a status goes from unsent   *)
(* to pending to carried to reported and is never in two of these places,  *)
(* in two beats, or reported twice, whatever overlaps, fails or is lost.   *)
UpgradeReportedAtMostOnce ==
    \A u \in Upgrades :
        LET carried == {s \in Slots : beats[s].phase = "sent"
                                        /\ beats[s].carries = u}
        IN  /\ u \in unsentUpgrades =>
                 pendingUpgrade # u /\ carried = {} /\ reported[u] = 0
            /\ pendingUpgrade = u => carried = {} /\ reported[u] = 0
            /\ carried # {} => reported[u] = 0
            /\ \A s, t \in carried : s = t
            /\ reported[u] <= 1

(* If the collector's kill switch stays as it is and the loop keeps        *)
(* running, the agent ends up obeying it for good, in both directions:     *)
(* answers that were given earlier and handled late cannot win.            *)
KillSwitchSettles ==
    \A b \in BOOLEAN :
        <>[](timer /\ server.killSwitch = b) => <>[](killed = b)

(* If the collector's target version stays as it is and the loop keeps     *)
(* running, the agent ends up reporting that target for good.              *)
TargetSettles ==
    \A v \in Versions \cup {Null, Undefined} :
        <>[](timer /\ server.targetVersion = v)
            => <>[](targetVersion = OrNull(v))
=============================================================================
