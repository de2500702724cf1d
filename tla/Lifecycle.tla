----------------------------- MODULE Lifecycle -----------------------------
(***************************************************************************)
(* The life of a RaspAgent (agent.ts): what start(), stop(), the kill      *)
(* switch and its recovery leave running.                                  *)
(*                                                                         *)
(* The agent owns intervals: the heartbeat's, the two buffers', one that   *)
(* prunes the BOLA windows and the self-protection watchdog's              *)
(* (self-protect.ts).  It only keeps one handle of each.  The kill switch  *)
(* is driven by heartbeat answers, which can still arrive after stop().    *)
(***************************************************************************)
EXTENDS Integers

CONSTANTS
    Beats,        \* bounds the number of heartbeats in flight
    MaxStarts,    \* bounds the number of calls of start()
    selfProtect   \* cfg.selfProtect

ASSUME MaxStartsAssumption == MaxStarts \in Nat \ {0}
ASSUME SelfProtectAssumption == selfProtect \in BOOLEAN

VARIABLES
    starts,            \* calls of start() so far
    initialized,       \* what withInitTimeout made of the last of them
    heartbeatTimer,    \* heartbeat.timer is armed
    bufferTimer,       \* buffer.timer is armed
    discoveryTimer,    \* discoveryBuffer.timer is armed
    pruners,           \* armed prune intervals
    pruneHandle,       \* bolaPruneTimer is not null
    watchdogs,         \* armed self-protection intervals
    watchdogHandle,    \* stopSelfProtection: null, or stops an armed one or not
    killed,            \* agent.killed
    killSwitchActive,  \* heartbeat.killSwitchActive
    beats,             \* the heartbeats in flight
    shutdown           \* how far the last call of stop() is

timers == <<heartbeatTimer, bufferTimer, discoveryTimer>>
prune == <<pruners, pruneHandle>>
watchdog == <<watchdogs, watchdogHandle>>
control == <<killed, killSwitchActive>>
vars == <<starts, initialized, timers, prune, watchdog, control, beats, shutdown>>

-----------------------------------------------------------------------------
(* Self-protection                                                         *)

(* startSelfProtection(): a new interval, whose stop function replaces the *)
(* handle.                                                                 *)
StartWatchdog ==
    /\ watchdogs' = watchdogs + 1
    /\ watchdogHandle' = "armed"

(* stopSelfProtection?.(): clears the interval it belongs to.              *)
WatchdogsAfterStop == IF watchdogHandle = "armed" THEN watchdogs - 1 ELSE watchdogs

-----------------------------------------------------------------------------
(* The agent                                                               *)

(* A heartbeat is sent.                                                    *)
SendBeat == \E b \in Beats :
    /\ beats[b] = "idle"
    /\ beats' = [beats EXCEPT ![b] = "sent"]

(* start(): the function given to withInitTimeout runs at once.  The       *)
(* heartbeat is only started when it is not running; the prune interval    *)
(* and the watchdog always are.                                            *)
Start ==
    /\ starts < MaxStarts
    /\ starts' = starts + 1
    /\ initialized' = "pending"
    /\ IF selfProtect THEN StartWatchdog ELSE UNCHANGED watchdog
    /\ heartbeatTimer' = TRUE
    /\ IF heartbeatTimer THEN UNCHANGED beats ELSE SendBeat
    /\ pruners' = pruners + 1
    /\ pruneHandle' = TRUE
    /\ UNCHANGED <<bufferTimer, discoveryTimer, control, shutdown>>

(* withInitTimeout's race.  The function awaits nothing and swallows its   *)
(* errors, so it has won before the timeout can fire: the branch that      *)
(* reports upgrade_failed and tries dist-previous/ is not reachable.       *)
InitSettles ==
    /\ initialized = "pending"
    /\ initialized' = "yes"
    /\ UNCHANGED <<starts, timers, prune, watchdog, control, beats, shutdown>>

(* stop(), up to its first await.                                          *)
Stop ==
    /\ shutdown \in {"no", "done"}
    /\ heartbeatTimer' = FALSE
    /\ watchdogs' = WatchdogsAfterStop
    /\ watchdogHandle' = IF watchdogHandle = "armed" THEN "cleared"
                                                     ELSE watchdogHandle
    /\ pruners' = IF pruneHandle THEN pruners - 1 ELSE pruners
    /\ pruneHandle' = FALSE
    /\ bufferTimer' = FALSE
    /\ shutdown' = "events"
    /\ UNCHANGED <<starts, initialized, discoveryTimer, control, beats>>

(* The final flush of events has settled: that of discovery begins.        *)
StopDiscovery ==
    /\ shutdown = "events"
    /\ discoveryTimer' = FALSE
    /\ shutdown' = "discovery"
    /\ UNCHANGED <<starts, initialized, heartbeatTimer, bufferTimer, prune,
                   watchdog, control, beats>>

(* That has settled, too: the audit log is closed and stop() returns.      *)
StopReturns ==
    /\ shutdown = "discovery"
    /\ shutdown' = "done"
    /\ UNCHANGED <<starts, initialized, timers, prune, watchdog, control, beats>>

(* As HandleKillSwitch, keeping the handle of the cleared interval.        *)
HandleKillSwitchKeepingHandle ==
    /\ killed' = TRUE
    /\ watchdogs' = WatchdogsAfterStop
    /\ watchdogHandle' = IF watchdogHandle = "armed" THEN "cleared"
                                                     ELSE watchdogHandle

(* As HandleKillSwitch, forgetting the handle without using it.            *)
HandleKillSwitchForgettingHandle ==
    /\ killed' = TRUE
    /\ watchdogHandle' = "null"
    /\ UNCHANGED watchdogs

(* handleKillSwitch()                                                      *)
HandleKillSwitch ==
    /\ killed' = TRUE
    /\ watchdogs' = WatchdogsAfterStop
    /\ watchdogHandle' = "null"

(* handleRecover(): the watchdog is started again if there is no handle.   *)
HandleRecover ==
    /\ killed' = FALSE
    /\ IF selfProtect /\ watchdogHandle = "null"
       THEN StartWatchdog ELSE UNCHANGED watchdog

(* A heartbeat answer, as far as the kill switch is concerned.             *)
HandleAnswer(b, killSwitch) ==
    /\ beats[b] = "answered"
    /\ beats' = [beats EXCEPT ![b] = "idle"]
    /\ killSwitchActive' = killSwitch
    /\ \/ killSwitch /\ ~killSwitchActive /\ HandleKillSwitch
       \/ ~killSwitch /\ killSwitchActive /\ HandleRecover
       \/ killSwitch = killSwitchActive /\ UNCHANGED <<killed, watchdog>>
    /\ UNCHANGED <<starts, initialized, timers, prune, shutdown>>

(* The interval of the heartbeat fires.                                    *)
Tick ==
    /\ heartbeatTimer
    /\ SendBeat
    /\ UNCHANGED <<starts, initialized, timers, prune, watchdog, control, shutdown>>

(* The collector answers, or the heartbeat fails.                          *)
Answer(b) ==
    /\ beats[b] = "sent"
    /\ beats' = [beats EXCEPT ![b] = "answered"]
    /\ UNCHANGED <<starts, initialized, timers, prune, watchdog, control, shutdown>>

Fail(b) ==
    /\ beats[b] = "sent"
    /\ beats' = [beats EXCEPT ![b] = "idle"]
    /\ UNCHANGED <<starts, initialized, timers, prune, watchdog, control, shutdown>>

-----------------------------------------------------------------------------

(* After the constructor, which arms the buffers' timers.                  *)
Init ==
    /\ starts = 0
    /\ initialized = "none"
    /\ heartbeatTimer = FALSE
    /\ bufferTimer = TRUE
    /\ discoveryTimer = TRUE
    /\ pruners = 0
    /\ pruneHandle = FALSE
    /\ watchdogs = 0
    /\ watchdogHandle = "null"
    /\ killed = FALSE
    /\ killSwitchActive = FALSE
    /\ beats = [b \in Beats |-> "idle"]
    /\ shutdown = "no"

Next ==
    \/ Start \/ InitSettles \/ Stop \/ StopDiscovery \/ StopReturns \/ Tick
    \/ \E b \in Beats :
         \/ Answer(b) \/ Fail(b)
         \/ \E killSwitch \in BOOLEAN : HandleAnswer(b, killSwitch)

Spec == Init /\ [][Next]_vars

(* Promises that have settled run their callbacks, an armed heartbeat      *)
(* fires, and every heartbeat is answered or fails.                        *)
Fairness ==
    /\ WF_vars(InitSettles)
    /\ WF_vars(Tick)
    /\ \A b \in Beats : WF_vars(Answer(b) \/ Fail(b))

FairSpec == Spec /\ Fairness

-----------------------------------------------------------------------------
(* Properties                                                              *)

TypeOK ==
    /\ starts \in 0 .. MaxStarts
    /\ initialized \in {"none", "pending", "yes", "no"}
    /\ heartbeatTimer \in BOOLEAN
    /\ bufferTimer \in BOOLEAN
    /\ discoveryTimer \in BOOLEAN
    /\ pruners \in Nat
    /\ pruneHandle \in BOOLEAN
    /\ watchdogs \in Nat
    /\ watchdogHandle \in {"null", "armed", "cleared"}
    /\ killed \in BOOLEAN
    /\ killSwitchActive \in BOOLEAN
    /\ beats \in [Beats -> {"idle", "sent", "answered"}]
    /\ shutdown \in {"no", "events", "discovery", "done"}

(* An agent that was started once runs exactly one watchdog while it is    *)
(* alive and none while it is killed, however often and in whatever order  *)
(* the kill switch is set and lifted, and never two.                       *)
WatchdogInStep ==
    starts <= 1 =>
        /\ watchdogs <= 1
        /\ killed => watchdogs = 0
        /\ (starts = 1 /\ shutdown = "no" /\ selfProtect /\ ~killed) =>
             watchdogs = 1

(* No interval is out of the agent's reach: every armed watchdog and prune *)
(* interval of an agent that was started once can still be cleared through *)
(* its handle.                                                             *)
NothingOutOfReach ==
    starts <= 1 =>
        /\ watchdogs > 0 => watchdogHandle = "armed"
        /\ pruners > 0 => pruneHandle
        /\ pruners <= 1

(* Three claims that the code does not keep.  agent.ts, start():           *)
(* "Idempotent."  A call while the heartbeat is running starts nothing.    *)
StartIsIdempotent ==
    [][starts' > starts /\ heartbeatTimer => UNCHANGED <<watchdogs, pruners>>]_vars

(* agent.ts, start(): "if ... the control plane is unreachable, emit       *)
(* upgrade_failed": an agent that never gets an answer notices.            *)
UnreachableIsNoticed ==
    (<>(starts > 0) /\ [](\A b \in Beats : beats[b] # "answered"))
        => <>(initialized = "no")

(* test-lab/stress/crash.test.ts: "After stop, killed=true -> inspect      *)
(* returns null".                                                          *)
StoppedIsKilled == shutdown = "done" => killed
=============================================================================
