--------------------------- MODULE SelfProtection ---------------------------
(***************************************************************************)
(* The life cycle of the agent together with what it protects: start()     *)
(* installs the database hooks, and the self-protection watchdog           *)
(* (self-protect.ts) verifies them, at once when it is started and each    *)
(* time its interval fires, while others in the process are free to change *)
(* the hooked methods.                                                     *)
(*                                                                         *)
(* The watchdog's check for a debugger only reads the process' state and   *)
(* is left out.                                                            *)
(***************************************************************************)
EXTENDS Lifecycle, Sequences

CONSTANTS
    instrumentDb,   \* cfg.instrumentDb
    Drivers, Methods, MethodsOf, MaxAssignments   \* DbHooks'

ASSUME InstrumentDbAssumption == instrumentDb \in BOOLEAN
ASSUME MethodsOfAssumption == MethodsOf \in [Drivers -> Seq(Methods)]
ASSUME MaxAssignmentsAssumption == MaxAssignments \in Nat

VARIABLES
    stack, frozen, done, registry, disturbed, assignments,   \* DbHooks'
    warned   \* the hooks in the last warning, none if the last check gave none

Hooks == INSTANCE DbHooks

hookVars == <<stack, frozen, done, registry, disturbed, assignments>>
protectionVars == <<vars, hookVars, warned>>

-----------------------------------------------------------------------------
(* The watchdog                                                            *)

(* A tick, which sees the hooks as they are now.                           *)
Check == warned' = IF instrumentDb THEN Hooks!Tampered' ELSE {}

(* The immediate tick of startSelfProtection().                            *)
CheckIfStarted == IF watchdogs' > watchdogs THEN Check ELSE UNCHANGED warned

(* The interval of a watchdog fires.                                       *)
WatchdogTick ==
    /\ watchdogs > 0
    /\ UNCHANGED <<vars, hookVars>>
    /\ Check

-----------------------------------------------------------------------------
(* The agent                                                               *)

(* start(): the drivers are instrumented before the watchdog is started.   *)
ProtectedStart ==
    /\ Start
    /\ IF instrumentDb THEN Hooks!Instrument ELSE UNCHANGED hookVars
    /\ CheckIfStarted

(* An answer: the watchdog may be started again.                           *)
ProtectedAnswer == \E b \in Beats, killSwitch \in BOOLEAN :
    /\ HandleAnswer(b, killSwitch)
    /\ UNCHANGED hookVars
    /\ CheckIfStarted

(* The agent's other steps.                                                *)
ProtectedStep ==
    /\ \/ InitSettles \/ Stop \/ StopDiscovery \/ StopReturns \/ Tick
       \/ \E b \in Beats : Answer(b) \/ Fail(b)
    /\ UNCHANGED <<hookVars, warned>>

(* Others change the hooked methods.                                       *)
Interfere == Hooks!Interference /\ UNCHANGED <<vars, warned>>

-----------------------------------------------------------------------------

SelfProtectionInit == Init /\ Hooks!Init /\ warned = {}

SelfProtectionNext ==
    \/ ProtectedStart
    \/ ProtectedAnswer
    \/ ProtectedStep
    \/ WatchdogTick
    \/ Interfere

SelfProtectionSpec == SelfProtectionInit /\ [][SelfProtectionNext]_protectionVars

(* An armed interval fires.                                                *)
FairSelfProtectionSpec == SelfProtectionSpec /\ WF_protectionVars(WatchdogTick)

-----------------------------------------------------------------------------
(* Properties                                                              *)

(* Nobody is accused without a reason: a warning names only methods that   *)
(* somebody else has assigned to since the agent hooked them, whatever     *)
(* state the drivers were in when the agent found them.                    *)
NoFalseAlarm == warned \subseteq disturbed

(* No method records a query twice, however often the agent is started.    *)
RecordedOnce == Hooks!RecordedOnce

(* A hook that is gone is noticed: while a watchdog is running, a method   *)
(* whose wrapper is no longer part of it ends up in a warning, also when   *)
(* another copy of the package has marked it in the meantime.              *)
TamperNoticed == \A m \in Methods :
    (Hooks!Lost(m) /\ watchdogs > 0) ~> (m \in warned \/ watchdogs = 0)

(* A claim that the code does not keep.  instrument.ts, about              *)
(* instrumentDatabaseDrivers(): "Instrument all detectable database        *)
(* drivers. Safe to call multiple times."  A driver that appears between   *)
(* two calls is not instrumented by the second, and a method behind one    *)
(* that cannot be assigned to is not by the first.                         *)
StartInstruments ==
    [][ProtectedStart /\ instrumentDb =>
         \A m \in Methods \ frozen : Hooks!Patchable(m) => m \in registry']_protectionVars
=============================================================================
