-------------------------- MODULE Heartbeat_proofs --------------------------
(***************************************************************************)
(* Proofs about Heartbeat, for every number of overlapping beats and every *)
(* set of answers the collector may give.                                  *)
(***************************************************************************)
EXTENDS Heartbeat, TLAPS

(* The inductive invariant: the checked invariants are inductive together. *)
IInv ==
    /\ TypeOK
    /\ KillSwitchInStep
    /\ TargetInStep
    /\ UpgradeReportedAtMostOnce

-----------------------------------------------------------------------------

(* The initial state satisfies the inductive invariant.                    *)
LEMMA InitIInv == Init => IInv
<1> SUFFICES ASSUME Init PROVE IInv
  OBVIOUS
<1>1. beats \in [Slots -> BeatShape]
  BY DEF Init, BeatShape, IdleBeat
<1>2. reported \in [Upgrades -> 0 .. 2]
  BY DEF Init
<1>3. TypeOK
  BY <1>1, <1>2 DEF Init, TypeOK
<1>4. KillSwitchInStep /\ TargetInStep
  BY DEF Init, KillSwitchInStep, TargetInStep, OrNull
<1>5. UpgradeReportedAtMostOnce
  BY NullAssumption DEF Init, UpgradeReportedAtMostOnce, IdleBeat
<1>6. QED
  BY <1>3, <1>4, <1>5 DEF IInv

(* What sending does: the pending status moves into one idle beat.         *)
LEMMA SendIInv ==
    ASSUME IInv, NEW s \in Slots, Send(s), timer' \in BOOLEAN,
           UNCHANGED <<killSwitchActive, lastPolicyVersion, lastMode,
                       lastTargetVersion, agentVars, collectorVars>>
    PROVE  IInv'
<1>1. TypeOK'
  <2>1. NoAnswer \in Responses \cup {NoAnswer}
    OBVIOUS
  <2>2. beats' \in [Slots -> BeatShape]
    BY <2>1 DEF IInv, TypeOK, Send, BeatShape
  <2>3. pendingUpgrade' = Undefined
    BY DEF Send
  <2>4. QED
    BY <2>2, <2>3 DEF IInv, TypeOK, agentVars, collectorVars
<1>2. KillSwitchInStep' /\ TargetInStep'
  BY DEF IInv, KillSwitchInStep, TargetInStep, agentVars
<1>3. UpgradeReportedAtMostOnce'
  BY NullAssumption
     DEF IInv, TypeOK, UpgradeReportedAtMostOnce, Send, collectorVars, BeatShape
<1>4. QED
  BY <1>1, <1>2, <1>3 DEF IInv

(* Recording a status moves it from unsent to pending.                     *)
LEMMA SetUpgradeStatusIInv ==
    ASSUME IInv, NEW u \in Upgrades, SetUpgradeStatus(u)
    PROVE  IInv'
<1>1. TypeOK'
  BY DEF IInv, TypeOK, SetUpgradeStatus, agentVars
<1>2. KillSwitchInStep' /\ TargetInStep'
  BY DEF IInv, KillSwitchInStep, TargetInStep, SetUpgradeStatus, agentVars
<1>3. UpgradeReportedAtMostOnce'
  <2>1. /\ u \in unsentUpgrades
        /\ unsentUpgrades' = unsentUpgrades \ {u}
        /\ pendingUpgrade' = u
        /\ UNCHANGED <<reported, beats>>
    BY DEF SetUpgradeStatus
  <2>2. \A v \in Upgrades : v \in unsentUpgrades' => v # u /\ v \in unsentUpgrades
    BY <2>1
  <2>3. QED
    BY <2>1, <2>2 DEF IInv, UpgradeReportedAtMostOnce
<1>4. QED
  BY <1>1, <1>2, <1>3 DEF IInv

(* Handling an answer: the edge detectors and what they drive move in step.*)
LEMMA HandleAnswerIInv ==
    ASSUME IInv, NEW s \in Slots, HandleAnswer(s)
    PROVE  IInv'
<1> DEFINE r == beats[s].answer
<1>1. r \in ResponseShape
  <2>1. r \in Responses \cup {NoAnswer}
    BY DEF IInv, TypeOK, BeatShape
  <2>2. NoAnswer \in ResponseShape
    BY DEF NoAnswer, ResponseShape
  <2>3. QED
    BY <2>1, <2>2, ResponsesAssumption
<1>2. UNCHANGED <<timer, pendingUpgrade, server, unsentUpgrades, reported>>
  BY DEF HandleAnswer, collectorVars
<1>3. beats' = [beats EXCEPT ![s] = IdleBeat]
  BY DEF HandleAnswer
<1>4. ObeyKillSwitch(r) /\ RememberPolicy(r) /\ RememberMode(r)
        /\ ObeyTargetVersion(r)
  BY DEF HandleAnswer
<1> HIDE DEF r
<1>5. KillSwitchInStep' /\ killSwitchActive' \in BOOLEAN
  BY <1>1, <1>4 DEF IInv, TypeOK, KillSwitchInStep, ObeyKillSwitch, ResponseShape
<1>6. /\ TargetInStep'
      /\ lastTargetVersion' \in Versions \cup {Null, Undefined}
      /\ targetVersion' \in Versions \cup {Null}
      /\ upgradePending' \in BOOLEAN
  <2>1. CASE r.targetVersion = lastTargetVersion
    BY <2>1, <1>4 DEF IInv, TypeOK, TargetInStep, ObeyTargetVersion
  <2>2. CASE r.targetVersion # lastTargetVersion
    <3> DEFINE target == OrNull(r.targetVersion)
    <3>1. /\ lastTargetVersion' = target
          /\ targetVersion' = target
          /\ upgradePending' = (/\ r.upgradeAvailable
                                /\ target \notin {Null, AgentVersion})
      BY <2>2, <1>4 DEF ObeyTargetVersion
    <3>2. target \in Versions \cup {Null} /\ OrNull(target) = target
      BY <1>1, NullAssumption DEF OrNull, ResponseShape
    <3> HIDE DEF target
    <3>3. upgradePending' \in BOOLEAN
      BY <3>1
    <3>4. TargetInStep'
      BY <3>1, <3>2 DEF TargetInStep, OrNull
    <3>5. QED
      BY <3>1, <3>2, <3>3, <3>4
  <2>3. QED
    BY <2>1, <2>2
<1>7. /\ lastPolicyVersion' \in PolicyVersions \cup {Undefined}
      /\ lastMode' \in Modes \cup {Undefined}
  BY <1>1, <1>4 DEF IInv, TypeOK, RememberPolicy, RememberMode,
                    AnnouncesPolicy, AnnouncesMode, ResponseShape
<1>8. beats' \in [Slots -> BeatShape]
  BY <1>3 DEF IInv, TypeOK, BeatShape, IdleBeat
<1>9. TypeOK'
  BY <1>2, <1>5, <1>6, <1>7, <1>8 DEF IInv, TypeOK, KillSwitchInStep
<1>10. UpgradeReportedAtMostOnce'
  BY <1>2, <1>3, NullAssumption
     DEF IInv, TypeOK, UpgradeReportedAtMostOnce, IdleBeat
<1>11. QED
  BY <1>5, <1>6, <1>9, <1>10 DEF IInv

(* A beat that fails takes what it carried with it.                        *)
LEMMA BeatFailsIInv ==
    ASSUME IInv, NEW s \in Slots, BeatFails(s)
    PROVE  IInv'
<1>1. UNCHANGED <<schedulerVars, agentVars, collectorVars>>
        /\ beats' = [beats EXCEPT ![s] = IdleBeat]
  BY DEF BeatFails
<1>2. TypeOK'
  BY <1>1 DEF IInv, TypeOK, schedulerVars, agentVars, collectorVars,
              BeatShape, IdleBeat
<1>3. KillSwitchInStep' /\ TargetInStep'
  BY <1>1 DEF IInv, KillSwitchInStep, TargetInStep, schedulerVars, agentVars
<1>4. UpgradeReportedAtMostOnce'
  BY <1>1, NullAssumption DEF IInv, TypeOK, UpgradeReportedAtMostOnce,
              schedulerVars, collectorVars, IdleBeat
<1>5. QED
  BY <1>2, <1>3, <1>4 DEF IInv

(* The collector counts what the request carries.                          *)
LEMMA AnswerIInv ==
    ASSUME IInv, NEW s \in Slots, Answer(s)
    PROVE  IInv'
<1>1. /\ UNCHANGED <<schedulerVars, agentVars, server, unsentUpgrades>>
      /\ beats[s].phase = "sent"
      /\ beats' = [beats EXCEPT ![s].phase = "answered", ![s].answer = server]
  BY DEF Answer
<1>2. reported' = [u \in Upgrades |-> IF u = beats[s].carries /\ reported[u] < 2
                                      THEN reported[u] + 1 ELSE reported[u]]
  BY DEF Answer
<1>3. TypeOK
  BY DEF IInv
<1>4. TypeOK'
  <2>1. beats' \in [Slots -> BeatShape]
    BY <1>1, <1>3 DEF TypeOK, BeatShape
  <2>2. reported' \in [Upgrades -> 0 .. 2]
    BY <1>2, <1>3 DEF TypeOK
  <2>3. QED
    BY <1>1, <1>3, <2>1, <2>2 DEF TypeOK, schedulerVars, agentVars
<1>5. KillSwitchInStep' /\ TargetInStep'
  BY <1>1 DEF IInv, KillSwitchInStep, TargetInStep, schedulerVars, agentVars
<1>6. UpgradeReportedAtMostOnce'
  <2>1. \A t \in Slots : beats'[t].phase = "sent" =>
          t # s /\ beats'[t] = beats[t]
    BY <1>1, <1>3 DEF TypeOK, BeatShape
  <2>2. \A u \in Upgrades : u # beats[s].carries => reported'[u] = reported[u]
    BY <1>2, <1>3 DEF TypeOK
  <2>3. \A u \in Upgrades : u = beats[s].carries =>
          /\ reported[u] = 0
          /\ reported'[u] = 1
          /\ u \notin unsentUpgrades
          /\ pendingUpgrade # u
          /\ \A t \in Slots : beats[t].phase = "sent" /\ beats[t].carries = u
                                => t = s
    BY <1>1, <1>2 DEF IInv, UpgradeReportedAtMostOnce
  <2>4. UNCHANGED <<unsentUpgrades, pendingUpgrade>>
    BY <1>1 DEF schedulerVars
  <2>5. QED
    BY <2>1, <2>2, <2>3, <2>4 DEF IInv, UpgradeReportedAtMostOnce
<1>7. QED
  BY <1>4, <1>5, <1>6 DEF IInv

(* Every step preserves the inductive invariant.                           *)
LEMMA NextIInv == IInv /\ [Next]_vars => IInv'
<1> SUFFICES ASSUME IInv, [Next]_vars PROVE IInv'
  OBVIOUS
<1> USE DEF IInv, TypeOK, KillSwitchInStep, TargetInStep,
            UpgradeReportedAtMostOnce, agentVars, collectorVars
<1>1. CASE UNCHANGED vars
  BY <1>1 DEF vars, schedulerVars
<1>2. CASE Stop
  BY <1>2 DEF Stop
<1>3. CASE ServerChanges
  BY <1>3 DEF ServerChanges, schedulerVars
<1>4. ASSUME NEW u \in Upgrades, SetUpgradeStatus(u) PROVE IInv'
  BY <1>4, SetUpgradeStatusIInv
<1>5. ASSUME NEW s \in Slots, Start(s) PROVE IInv'
  <2>1. timer' \in BOOLEAN
    BY <1>5 DEF Start
  <2>2. QED
    BY <1>5, <2>1, SendIInv DEF Start
<1>6. ASSUME NEW s \in Slots, Tick(s) PROVE IInv'
  <2>1. timer' \in BOOLEAN
    BY <1>6 DEF Tick
  <2>2. QED
    BY <1>6, <2>1, SendIInv DEF Tick
<1>7. ASSUME NEW s \in Slots, Answer(s) PROVE IInv'
  BY <1>7, AnswerIInv
<1>8. ASSUME NEW s \in Slots, HandleAnswer(s) PROVE IInv'
  BY <1>8, HandleAnswerIInv
<1>9. ASSUME NEW s \in Slots, BeatFails(s) PROVE IInv'
  BY <1>9, BeatFailsIInv
<1>10. QED
  BY <1>1, <1>2, <1>3, <1>4, <1>5, <1>6, <1>7, <1>8, <1>9 DEF Next

(* The inductive invariant holds in every reachable state.                 *)
THEOREM Invariance == Spec => []IInv
BY InitIInv, NextIInv, PTL DEF Spec

-----------------------------------------------------------------------------

(* The state of the heartbeat is well formed.                              *)
THEOREM TypeCorrect == Spec => []TypeOK
<1>1. IInv => TypeOK
  BY DEF IInv
<1>2. QED
  BY <1>1, Invariance, PTL

(* Scheduler and agent never disagree about the kill switch.               *)
THEOREM KillSwitchAgrees == Spec => []KillSwitchInStep
<1>1. IInv => KillSwitchInStep
  BY DEF IInv
<1>2. QED
  BY <1>1, Invariance, PTL

(* Scheduler and agent never disagree about the target version.            *)
THEOREM TargetAgrees == Spec => []TargetInStep
<1>1. IInv => TargetInStep
  BY DEF IInv
<1>2. QED
  BY <1>1, Invariance, PTL

(* No upgrade status is ever reported twice.                               *)
THEOREM UpgradeOnce == Spec => []UpgradeReportedAtMostOnce
<1>1. IInv => UpgradeReportedAtMostOnce
  BY DEF IInv
<1>2. QED
  BY <1>1, Invariance, PTL

-----------------------------------------------------------------------------

(* The scheduler detects edges and the agent obeys levels: an answer that  *)
(* is handled leaves the agent as it says, in whatever order answers are   *)
(* handled, and nothing else kills or revives the agent or moves its       *)
(* target.  Of KillSwitchSettles and TargetSettles this is the part that   *)
(* does not depend on fairness.                                            *)
AnswersRule ==
    [][/\ \A s \in Slots : HandleAnswer(s) =>
            /\ killed' = beats[s].answer.killSwitch
            /\ targetVersion' = OrNull(beats[s].answer.targetVersion)
       /\ (\A s \in Slots : ~HandleAnswer(s)) =>
            UNCHANGED <<killed, targetVersion>>]_vars

(* So one answer that comes through is enough for its directives.          *)
THEOREM AnswersAreObeyed == Spec => AnswersRule
<1>1. ASSUME IInv, NEW s \in Slots, HandleAnswer(s)
      PROVE  /\ killed' = beats[s].answer.killSwitch
             /\ targetVersion' = OrNull(beats[s].answer.targetVersion)
  <2> DEFINE r == beats[s].answer
  <2>1. r \in ResponseShape
    <3>1. r \in Responses \cup {NoAnswer}
      BY <1>1 DEF IInv, TypeOK, BeatShape
    <3>2. NoAnswer \in ResponseShape
      BY DEF NoAnswer, ResponseShape
    <3>3. QED
      BY <3>1, <3>2, ResponsesAssumption
  <2>2. ObeyKillSwitch(r) /\ ObeyTargetVersion(r)
    BY <1>1 DEF HandleAnswer
  <2> HIDE DEF r
  <2>3. killed' = r.killSwitch
    <3>1. r.killSwitch \in BOOLEAN /\ killed \in BOOLEAN /\ killed = killSwitchActive
      BY <1>1, <2>1 DEF IInv, TypeOK, KillSwitchInStep, ResponseShape
    <3>2. killed' = IF r.killSwitch # killSwitchActive THEN r.killSwitch ELSE killed
      BY <2>2 DEF ObeyKillSwitch
    <3>3. QED
      BY <3>1, <3>2
  <2>4. targetVersion' = OrNull(r.targetVersion)
    <3>1. CASE r.targetVersion = lastTargetVersion
      BY <1>1, <2>2, <3>1 DEF ObeyTargetVersion, IInv, TargetInStep
    <3>2. CASE r.targetVersion # lastTargetVersion
      BY <2>2, <3>2 DEF ObeyTargetVersion
    <3>3. QED
      BY <3>1, <3>2
  <2>5. QED
    BY <2>3, <2>4 DEF r
<1>2. ASSUME [Next]_vars, \A s \in Slots : ~HandleAnswer(s)
      PROVE  UNCHANGED <<killed, targetVersion>>
  <2>1. CASE UNCHANGED vars
    BY <2>1 DEF vars, agentVars
  <2>2. CASE Stop \/ ServerChanges \/ \E u \in Upgrades : SetUpgradeStatus(u)
    BY <2>2 DEF Stop, ServerChanges, SetUpgradeStatus, agentVars
  <2>3. ASSUME NEW s \in Slots, Start(s) \/ Tick(s) \/ Answer(s) \/ BeatFails(s)
        PROVE  UNCHANGED <<killed, targetVersion>>
    BY <2>3 DEF Start, Tick, Answer, BeatFails, agentVars
  <2>4. QED
    BY <1>2, <2>1, <2>2, <2>3 DEF Next
<1>3. IInv /\ [Next]_vars =>
        [/\ \A s \in Slots : HandleAnswer(s) =>
              /\ killed' = beats[s].answer.killSwitch
              /\ targetVersion' = OrNull(beats[s].answer.targetVersion)
         /\ (\A s \in Slots : ~HandleAnswer(s)) =>
              UNCHANGED <<killed, targetVersion>>]_vars
  BY <1>1, <1>2
<1>4. QED
  BY <1>3, Invariance, PTL DEF Spec, AnswersRule
=============================================================================
