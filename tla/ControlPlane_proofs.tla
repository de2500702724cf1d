------------------------- MODULE ControlPlane_proofs -------------------------
(***************************************************************************)
(* Proofs about ControlPlane: the agent implements both of the             *)
(* specifications it is composed of, so the theorems of Heartbeat_proofs   *)
(* and PolicyDistribution_proofs hold of it, and an agent without a trust  *)
(* anchor runs in the mode it was last told.                               *)
(***************************************************************************)
EXTENDS ControlPlane, TLAPS

(* Without a trust anchor only the mode is ever configured.                *)
UntrustedConfig ==
    ~trusted => config \in [mode : HB!Modes, rules : {NoPolicy},
                            redaction : {NoPolicy}, residency : {NoPolicy}]

(* The inductive invariant: what an answer on its way back can say, and    *)
(* what the mode of an agent without a trust anchor follows.               *)
IInv ==
    /\ trusted \in BOOLEAN
    /\ killed \in BOOLEAN
    /\ server \in Responses
    /\ beats \in [Beats -> HB!BeatShape]
    /\ pendingUpgrade \in Upgrades \cup {Undefined}
    /\ lastMode \in HB!Modes \cup {Undefined}
    /\ UntrustedConfig
    /\ HintFollowed

-----------------------------------------------------------------------------

(* The initial state satisfies the inductive invariant.                    *)
LEMMA InitIInv == ASSUME Init PROVE IInv
<1>1. beats \in [Beats -> HB!BeatShape]
  BY DEF Init, HB!Init, HB!BeatShape, HB!IdleBeat
<1>2. config = [mode |-> BootMode, rules |-> NoPolicy,
                redaction |-> NoPolicy, residency |-> NoPolicy]
  BY DEF Init, PD!Init, PD!BootConfig
<1>3. UntrustedConfig
  BY <1>2, BootAssumption DEF UntrustedConfig
<1>4. HintFollowed
  BY <1>2 DEF Init, HB!Init, HintFollowed
<1>5. /\ trusted \in BOOLEAN
      /\ killed = FALSE
      /\ server \in Responses
      /\ pendingUpgrade = Undefined
      /\ lastMode = Undefined
  BY DEF Init, HB!Init, PD!Init
<1>6. QED
  BY <1>1, <1>3, <1>4, <1>5 DEF IInv

(* What an answer says is well formed.                                     *)
LEMMA AnswerType ==
    ASSUME IInv, NEW b \in Beats
    PROVE  /\ beats[b].answer.killSwitch \in BOOLEAN
           /\ beats[b].answer.mode \in HB!Modes \cup {Undefined}
<1>1. beats[b].answer \in Responses \cup {HB!NoAnswer}
  BY DEF IInv, HB!BeatShape
<1>2. HB!NoAnswer \in HB!ResponseShape
  BY DEF HB!NoAnswer, HB!ResponseShape
<1>3. beats[b].answer \in HB!ResponseShape
  BY <1>1, <1>2, ResponsesAssumption
<1>4. QED
  BY <1>3 DEF HB!ResponseShape

(* Handling an answer preserves the invariant: scheduler and agent move to *)
(* the answer's mode together.                                             *)
LEMMA HandleAnswerIInv ==
    ASSUME IInv, NEW b \in Beats, HandleAnswer(b)
    PROVE  IInv'
<1> DEFINE r == beats[b].answer
           hint == IF HB!AnnouncesMode(r) THEN r.mode ELSE "absent"
<1>1. r.killSwitch \in BOOLEAN /\ r.mode \in HB!Modes \cup {Undefined}
  BY AnswerType
<1>2. /\ HB!ObeyKillSwitch(r)
      /\ HB!RememberMode(r)
      /\ beats' = [beats EXCEPT ![b] = HB!IdleBeat]
      /\ UNCHANGED <<server, pendingUpgrade>>
  BY DEF HandleAnswer, HB!HandleAnswer, HB!collectorVars
<1>3. /\ trusted' = trusted
      /\ IF hint \in PD!Modes THEN PD!FollowHint(hint) ELSE config' = config
  BY DEF HandleAnswer, PD!HandleDirectives
<1> HIDE DEF r
<1>4. killed' \in BOOLEAN
  BY <1>1, <1>2 DEF IInv, HB!ObeyKillSwitch
<1>5. beats' \in [Beats -> HB!BeatShape]
  BY <1>2 DEF IInv, HB!BeatShape, HB!IdleBeat
<1>6. /\ lastMode' \in HB!Modes \cup {Undefined}
      /\ UntrustedConfig'
      /\ HintFollowed'
  <2>1. CASE HB!AnnouncesMode(r)
    <3>1. r.mode \in HB!Modes /\ lastMode' = r.mode /\ hint = r.mode
      BY <2>1, <1>1, <1>2 DEF HB!AnnouncesMode, HB!RememberMode
    <3>2. ~trusted => config' = [config EXCEPT !.mode = r.mode]
      BY <3>1, <1>3 DEF PD!FollowHint, PD!Modes, HB!Modes
    <3>3. QED
      BY <3>1, <3>2, <1>3, UndefinedAssumption
         DEF IInv, UntrustedConfig, HintFollowed
  <2>2. CASE ~HB!AnnouncesMode(r)
    <3>1. lastMode' = lastMode /\ config' = config
      BY <2>2, <1>2, <1>3 DEF HB!RememberMode, PD!Modes
    <3>2. QED
      BY <3>1, <1>3 DEF IInv, UntrustedConfig, HintFollowed
  <2>3. QED
    BY <2>1, <2>2
<1>7. QED
  BY <1>2, <1>3, <1>4, <1>5, <1>6 DEF IInv

(* The heartbeat's other steps preserve the invariant.                     *)
LEMMA HeartbeatStepIInv ==
    ASSUME IInv, HeartbeatStep
    PROVE  IInv'
<1>1. /\ UNCHANGED policyVars
      /\ UNCHANGED <<killed, lastMode>>
      /\ server' \in Responses
  <2>1. CASE PublishesForward
    BY <2>1 DEF HeartbeatStep, PublishesForward, HB!ServerChanges,
                HB!schedulerVars, HB!agentVars
  <2>2. CASE HB!Stop
    BY <2>2 DEF HeartbeatStep, HB!Stop, HB!agentVars, HB!collectorVars, IInv
  <2>3. ASSUME NEW u \in Upgrades, HB!SetUpgradeStatus(u)
        PROVE  UNCHANGED <<killed, lastMode, server>>
    BY <2>3 DEF HB!SetUpgradeStatus, HB!agentVars
  <2>4. ASSUME NEW b \in Beats,
               HB!Start(b) \/ HB!Tick(b) \/ HB!Answer(b) \/ HB!BeatFails(b)
        PROVE  UNCHANGED <<killed, lastMode, server>>
    BY <2>4 DEF HB!Start, HB!Tick, HB!Answer, HB!BeatFails,
                HB!schedulerVars, HB!agentVars, HB!collectorVars
  <2>5. QED
    BY <2>1, <2>2, <2>3, <2>4 DEF HeartbeatStep, IInv
<1>2. beats' \in [Beats -> HB!BeatShape]
  <2>1. CASE UNCHANGED beats
    BY <2>1 DEF IInv
  <2>2. ASSUME NEW b \in Beats, HB!Start(b) \/ HB!Tick(b)
        PROVE  beats' \in [Beats -> HB!BeatShape]
    <3>1. HB!Send(b) /\ HB!NoAnswer \in Responses \cup {HB!NoAnswer}
      BY <2>2 DEF HB!Start, HB!Tick
    <3>2. QED
      BY <3>1 DEF IInv, HB!Send, HB!BeatShape
  <2>3. ASSUME NEW b \in Beats, HB!Answer(b)
        PROVE  beats' \in [Beats -> HB!BeatShape]
    BY <2>3 DEF IInv, HB!Answer, HB!BeatShape
  <2>4. ASSUME NEW b \in Beats, HB!BeatFails(b)
        PROVE  beats' \in [Beats -> HB!BeatShape]
    BY <2>4 DEF IInv, HB!BeatFails, HB!BeatShape, HB!IdleBeat
  <2>5. QED
    BY <2>1, <2>2, <2>3, <2>4
       DEF HeartbeatStep, PublishesForward, HB!Stop, HB!ServerChanges,
           HB!SetUpgradeStatus
<1>3. pendingUpgrade' \in Upgrades \cup {Undefined}
  BY DEF HeartbeatStep, PublishesForward, HB!Stop, HB!ServerChanges,
         HB!SetUpgradeStatus, HB!Start, HB!Tick, HB!Send, HB!Answer,
         HB!BeatFails, HB!schedulerVars, IInv
<1>4. QED
  BY <1>1, <1>2, <1>3 DEF IInv, policyVars, UntrustedConfig, HintFollowed

(* Only an agent with a trust anchor takes a policy, so a fetch's callback *)
(* leaves the mode of the others alone.                                    *)
LEMMA HandlePolicyIInv ==
    ASSUME IInv, NEW f \in Fetches, HandlePolicy(f)
    PROVE  IInv'
<1>1. /\ UNCHANGED heartbeatVars
      /\ UNCHANGED <<trusted, killed>>
  BY DEF HandlePolicy, PD!HandleAccepted, PD!HandleRejected
<1>2. trusted \/ config' = config
  BY DEF HandlePolicy, PD!HandleAccepted, PD!HandleRejected, PD!Verdict
<1>3. QED
  BY <1>1, <1>2 DEF IInv, heartbeatVars, UntrustedConfig, HintFollowed

(* Every step preserves the inductive invariant.                           *)
LEMMA NextIInv == IInv /\ [Next]_vars => IInv'
<1> SUFFICES ASSUME IInv, [Next]_vars PROVE IInv'
  OBVIOUS
<1>1. CASE UNCHANGED vars
  BY <1>1 DEF vars, heartbeatVars, policyVars, IInv, UntrustedConfig, HintFollowed
<1>2. CASE HeartbeatStep
  BY <1>2, HeartbeatStepIInv
<1>3. ASSUME NEW b \in Beats, HandleAnswer(b) PROVE IInv'
  BY <1>3, HandleAnswerIInv
<1>4. ASSUME NEW f \in Fetches, AnswerFetch(f) \/ FetchFails(f) PROVE IInv'
  <2>1. UNCHANGED <<heartbeatVars, trusted, killed, config>>
    BY <1>4 DEF AnswerFetch, FetchFails, PD!Answer, PD!FetchFails
  <2>2. QED
    BY <2>1 DEF heartbeatVars, IInv, UntrustedConfig, HintFollowed
<1>5. ASSUME NEW f \in Fetches, HandlePolicy(f) PROVE IInv'
  BY <1>5, HandlePolicyIInv
<1>6. QED
  BY <1>1, <1>2, <1>3, <1>4, <1>5 DEF Next

(* The inductive invariant holds in every reachable state.                 *)
THEOREM Invariance == Spec => []IInv
<1>1. Init => IInv
  BY InitIInv
<1>2. QED
  BY <1>1, NextIInv, PTL DEF Spec

(* An agent without a trust anchor runs in the mode it was last told.      *)
THEOREM FollowsHints == Spec => []HintFollowed
<1>1. IInv => HintFollowed
  BY DEF IInv
<1>2. QED
  BY <1>1, Invariance, PTL

-----------------------------------------------------------------------------

(* The composition implements the heartbeat: every step of the agent is a  *)
(* step of it or leaves it alone.                                          *)
THEOREM ImplementsHeartbeat == Spec => HeartbeatSpec
<1>1. Init => HB!Init
  BY DEF Init
<1>2. [Next]_vars => [HB!Next]_(HB!vars)
  <2> SUFFICES ASSUME [Next]_vars PROVE HB!Next \/ UNCHANGED HB!vars
    OBVIOUS
  <2>1. CASE UNCHANGED vars
    BY <2>1 DEF vars, heartbeatVars, HB!vars, HB!schedulerVars, HB!agentVars,
                HB!collectorVars
  <2>2. CASE HeartbeatStep
    BY <2>2 DEF HeartbeatStep, PublishesForward, HB!Next
  <2>3. ASSUME NEW b \in Beats, HandleAnswer(b) PROVE HB!Next
    BY <2>3 DEF HandleAnswer, HB!Next
  <2>4. ASSUME NEW f \in Fetches,
               AnswerFetch(f) \/ FetchFails(f) \/ HandlePolicy(f)
        PROVE  UNCHANGED HB!vars
    <3>1. UNCHANGED <<heartbeatVars, killed>>
      BY <2>4 DEF AnswerFetch, FetchFails, HandlePolicy, PD!Answer,
                  PD!FetchFails, PD!HandleAccepted, PD!HandleRejected
    <3>2. QED
      BY <3>1 DEF heartbeatVars, HB!vars, HB!schedulerVars, HB!agentVars,
                  HB!collectorVars
  <2>5. QED
    BY <2>1, <2>2, <2>3, <2>4 DEF Next
<1>3. QED
  BY <1>1, <1>2, PTL DEF Spec, HeartbeatSpec, HB!Spec

(* The composition implements policy distribution: what a heartbeat answer *)
(* makes the agent do is what PolicyDistribution allows, and the collector *)
(* answers with a policy that exists.                                      *)
THEOREM ImplementsDistribution == Spec => DistributionSpec
<1>1. Init => PD!Init
  BY DEF Init
<1>2. IInv /\ [Next]_vars => [PD!Next]_(PD!vars)
  <2> SUFFICES ASSUME IInv, [Next]_vars PROVE PD!Next \/ UNCHANGED PD!vars
    OBVIOUS
  <2>1. CASE UNCHANGED vars
    BY <2>1 DEF vars, policyVars, PD!vars
  <2>2. CASE HeartbeatStep
    <3>1. UNCHANGED <<policyVars, killed>>
      BY <2>2 DEF HeartbeatStep, PublishesForward, HB!Stop, HB!ServerChanges,
                  HB!SetUpgradeStatus, HB!Start, HB!Tick, HB!Answer,
                  HB!BeatFails, HB!agentVars
    <3>2. QED
      BY <3>1 DEF policyVars, PD!vars
  <2>3. ASSUME NEW b \in Beats, HandleAnswer(b) PROVE PD!Next
    <3> DEFINE r == beats[b].answer
               kill == killed'
               announced == HB!AnnouncesPolicy(r)
               hint == IF HB!AnnouncesMode(r) THEN r.mode ELSE "absent"
    <3>1. PD!HandleDirectives(kill, announced, hint)
      BY <2>3 DEF HandleAnswer
    <3>2. kill \in BOOLEAN
      BY <2>3, HandleAnswerIInv DEF IInv
    <3>3. announced \in BOOLEAN
      BY DEF HB!AnnouncesPolicy
    <3>4. hint \in PD!Modes \cup {"absent"}
      BY AnswerType DEF HB!AnnouncesMode, PD!Modes, HB!Modes
    <3> HIDE DEF kill, announced, hint
    <3>5. QED
      BY <3>1, <3>2, <3>3, <3>4 DEF PD!Next
  <2>4. ASSUME NEW f \in Fetches,
               AnswerFetch(f) \/ FetchFails(f) \/ HandlePolicy(f)
        PROVE  PD!Next
    <3>1. CASE AnswerFetch(f)
      BY <3>1, PublishedAssumption DEF AnswerFetch, PD!Next
    <3>2. CASE FetchFails(f) \/ HandlePolicy(f)
      BY <3>2 DEF FetchFails, HandlePolicy, PD!Next
    <3>3. QED
      BY <2>4, <3>1, <3>2
  <2>5. QED
    BY <2>1, <2>2, <2>3, <2>4 DEF Next
<1>3. QED
  BY <1>1, <1>2, Invariance, PTL DEF Spec, DistributionSpec, PD!Spec

-----------------------------------------------------------------------------

(* The version that the agent was last told of, 0 when it was told of none.*)
Announced ==
    IF lastPolicyVersion \in PolicyVersions
    THEN Published(lastPolicyVersion).version ELSE 0

(* Fetch f will bring a policy that is at least as new as was announced: a *)
(* request that the collector has not answered yet cannot bring an older.  *)
Brings(f) ==
    \/ fetches[f].phase = "asked"
    \/ fetches[f].phase = "answered" /\ fetches[f].policy.version >= Announced

(* An agent with a trust anchor has a policy that is as new as the one it  *)
(* was last told of, or a fetch that will bring one.                       *)
HeldOrUnderWay ==
    trusted => \/ PD!VersionOf(manager.current) >= Announced
               \/ \E f \in Fetches : Brings(f)

(* There are only two ways to lose an announcement: its fetch fails, or it *)
(* comes while the agent is killed.  Overlapping fetches whose answers are *)
(* handled in any order, late heartbeat answers and mode hints are none.   *)
(* This is the part of PolicySettles that does not depend on fairness, and *)
(* RecoveryIsAutomatic fails by the second of the two.                     *)
AnnouncementsAreKept ==
    [][HeldOrUnderWay =>
         \/ HeldOrUnderWay'
         \/ fetchesFail /\ \E f \in Fetches : FetchFails(f)
         \/ \E b \in Beats : /\ HandleAnswer(b) /\ killed'
                             /\ HB!AnnouncesPolicy(beats[b].answer)]_vars

(* The published policies can be verified and applied.                     *)
PublishedRun ==
    \A v \in PolicyVersions : Published(v).signed /\ PD!Runs(Published(v))

(* What the agent has heard of is not newer than what is published, and    *)
(* it only ever gets what was published.                                   *)
Heard ==
    /\ lastPolicyVersion \in PolicyVersions \cup {Undefined}
    /\ Announced <= VersionAt(server)
    /\ \A b \in Beats : VersionAt(beats[b].answer) <= VersionAt(server)
    /\ manager.current \in Policies \cup {NoPolicy}
    /\ fetches \in [Fetches -> PD!FetchShape]
    /\ \A f \in Fetches : fetches[f].phase = "answered" =>
         fetches[f].policy \in {Published(v) : v \in PolicyVersions}

(* Versions are numbers.                                                   *)
LEMMA VersionsAreNumbers ==
    /\ \A r : VersionAt(r) \in Nat
    /\ Announced \in Nat
    /\ \A v \in PolicyVersions : Published(v).version \in Nat
    /\ \A p \in Policies \cup {NoPolicy} : PD!VersionOf(p) \in Nat
<1>1. \A p \in Policies : p.version \in Nat
  BY PoliciesAssumption DEF PD!PolicyShape
<1>2. \A v \in PolicyVersions : Published(v).version \in Nat
  BY <1>1, PublishedAssumption
<1>3. QED
  BY <1>1, <1>2 DEF VersionAt, Announced, PD!VersionOf

(* Nothing has been heard of at first.                                     *)
LEMMA InitHeard == Init => Heard
<1> SUFFICES ASSUME Init PROVE Heard
  OBVIOUS
<1>1. /\ lastPolicyVersion = Undefined
      /\ manager.current = NoPolicy
      /\ fetches = [f \in Fetches |-> PD!Idle]
      /\ \A b \in Beats : beats[b].answer = HB!NoAnswer
  BY DEF Init, HB!Init, PD!Init, HB!IdleBeat
<1>2. Announced = 0 /\ VersionAt(HB!NoAnswer) = 0
  BY <1>1, UndefinedAssumption DEF Announced, VersionAt, HB!NoAnswer
<1>3. QED
  BY <1>1, <1>2, VersionsAreNumbers DEF Heard, PD!Idle, PD!FetchShape

(* What the heartbeat does besides handling answers leaves what was        *)
(* announced and what is held alone, and a new answer says what is         *)
(* published.                                                              *)
LEMMA HeartbeatStepHeard ==
    ASSUME IInv, Heard, HeartbeatStep
    PROVE  /\ Heard'
           /\ UNCHANGED <<lastPolicyVersion, manager, fetches, trusted>>
<1>1. UNCHANGED policyVars
  BY DEF HeartbeatStep
<1>2. UNCHANGED lastPolicyVersion
  BY DEF HeartbeatStep, PublishesForward, HB!Stop, HB!ServerChanges,
         HB!SetUpgradeStatus, HB!Start, HB!Tick, HB!Answer, HB!BeatFails,
         HB!schedulerVars
<1>3. VersionAt(server) <= VersionAt(server')
  <2>1. PublishesForward \/ server' = server
    BY DEF HeartbeatStep, HB!Stop, HB!SetUpgradeStatus, HB!Start, HB!Tick,
           HB!Answer, HB!BeatFails, HB!collectorVars
  <2>2. QED
    BY <2>1, VersionsAreNumbers DEF PublishesForward
<1>4. ASSUME NEW b \in Beats
      PROVE  VersionAt(beats'[b].answer) <= VersionAt(server')
  <2>1. VersionAt(HB!NoAnswer) = 0
    BY UndefinedAssumption DEF VersionAt, HB!NoAnswer
  <2>2. \/ beats'[b].answer = beats[b].answer
        \/ beats'[b].answer = HB!NoAnswer
        \/ beats'[b].answer = server /\ server' = server
    <3>1. CASE UNCHANGED beats
      BY <3>1
    <3>2. ASSUME NEW c \in Beats, HB!Start(c) \/ HB!Tick(c)
          PROVE  beats'[b].answer \in {beats[b].answer, HB!NoAnswer}
      BY <3>2 DEF HB!Start, HB!Tick, HB!Send, IInv, HB!BeatShape
    <3>3. ASSUME NEW c \in Beats, HB!Answer(c)
          PROVE  \/ beats'[b].answer = beats[b].answer
                 \/ beats'[b].answer = server /\ server' = server
      BY <3>3 DEF HB!Answer, IInv, HB!BeatShape
    <3>4. ASSUME NEW c \in Beats, HB!BeatFails(c)
          PROVE  beats'[b].answer \in {beats[b].answer, HB!NoAnswer}
      BY <3>4 DEF HB!BeatFails, HB!IdleBeat, IInv, HB!BeatShape
    <3>5. QED
      BY <3>1, <3>2, <3>3, <3>4
         DEF HeartbeatStep, PublishesForward, HB!Stop, HB!ServerChanges,
             HB!SetUpgradeStatus
  <2>3. QED
    BY <1>3, <2>1, <2>2, VersionsAreNumbers DEF Heard
<1>5. Announced' = Announced
  BY <1>2 DEF Announced
<1>6. QED
  BY <1>1, <1>2, <1>3, <1>4, <1>5, VersionsAreNumbers DEF Heard, policyVars

(* Handling an answer: what is announced is what the answer says or stays, *)
(* and an agent that is not killed fetches it.                             *)
LEMMA HandleAnswerHeard ==
    ASSUME IInv, Heard, NEW b \in Beats, HandleAnswer(b)
    PROVE  /\ Heard'
           /\ HeldOrUnderWay =>
                HeldOrUnderWay' \/ (killed' /\ HB!AnnouncesPolicy(beats[b].answer))
<1> DEFINE r == beats[b].answer
<1>1. /\ HB!RememberPolicy(r)
      /\ beats' = [beats EXCEPT ![b] = HB!IdleBeat]
      /\ UNCHANGED <<server, manager, trusted>>
      /\ IF HB!AnnouncesPolicy(r) /\ ~killed' /\ trusted
         THEN \E f \in Fetches : PD!BeginFetch(f)
         ELSE UNCHANGED fetches
  BY DEF HandleAnswer, HB!HandleAnswer, PD!HandleDirectives, HB!collectorVars
<1>2. r.policyVersion \in PolicyVersions \cup {Undefined}
  <2>1. r \in Responses \cup {HB!NoAnswer}
    BY DEF IInv, HB!BeatShape
  <2>2. HB!NoAnswer \in HB!ResponseShape
    BY DEF HB!NoAnswer, HB!ResponseShape
  <2>3. QED
    BY <2>1, <2>2, ResponsesAssumption DEF HB!ResponseShape
<1>3. VersionAt(r) <= VersionAt(server)
  BY DEF Heard
<1> HIDE DEF r
<1>4. /\ lastPolicyVersion' \in PolicyVersions \cup {Undefined}
      /\ Announced' <= VersionAt(server)
      /\ ~HB!AnnouncesPolicy(r) => Announced' = Announced
  <2>1. CASE HB!AnnouncesPolicy(r)
    <3>1. lastPolicyVersion' = r.policyVersion /\ Announced' = VersionAt(r)
      BY <1>1, <2>1 DEF HB!RememberPolicy, Announced, VersionAt
    <3>2. QED
      BY <1>2, <1>3, <2>1, <3>1
  <2>2. CASE ~HB!AnnouncesPolicy(r)
    <3>1. lastPolicyVersion' = lastPolicyVersion /\ Announced' = Announced
      BY <1>1, <2>2 DEF HB!RememberPolicy, Announced
    <3>2. QED
      BY <2>2, <3>1 DEF Heard
  <2>3. QED
    BY <2>1, <2>2
<1>5. \A c \in Beats : VersionAt(beats'[c].answer) <= VersionAt(server)
  <2>1. VersionAt(HB!NoAnswer) = 0
    BY UndefinedAssumption DEF VersionAt, HB!NoAnswer
  <2>2. \A c \in Beats : beats'[c].answer \in {beats[c].answer, HB!NoAnswer}
    BY <1>1 DEF HB!IdleBeat, IInv, HB!BeatShape
  <2>3. QED
    BY <2>1, <2>2, VersionsAreNumbers DEF Heard
<1>6. /\ fetches' \in [Fetches -> PD!FetchShape]
      /\ \A f \in Fetches : fetches'[f] = fetches[f] \/ fetches'[f] = PD!Asked
  BY <1>1 DEF PD!BeginFetch, PD!Asked, PD!FetchShape, Heard
<1>7. Heard'
  <2>1. \A f \in Fetches : fetches'[f].phase = "answered" => fetches'[f] = fetches[f]
    BY <1>6 DEF PD!Asked
  <2>2. VersionAt(server)' = VersionAt(server)
    BY <1>1 DEF VersionAt
  <2>3. QED
    BY <1>1, <1>4, <1>5, <1>6, <2>1, <2>2 DEF Heard
<1>8. CASE HB!AnnouncesPolicy(r) /\ ~killed' /\ trusted
  <2>1. PICK f \in Fetches : PD!BeginFetch(f)
    BY <1>1, <1>8
  <2>2. fetches'[f].phase = "asked"
    BY <2>1 DEF PD!BeginFetch, PD!Asked, Heard
  <2>3. QED
    BY <1>7, <2>2 DEF HeldOrUnderWay, Brings
<1>9. CASE ~HB!AnnouncesPolicy(r)
  BY <1>1, <1>4, <1>7, <1>9 DEF HeldOrUnderWay, Brings
<1>10. CASE ~trusted
  BY <1>1, <1>7, <1>10 DEF HeldOrUnderWay
<1>11. QED
  BY <1>7, <1>8, <1>9, <1>10 DEF r

(* The collector's answer to a fetch is as new as anything announced.      *)
LEMMA AnswerFetchHeard ==
    ASSUME Heard, NEW f \in Fetches, AnswerFetch(f)
    PROVE  Heard' /\ HeldOrUnderWay'
<1> DEFINE p == Published(server.policyVersion)
<1>1. /\ p \in Policies
      /\ p \in {Published(v) : v \in PolicyVersions}
      /\ p.version = VersionAt(server)
  BY PublishedAssumption DEF AnswerFetch, VersionAt
<1>2. /\ fetches[f] = PD!Asked
      /\ fetches' = [fetches EXCEPT ![f] = PD!Answered(p)]
      /\ UNCHANGED <<heartbeatVars, manager, trusted>>
  BY DEF AnswerFetch, PD!Answer
<1>3. Announced' = Announced /\ UNCHANGED <<server, beats, lastPolicyVersion>>
  BY <1>2 DEF Announced, heartbeatVars
<1> HIDE DEF p
<1>4. /\ fetches'[f] = [phase |-> "answered", policy |-> p]
      /\ \A g \in Fetches \ {f} : fetches'[g] = fetches[g]
      /\ fetches' \in [Fetches -> PD!FetchShape]
  BY <1>1, <1>2 DEF Heard, PD!Answered, PD!FetchShape
<1>5. Heard'
  BY <1>1, <1>2, <1>3, <1>4 DEF Heard, VersionAt
<1>6. p.version >= Announced
  BY <1>1, VersionsAreNumbers DEF Heard
<1>7. Brings(f)'
  BY <1>3, <1>4, <1>6 DEF Brings
<1>8. QED
  BY <1>5, <1>7 DEF HeldOrUnderWay

(* A fetch fails on its own only when nothing is published, so nothing was *)
(* announced either.                                                       *)
LEMMA FetchFailsHeard ==
    ASSUME Heard, NEW f \in Fetches, FetchFails(f)
    PROVE  Heard' /\ (HeldOrUnderWay => HeldOrUnderWay' \/ fetchesFail)
<1>1. /\ fetches' = [fetches EXCEPT ![f] = PD!Idle]
      /\ UNCHANGED <<heartbeatVars, manager, trusted>>
  BY DEF FetchFails, PD!FetchFails
<1>2. Announced' = Announced /\ UNCHANGED <<server, beats, lastPolicyVersion>>
  BY <1>1 DEF Announced, heartbeatVars
<1>3. /\ fetches' \in [Fetches -> PD!FetchShape]
      /\ \A g \in Fetches : fetches'[g].phase = "answered" => fetches'[g] = fetches[g]
  BY <1>1 DEF Heard, PD!Idle, PD!FetchShape
<1>4. Heard'
  BY <1>1, <1>2, <1>3 DEF Heard, VersionAt
<1>5. CASE server.policyVersion = Undefined
  <2>1. VersionAt(server) = 0
    BY <1>5, UndefinedAssumption DEF VersionAt
  <2>2. PD!VersionOf(manager.current) >= Announced
    BY <2>1, VersionsAreNumbers DEF Heard
  <2>3. QED
    BY <1>1, <1>2, <1>4, <2>2 DEF HeldOrUnderWay
<1>6. QED
  BY <1>4, <1>5 DEF FetchFails

(* A policy that arrives is either taken or older than the one in force,   *)
(* so the version in force does not decrease and reaches what arrived.     *)
LEMMA HandlePolicyHeard ==
    ASSUME PublishedRun, Heard, NEW f \in Fetches, HandlePolicy(f)
    PROVE  Heard' /\ (HeldOrUnderWay => HeldOrUnderWay')
<1> DEFINE p == fetches[f].policy
<1>1. /\ fetches[f].phase = "answered"
      /\ fetches' = [fetches EXCEPT ![f] = PD!Idle]
      /\ UNCHANGED <<heartbeatVars, trusted>>
  BY DEF HandlePolicy, PD!HandleAccepted, PD!HandleRejected
<1>2. Announced' = Announced /\ UNCHANGED <<server, beats, lastPolicyVersion>>
  BY <1>1 DEF Announced, heartbeatVars
<1>3. p \in Policies /\ p.signed /\ PD!Runs(p)
  BY <1>1, PublishedAssumption DEF Heard, PublishedRun
<1>4. \/ PD!Verdict(p) = "applied" /\ PD!Install(p)
      \/ PD!Verdict(p) # "applied" /\ manager' = manager
  BY DEF HandlePolicy, PD!HandleAccepted, PD!HandleRejected
<1> HIDE DEF p
<1>5. manager'.current \in {p, manager.current}
  BY <1>3, <1>4 DEF PD!Install, PD!Accepted
<1>6. ASSUME trusted
      PROVE  /\ PD!VersionOf(manager'.current) >= p.version
             /\ PD!VersionOf(manager'.current) >= PD!VersionOf(manager.current)
  <2>1. /\ p.version \in Nat
        /\ manager.current = NoPolicy \/ manager.current.version \in Nat
    BY <1>3, PoliciesAssumption DEF Heard, PD!PolicyShape
  <2>2. CASE manager.current # NoPolicy /\ p.version < manager.current.version
    <3>1. PD!Verdict(p) = "stale_version"
      BY <1>3, <1>6, <2>2 DEF PD!Verdict
    <3>2. QED
      BY <1>4, <2>1, <2>2, <3>1 DEF PD!VersionOf
  <2>3. CASE ~(manager.current # NoPolicy /\ p.version < manager.current.version)
    <3>1. PD!Verdict(p) = "applied"
      BY <1>3, <1>6, <2>3 DEF PD!Verdict
    <3>2. manager'.current = p
      BY <1>3, <1>4, <3>1 DEF PD!Install, PD!Accepted
    <3>3. QED
      BY <1>3, <2>1, <2>3, <3>2, PoliciesAssumption DEF PD!VersionOf
  <2>4. QED
    BY <2>2, <2>3
<1>7. /\ fetches' \in [Fetches -> PD!FetchShape]
      /\ \A g \in Fetches \ {f} : fetches'[g] = fetches[g]
      /\ \A g \in Fetches : fetches'[g].phase = "answered" => fetches'[g] = fetches[g]
  BY <1>1 DEF Heard, PD!Idle, PD!FetchShape
<1>8. Heard'
  BY <1>1, <1>2, <1>3, <1>5, <1>7 DEF Heard, VersionAt
<1>9. HeldOrUnderWay => HeldOrUnderWay'
  <2> SUFFICES ASSUME trusted, HeldOrUnderWay PROVE HeldOrUnderWay'
    BY <1>1 DEF HeldOrUnderWay
  <2>1. /\ PD!VersionOf(manager.current) \in Nat /\ PD!VersionOf(manager'.current) \in Nat
        /\ p.version \in Nat /\ Announced \in Nat
    BY <1>3, <1>8, VersionsAreNumbers, PoliciesAssumption DEF Heard, PD!PolicyShape
  <2>2. CASE PD!VersionOf(manager.current) >= Announced \/ Brings(f)
    <3>1. p.version >= Announced \/ PD!VersionOf(manager.current) >= Announced
      BY <1>1, <2>2 DEF Brings, p
    <3>2. PD!VersionOf(manager'.current) >= Announced'
      BY <1>2, <1>6, <2>1, <3>1
    <3>3. QED
      BY <3>2 DEF HeldOrUnderWay
  <2>3. ASSUME NEW g \in Fetches \ {f}, Brings(g) PROVE Brings(g)'
    BY <1>2, <1>7, <2>3 DEF Brings
  <2>4. QED
    BY <2>2, <2>3 DEF HeldOrUnderWay
<1>10. QED
  BY <1>8, <1>9

(* Every step preserves what the agent may have heard, and keeps what was  *)
(* announced or loses it in one of the two ways.                           *)
LEMMA NextHeard ==
    ASSUME PublishedRun, IInv, Heard, [Next]_vars
    PROVE  /\ Heard'
           /\ HeldOrUnderWay =>
                \/ HeldOrUnderWay'
                \/ fetchesFail /\ \E f \in Fetches : FetchFails(f)
                \/ \E b \in Beats : /\ HandleAnswer(b) /\ killed'
                                    /\ HB!AnnouncesPolicy(beats[b].answer)
<1>1. CASE UNCHANGED vars
  BY <1>1 DEF vars, heartbeatVars, policyVars, Heard, HeldOrUnderWay, Brings,
              Announced, VersionAt
<1>2. CASE HeartbeatStep
  <2>1. Heard' /\ UNCHANGED <<lastPolicyVersion, manager, fetches, trusted>>
    BY <1>2, HeartbeatStepHeard
  <2>2. HeldOrUnderWay => HeldOrUnderWay'
    BY <2>1 DEF HeldOrUnderWay, Brings, Announced
  <2>3. QED
    BY <2>1, <2>2
<1>3. ASSUME NEW b \in Beats, HandleAnswer(b)
      PROVE  /\ Heard'
             /\ HeldOrUnderWay =>
                  HeldOrUnderWay' \/ (killed' /\ HB!AnnouncesPolicy(beats[b].answer))
  BY <1>3, HandleAnswerHeard
<1>4. ASSUME NEW f \in Fetches, AnswerFetch(f)
      PROVE  Heard' /\ (HeldOrUnderWay => HeldOrUnderWay')
  BY <1>4, AnswerFetchHeard
<1>5. ASSUME NEW f \in Fetches, FetchFails(f)
      PROVE  Heard' /\ (HeldOrUnderWay => HeldOrUnderWay' \/ fetchesFail)
  BY <1>5, FetchFailsHeard
<1>6. ASSUME NEW f \in Fetches, HandlePolicy(f)
      PROVE  Heard' /\ (HeldOrUnderWay => HeldOrUnderWay')
  BY <1>6, HandlePolicyHeard
<1>7. QED
  BY <1>1, <1>2, <1>3, <1>4, <1>5, <1>6 DEF Next

(* Announcements are lost in no other way.                                 *)
THEOREM KeepsAnnouncements ==
    ASSUME PublishedRun
    PROVE  Spec => AnnouncementsAreKept
<1>1. IInv /\ Heard /\ [Next]_vars => Heard'
  BY NextHeard
<1>2. IInv /\ Heard /\ [Next]_vars =>
        [HeldOrUnderWay =>
           \/ HeldOrUnderWay'
           \/ fetchesFail /\ \E f \in Fetches : FetchFails(f)
           \/ \E b \in Beats : /\ HandleAnswer(b) /\ killed'
                               /\ HB!AnnouncesPolicy(beats[b].answer)]_vars
  BY NextHeard
<1>3. Init => Heard
  BY InitHeard
<1>4. QED
  BY <1>1, <1>2, <1>3, Invariance, PTL DEF Spec, AnnouncementsAreKept

(* So an agent that is never killed and whose fetches do not fail has, at  *)
(* any time, a policy as new as it was told of, or one coming.             *)
THEOREM NeverBehindForNothing ==
    ASSUME PublishedRun
    PROVE  Spec /\ []~fetchesFail /\ []~killed => []HeldOrUnderWay
<1>1. Init => HeldOrUnderWay
  <2>1. ASSUME Init PROVE Announced = 0 /\ PD!VersionOf(manager.current) = 0
    BY <2>1, UndefinedAssumption DEF Announced, Init, HB!Init, PD!Init, PD!VersionOf
  <2>2. QED
    BY <2>1 DEF HeldOrUnderWay
<1>2. /\ HeldOrUnderWay /\ ~fetchesFail /\ ~killed'
      /\ [HeldOrUnderWay =>
           \/ HeldOrUnderWay'
           \/ fetchesFail /\ \E f \in Fetches : FetchFails(f)
           \/ \E b \in Beats : /\ HandleAnswer(b) /\ killed'
                               /\ HB!AnnouncesPolicy(beats[b].answer)]_vars
      => HeldOrUnderWay'
  BY DEF HeldOrUnderWay, Brings, Announced, vars, heartbeatVars, policyVars
<1>3. QED
  BY <1>1, <1>2, KeepsAnnouncements, PTL DEF Spec, AnnouncementsAreKept
=============================================================================
