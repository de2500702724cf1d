---------------------- MODULE PolicyDistribution_proofs ----------------------
(***************************************************************************)
(* Proofs about PolicyDistribution, for every set of policies, every       *)
(* number of overlapping fetches and every boot mode.                      *)
(*                                                                         *)
(* The argument rests on one fact about histories: the policy to which a   *)
(* failed application is rolled back was itself applied to the end         *)
(* (PolicyInForceRuns), so applying it again repairs every part of the     *)
(* configuration that the failed one had replaced.                         *)
(***************************************************************************)
EXTENDS PolicyDistribution, TLAPS

(* An agent without a trust anchor never has a policy.  Needed because     *)
(* such an agent follows mode hints, which would otherwise break           *)
(* ConfigIsPolicyInForce.                                                  *)
NoAnchorNoPolicy == ~trusted => manager.current = NoPolicy

(* The inductive invariant.                                                *)
IInv ==
    /\ TypeOK
    /\ NoAnchorNoPolicy
    /\ PolicyInForceRuns
    /\ ConfigIsPolicyInForce

-----------------------------------------------------------------------------

(* accept() takes a policy only for an agent with a trust anchor that      *)
(* signed it, and only if it is not older than the one in force.           *)
LEMMA AppliedVerdict ==
    ASSUME NEW p \in Policies, Verdict(p) = "applied"
    PROVE  /\ trusted
           /\ p.signed
           /\ manager.current # NoPolicy => ~(p.version < manager.current.version)
BY DEF Verdict

(* A rejection always has one of the documented reasons.                   *)
LEMMA RejectedVerdict ==
    ASSUME NEW p \in Policies, Verdict(p) # "applied"
    PROVE  Verdict(p) \in Reasons
BY DEF Verdict, Reasons

(* Applying a policy that runs puts all of it into effect.                 *)
LEMMA AppliedRuns ==
    ASSUME NEW c, NEW p \in Policies, Runs(p)
    PROVE  /\ Applied(c, p).rules = p
           /\ Applied(c, p).redaction = p
           /\ Applied(c, p).residency = p
           /\ p.mode \in Modes => Applied(c, p).mode = p.mode
           /\ p.mode \notin Modes => Applied(c, p).mode = c.mode
BY DEF Applied, Runs

(* Whether or not it runs to its end, applying a policy yields a           *)
(* configuration whose parts are the old ones or the policy's.             *)
LEMMA AppliedType ==
    ASSUME NEW p \in Policies,
           NEW c \in [mode : Modes, rules : Policies \cup {NoPolicy},
                      redaction : Policies \cup {NoPolicy},
                      residency : Policies \cup {NoPolicy}]
    PROVE  /\ Applied(c, p) \in [mode : Modes, rules : Policies \cup {NoPolicy},
                                 redaction : Policies \cup {NoPolicy},
                                 residency : Policies \cup {NoPolicy}]
           /\ Applied(c, p).mode \in {c.mode, p.mode}
           /\ Applied(c, p).rules \in {c.rules, p}
           /\ Applied(c, p).redaction \in {c.redaction, p}
           /\ Applied(c, p).residency \in {c.residency, p}
BY DEF Applied, Modes

(* What Install does to the manager: the new policy, or the old one.       *)
LEMMA InstallManager ==
    ASSUME TypeOK, NEW p \in Policies, Install(p)
    PROVE  /\ Runs(p) => manager' = [current |-> p, previous |-> manager.current]
           /\ ~Runs(p) => manager' = [current |-> manager.current,
                                      previous |-> NoPolicy]
BY DEF Install, Accepted, RolledBack, TypeOK

(* What Install does to the configuration.                                 *)
LEMMA InstallConfig ==
    ASSUME TypeOK, NEW p \in Policies, Install(p)
    PROVE  /\ Runs(p) => config' = Applied(config, p)
           /\ ~Runs(p) /\ manager.current # NoPolicy =>
                config' = Applied(Applied(config, p), manager.current)
           /\ ~Runs(p) /\ manager.current = NoPolicy =>
                config' = Applied(config, p)
BY DEF Install, Accepted, RolledBack, Restored, TypeOK

-----------------------------------------------------------------------------

(* The initial state satisfies the inductive invariant.                    *)
LEMMA InitIInv == Init => IInv
<1> SUFFICES ASSUME Init PROVE IInv
  OBVIOUS
<1>1. TypeOK
  <2>1. reports \in [Keys -> 0 .. ReportCap]
    BY ReportCapAssumption DEF Init
  <2>2. fetches \in [Slots -> FetchShape]
    BY DEF Init, FetchShape, Idle
  <2>3. trusted \in BOOLEAN /\ killed \in BOOLEAN
    BY DEF Init
  <2>4. QED
    BY <2>1, <2>2, <2>3, BootAssumption DEF Init, TypeOK, BootConfig
<1>2. QED
  BY <1>1 DEF Init, IInv, NoAnchorNoPolicy, PolicyInForceRuns,
              ConfigIsPolicyInForce, BootConfig

(* Handling an accepted policy preserves the invariant: the heart of it.   *)
LEMMA HandleAcceptedIInv ==
    ASSUME IInv, NEW s \in Slots, HandleAccepted(s)
    PROVE  IInv'
<1> DEFINE p == fetches[s].policy
<1>1. p \in Policies
  BY NoPolicyAssumption DEF IInv, TypeOK, FetchShape, HandleAccepted
<1>2. Verdict(p) = "applied" /\ Install(p)
  BY DEF HandleAccepted
<1>3. trusted /\ p.signed /\ trusted' = trusted
  BY <1>1, <1>2, AppliedVerdict DEF HandleAccepted
<1> HIDE DEF p
<1>4. TypeOK
  BY DEF IInv
<1>5. manager.current # NoPolicy =>
        manager.current \in Policies /\ Runs(manager.current)
        /\ manager.current.signed
  BY <1>4 DEF IInv, PolicyInForceRuns, TypeOK
<1>6. Policies \subseteq PolicyShape
  BY PolicyAssumption
<1>7. config' \in [mode : Modes, rules : Policies \cup {NoPolicy},
                   redaction : Policies \cup {NoPolicy},
                   residency : Policies \cup {NoPolicy}]
  <2>1. CASE Runs(p) \/ manager.current = NoPolicy
    BY <2>1, <1>1, <1>2, <1>4, InstallConfig, AppliedType DEF TypeOK
  <2>2. CASE ~Runs(p) /\ manager.current # NoPolicy
    BY <2>2, <1>1, <1>2, <1>4, <1>5, InstallConfig, AppliedType DEF TypeOK
  <2>3. QED
    BY <2>1, <2>2
<1>8. TypeOK'
  <2>1. manager' \in [current : Policies \cup {NoPolicy},
                      previous : Policies \cup {NoPolicy}]
    BY <1>1, <1>2, <1>4, InstallManager DEF TypeOK
  <2>2. fetches' \in [Slots -> FetchShape]
    BY <1>4 DEF HandleAccepted, TypeOK, FetchShape, Idle
  <2>3. QED
    BY <1>4, <1>7, <2>1, <2>2 DEF HandleAccepted, TypeOK
<1>9. PolicyInForceRuns'
  BY <1>1, <1>2, <1>3, <1>4, <1>5, InstallManager DEF PolicyInForceRuns, Runs
<1>10. ConfigIsPolicyInForce'
  <2>1. CASE Runs(p)
    BY <2>1, <1>1, <1>2, <1>4, InstallManager, InstallConfig, AppliedRuns
       DEF ConfigIsPolicyInForce, Modes
  <2>2. CASE ~Runs(p)
    BY <2>2, <1>1, <1>2, <1>4, <1>5, InstallManager, InstallConfig, AppliedRuns
       DEF ConfigIsPolicyInForce, Modes
  <2>3. QED
    BY <2>1, <2>2
<1>11. NoAnchorNoPolicy'
  BY <1>3 DEF NoAnchorNoPolicy
<1>12. QED
  BY <1>8, <1>9, <1>10, <1>11 DEF IInv

(* Rejecting a policy touches only what is reported.                       *)
LEMMA HandleRejectedIInv ==
    ASSUME IInv, NEW s \in Slots, HandleRejected(s)
    PROVE  IInv'
<1>1. TypeOK
  BY DEF IInv
<1>2. UNCHANGED <<trusted, killed, manager, config>>
  BY DEF HandleRejected
<1>3. TypeOK'
  <2> DEFINE p == fetches[s].policy
             key == [version |-> p.version, reason |-> Verdict(p)]
  <2>1. p \in Policies
    BY <1>1, NoPolicyAssumption DEF TypeOK, FetchShape, HandleRejected
  <2>2. key \in Keys
    BY <2>1, RejectedVerdict DEF Keys, HandleRejected
  <2>3. lastRejected' \in Keys \cup {NoKey} /\ reports' \in [Keys -> 0 .. ReportCap]
    BY <1>1, <2>2, ReportCapAssumption DEF HandleRejected, Report, TypeOK
  <2>4. fetches' \in [Slots -> FetchShape]
    BY <1>1 DEF HandleRejected, TypeOK, FetchShape, Idle
  <2>5. QED
    BY <1>1, <1>2, <2>3, <2>4 DEF TypeOK
<1>4. QED
  BY <1>2, <1>3 DEF IInv, NoAnchorNoPolicy, PolicyInForceRuns,
                    ConfigIsPolicyInForce

(* A heartbeat's directives preserve the invariant: mode hints only reach  *)
(* an agent without a trust anchor.                                        *)
LEMMA HandleDirectivesIInv ==
    ASSUME IInv, NEW kill \in BOOLEAN, NEW announced \in BOOLEAN,
           NEW hint \in Modes \cup {"absent"},
           HandleDirectives(kill, announced, hint)
    PROVE  IInv'
<1>1. TypeOK /\ UNCHANGED <<trusted, manager, lastRejected, reports>>
  BY DEF IInv, HandleDirectives
<1>2. fetches' \in [Slots -> FetchShape]
  BY <1>1 DEF HandleDirectives, BeginFetch, TypeOK, FetchShape, Asked
<1>3. \/ config' = config
      \/ /\ ~trusted
         /\ hint \in Modes
         /\ config' = [config EXCEPT !.mode = hint]
  BY DEF HandleDirectives, FollowHint
<1>4. TypeOK'
  <2>1. config' \in [mode : Modes, rules : Policies \cup {NoPolicy},
                     redaction : Policies \cup {NoPolicy},
                     residency : Policies \cup {NoPolicy}]
    BY <1>1, <1>3 DEF TypeOK
  <2>2. killed' \in BOOLEAN
    BY DEF HandleDirectives
  <2>3. QED
    BY <1>1, <1>2, <2>1, <2>2 DEF TypeOK
<1>5. NoAnchorNoPolicy' /\ PolicyInForceRuns'
  BY <1>1 DEF IInv, NoAnchorNoPolicy, PolicyInForceRuns
<1>6. ConfigIsPolicyInForce'
  BY <1>1, <1>3 DEF IInv, NoAnchorNoPolicy, ConfigIsPolicyInForce
<1>7. QED
  BY <1>4, <1>5, <1>6 DEF IInv

(* Every step preserves the inductive invariant.                           *)
LEMMA NextIInv == IInv /\ [Next]_vars => IInv'
<1> SUFFICES ASSUME IInv, [Next]_vars PROVE IInv'
  OBVIOUS
<1> USE DEF IInv, TypeOK, NoAnchorNoPolicy, PolicyInForceRuns,
            ConfigIsPolicyInForce
<1>1. CASE UNCHANGED vars
  BY <1>1 DEF vars
<1>2. ASSUME NEW kill \in BOOLEAN, NEW announced \in BOOLEAN,
             NEW hint \in Modes \cup {"absent"},
             HandleDirectives(kill, announced, hint)
      PROVE  IInv'
  BY <1>2, HandleDirectivesIInv
<1>3. ASSUME NEW s \in Slots, HandleAccepted(s) PROVE IInv'
  BY <1>3, HandleAcceptedIInv
<1>4. ASSUME NEW s \in Slots, HandleRejected(s) PROVE IInv'
  BY <1>4, HandleRejectedIInv
<1>5. ASSUME NEW s \in Slots, FetchFails(s) PROVE IInv'
  BY <1>5 DEF FetchFails, FetchShape, Idle
<1>6. ASSUME NEW s \in Slots, NEW p \in Policies, Answer(s, p) PROVE IInv'
  BY <1>6 DEF Answer, FetchShape, Answered
<1>7. QED
  BY <1>1, <1>2, <1>3, <1>4, <1>5, <1>6 DEF Next

(* The inductive invariant holds in every reachable state.                 *)
THEOREM Invariance == Spec => []IInv
BY InitIInv, NextIInv, PTL DEF Spec

-----------------------------------------------------------------------------

(* The state of the policy machinery is well formed.                       *)
THEOREM TypeCorrect == Spec => []TypeOK
<1>1. IInv => TypeOK
  BY DEF IInv
<1>2. QED
  BY <1>1, Invariance, PTL

(* The policy in force is the one that is running, in all its parts.       *)
THEOREM ConfigFollowsPolicy == Spec => []ConfigIsPolicyInForce
<1>1. IInv => ConfigIsPolicyInForce
  BY DEF IInv
<1>2. QED
  BY <1>1, Invariance, PTL

(* Any policy the agent may roll back to can be applied.                   *)
THEOREM RollbackWorks == Spec => []PolicyInForceRuns
<1>1. IInv => PolicyInForceRuns
  BY DEF IInv
<1>2. QED
  BY <1>1, Invariance, PTL

-----------------------------------------------------------------------------

(* A step leaves the policy in force alone, or replaces it by a signed one *)
(* that runs and is not older.                                             *)
LEMMA ManagerStep ==
    ASSUME IInv, [Next]_vars
    PROVE  \/ manager'.current = manager.current
           \/ \E p \in Policies :
                /\ manager'.current = p
                /\ p.signed /\ Runs(p)
                /\ manager.current = NoPolicy \/ VersionOf(p) >= VersionOf(manager.current)
<1>1. ASSUME NEW s \in Slots, HandleAccepted(s)
      PROVE  \/ manager'.current = manager.current
             \/ \E p \in Policies :
                  /\ manager'.current = p
                  /\ p.signed /\ Runs(p)
                  /\ manager.current = NoPolicy
                       \/ VersionOf(p) >= VersionOf(manager.current)
  <2> DEFINE p == fetches[s].policy
  <2>1. p \in Policies /\ TypeOK
    BY <1>1, NoPolicyAssumption DEF IInv, TypeOK, FetchShape, HandleAccepted
  <2>2. Verdict(p) = "applied" /\ Install(p)
    BY <1>1 DEF HandleAccepted
  <2> HIDE DEF p
  <2>3. p.signed /\ (manager.current # NoPolicy =>
                       ~(p.version < manager.current.version))
    BY <2>1, <2>2, AppliedVerdict
  <2>4. CASE ~Runs(p)
    BY <2>1, <2>2, <2>4, InstallManager
  <2>5. CASE Runs(p)
    <3>1. manager'.current = p
      BY <2>1, <2>2, <2>5, InstallManager
    <3>2. manager.current # NoPolicy =>
            VersionOf(p) >= VersionOf(manager.current)
      BY <2>1, <2>3, PolicyAssumption, NoPolicyAssumption
         DEF VersionOf, TypeOK, PolicyShape
    <3>3. QED
      BY <2>1, <2>3, <2>5, <3>1, <3>2
  <2>6. QED
    BY <2>4, <2>5
<1>2. CASE UNCHANGED manager
  BY <1>2
<1>3. QED
  BY <1>1, <1>2
     DEF Next, vars, HandleDirectives, HandleRejected, FetchFails, Answer

(* Anti-replay: the version in force never decreases.                      *)
THEOREM AntiReplay == Spec => VersionNeverDecreases
<1>1. IInv /\ [Next]_vars =>
        [VersionOf(manager.current) <= VersionOf(manager.current')]_vars
  <2> SUFFICES ASSUME IInv, [Next]_vars
               PROVE  VersionOf(manager.current) <= VersionOf(manager'.current)
    OBVIOUS
  <2>1. manager.current \in Policies \cup {NoPolicy}
    BY DEF IInv, TypeOK
  <2>2. \A p \in Policies \cup {NoPolicy} : VersionOf(p) \in Nat
    BY PolicyAssumption DEF VersionOf, PolicyShape
  <2>3. manager.current = NoPolicy => VersionOf(manager.current) = 0
    BY DEF VersionOf
  <2>4. QED
    BY <2>1, <2>2, <2>3, ManagerStep
<1>2. QED
  BY <1>1, Invariance, PTL DEF Spec, VersionNeverDecreases

(* With a trust anchor, nothing but an accepted policy, and the one that   *)
(* is restored when it fails, ever changes what the agent runs.            *)
THEOREM Authenticity == Spec => ConfigIsAuthentic
<1> DEFINE From(s) ==
      LET p == fetches[s].policy
          sources == {p, manager.current} \ {NoPolicy}
      IN  /\ fetches[s].phase = "answered" /\ fetches'[s].phase = "idle"
          /\ p.signed /\ VersionOf(manager.current) <= VersionOf(p)
          /\ config'.mode \in {config.mode} \cup {q.mode : q \in sources}
          /\ config'.rules \in {config.rules} \cup sources
          /\ config'.redaction \in {config.redaction} \cup sources
          /\ config'.residency \in {config.residency} \cup sources
<1>1. ASSUME IInv, NEW s \in Slots, HandleAccepted(s) PROVE From(s)
  <2> DEFINE p == fetches[s].policy
             m == manager.current
             sources == {p, m} \ {NoPolicy}
             Configs == [mode : Modes, rules : Policies \cup {NoPolicy},
                         redaction : Policies \cup {NoPolicy},
                         residency : Policies \cup {NoPolicy}]
             Made(c) == /\ c.mode \in {config.mode} \cup {q.mode : q \in sources}
                        /\ c.rules \in {config.rules} \cup sources
                        /\ c.redaction \in {config.redaction} \cup sources
                        /\ c.residency \in {config.residency} \cup sources
  <2>1. p \in Policies /\ TypeOK /\ Verdict(p) = "applied" /\ Install(p)
    BY <1>1, NoPolicyAssumption DEF IInv, TypeOK, FetchShape, HandleAccepted
  <2>2. /\ fetches[s].phase = "answered" /\ fetches'[s].phase = "idle"
    BY <1>1, <2>1 DEF HandleAccepted, Idle, TypeOK
  <2>3. p.signed /\ VersionOf(m) <= VersionOf(p)
    <3>1. p.signed /\ (m # NoPolicy => ~(p.version < m.version))
      BY <2>1, AppliedVerdict
    <3>2. \A q \in Policies : q.version \in Nat /\ VersionOf(q) = q.version
      BY PolicyAssumption, NoPolicyAssumption DEF VersionOf, PolicyShape
    <3>3. m \in Policies \cup {NoPolicy} /\ (m = NoPolicy => VersionOf(m) = 0)
      BY <2>1 DEF TypeOK, VersionOf
    <3> HIDE DEF p, m
    <3>4. QED
      BY <2>1, <3>1, <3>2, <3>3
  <2>4. p \in sources /\ (m # NoPolicy => m \in sources /\ m \in Policies)
    BY <2>1, NoPolicyAssumption DEF TypeOK
  <2>5. config \in Configs /\ Made(config)
    BY <2>1 DEF TypeOK
  <2> HIDE DEF p, m, sources
  <2>6. ASSUME NEW c \in Configs, Made(c), NEW q \in sources, q \in Policies
        PROVE  Applied(c, q) \in Configs /\ Made(Applied(c, q))
    BY <2>6, AppliedType
  <2>7. Made(config')
    <3>1. Applied(config, p) \in Configs /\ Made(Applied(config, p))
      BY <2>1, <2>4, <2>5, <2>6
    <3>2. \/ config' = Applied(config, p)
          \/ m # NoPolicy /\ config' = Applied(Applied(config, p), m)
      BY <2>1, InstallConfig DEF m
    <3>3. m # NoPolicy => Made(Applied(Applied(config, p), m))
      BY <2>4, <2>6, <3>1
    <3>4. QED
      BY <3>1, <3>2, <3>3
  <2>8. QED
    BY <2>2, <2>3, <2>7 DEF p, m, sources
<1>2. IInv /\ [Next]_vars =>
        [trusted /\ config' # config => \E s \in Slots : From(s)]_vars
  <2> SUFFICES ASSUME IInv, [Next]_vars, trusted, config' # config
               PROVE  \E s \in Slots : From(s)
    OBVIOUS
  <2> HIDE DEF From
  <2>1. \E s \in Slots : HandleAccepted(s)
    BY DEF Next, vars, HandleDirectives, FollowHint, HandleRejected, FetchFails,
           Answer
  <2>2. QED
    BY <1>1, <2>1
<1>3. QED
  BY <1>2, Invariance, PTL DEF Spec, ConfigIsAuthentic

(* Policy distribution implements the abstract register.                   *)
THEOREM ImplementsRegister == Spec => RegisterSpec
<1>1. Init => Register!Init
  BY DEF Init, Register!Init
<1>2. IInv /\ [Next]_vars => [Register!Next]_(manager.current)
  <2> SUFFICES ASSUME IInv, [Next]_vars
               PROVE  \/ manager'.current = manager.current
                      \/ Register!Next
    OBVIOUS
  <2>1. QED
    BY ManagerStep DEF Register!Next, Register!Adopt
<1>3. QED
  BY <1>1, <1>2, Invariance, PTL DEF Spec, RegisterSpec, Register!Spec
=============================================================================
