----------------------- MODULE SelfProtection_proofs -----------------------
(***************************************************************************)
(* Proofs about SelfProtection, for every number of calls of start(), of   *)
(* heartbeats in flight and of interferences with the hooks, with and      *)
(* without self-protection and instrumentation: first about the life cycle *)
(* (Lifecycle), then about the hooks, then about the two together.         *)
(***************************************************************************)
EXTENDS SelfProtection, SequenceTheorems, TLAPS

(* The handles account for the intervals that are armed: for all of them   *)
(* when start() was called at most once, for one of them otherwise.        *)
HandlesAccount ==
    /\ watchdogHandle = "armed" => watchdogs > 0
    /\ pruneHandle => pruners > 0
    /\ starts <= 1 =>
         /\ watchdogs = IF watchdogHandle = "armed" THEN 1 ELSE 0
         /\ pruners = IF pruneHandle THEN 1 ELSE 0

(* What the kill switch and the handle have to do with each other.  That   *)
(* an agent that was never started hears nothing is what keeps it from     *)
(* being killed before its only start().                                   *)
HandleInStep ==
    /\ starts = 0 =>
         /\ ~heartbeatTimer
         /\ \A b \in Beats : beats[b] = "idle"
         /\ watchdogHandle = "null"
         /\ ~pruneHandle
         /\ ~killed
    /\ starts <= 1 =>
         /\ killed => watchdogHandle = "null"
         /\ (starts = 1 /\ shutdown = "no" /\ selfProtect /\ ~killed) =>
              watchdogHandle = "armed"
    /\ killed = killSwitchActive

IInv == TypeOK /\ HandlesAccount /\ HandleInStep

-----------------------------------------------------------------------------

(* The initial state satisfies the inductive invariant.                    *)
LEMMA InitIInv == Init => IInv
<1> SUFFICES ASSUME Init PROVE IInv
  OBVIOUS
<1>1. 0 \in 0 .. MaxStarts
  BY MaxStartsAssumption
<1>2. TypeOK
  <2>1. beats \in [Beats -> {"idle", "sent", "answered"}]
    BY DEF Init
  <2>2. starts \in 0 .. MaxStarts /\ pruners \in Nat /\ watchdogs \in Nat
    BY <1>1 DEF Init
  <2>3. QED
    BY <2>1, <2>2 DEF Init, TypeOK
<1>3. HandlesAccount
  BY DEF Init, HandlesAccount
<1>4. HandleInStep
  <2>1. starts = 0 =>
         /\ ~heartbeatTimer /\ watchdogHandle = "null" /\ ~pruneHandle /\ ~killed
         /\ \A b \in Beats : beats[b] = "idle"
    BY DEF Init
  <2>2. (killed = killSwitchActive) /\ ~killed
    BY DEF Init
  <2>3. starts # 1
    BY DEF Init
  <2>4. QED
    BY <2>1, <2>2, <2>3 DEF HandleInStep
<1>5. QED
  BY <1>2, <1>3, <1>4 DEF IInv

(* A heartbeat that is sent occupies an idle slot.                         *)
LEMMA SendBeatType ==
    ASSUME TypeOK, SendBeat
    PROVE  beats' \in [Beats -> {"idle", "sent", "answered"}]
BY DEF TypeOK, SendBeat

(* start() accounts for what it starts.                                    *)
LEMMA StartIInv == ASSUME IInv, Start PROVE IInv'
<1>1. beats' \in [Beats -> {"idle", "sent", "answered"}]
  BY SendBeatType DEF IInv, TypeOK, Start
<1>2. starts' = starts + 1 /\ starts' \in 0 .. MaxStarts /\ starts \in Nat
  BY MaxStartsAssumption DEF IInv, TypeOK, Start
<1>3. watchdogs' \in Nat /\ watchdogHandle' \in {"null", "armed", "cleared"}
  BY DEF IInv, TypeOK, Start, StartWatchdog, watchdog
<1>4. pruners' = pruners + 1 /\ pruneHandle' = TRUE
  BY DEF Start
<1>5. TypeOK'
  BY <1>1, <1>2, <1>3, <1>4 DEF IInv, TypeOK, Start, control
<1>6. starts' <= 1 => starts = 0
  BY <1>2
<1>7. HandlesAccount'
  BY <1>2, <1>4, <1>6
     DEF IInv, TypeOK, HandlesAccount, HandleInStep, Start, StartWatchdog, watchdog
<1>8. HandleInStep'
  BY <1>2, <1>4, <1>6, SelfProtectAssumption
     DEF IInv, TypeOK, HandleInStep, Start, StartWatchdog, watchdog, control
<1>9. QED
  BY <1>5, <1>7, <1>8 DEF IInv

(* stop() clears what the handles reach.                                   *)
LEMMA StopIInv == ASSUME IInv, Stop PROVE IInv'
<1>1. watchdogs' \in Nat /\ pruners' \in Nat
  BY DEF IInv, TypeOK, HandlesAccount, Stop, WatchdogsAfterStop
<1>2. TypeOK'
  BY <1>1 DEF IInv, TypeOK, Stop, control
<1>3. HandlesAccount'
  BY DEF IInv, TypeOK, HandlesAccount, Stop, WatchdogsAfterStop
<1>4. HandleInStep'
  BY DEF IInv, TypeOK, HandleInStep, Stop, control
<1>5. QED
  BY <1>2, <1>3, <1>4 DEF IInv

(* A heartbeat answer moves the handle along with the kill switch.         *)
LEMMA HandleAnswerIInv ==
    ASSUME IInv, NEW b \in Beats, NEW killSwitch \in BOOLEAN,
           HandleAnswer(b, killSwitch)
    PROVE  IInv'
<1>1. /\ beats[b] = "answered" /\ beats' = [beats EXCEPT ![b] = "idle"]
      /\ killSwitchActive' = killSwitch
      /\ UNCHANGED <<starts, initialized, heartbeatTimer, bufferTimer,
                     discoveryTimer, pruners, pruneHandle, shutdown>>
  BY DEF HandleAnswer, timers, prune
<1>2. starts # 0
  BY <1>1 DEF IInv, HandleInStep
<1>3. CASE killSwitch /\ ~killSwitchActive /\ HandleKillSwitch
  <2>1. /\ killed' = TRUE /\ watchdogHandle' = "null"
        /\ watchdogs' = WatchdogsAfterStop
    BY <1>3 DEF HandleKillSwitch
  <2>2. watchdogs' \in Nat
    BY <2>1 DEF IInv, TypeOK, HandlesAccount, WatchdogsAfterStop
  <2>3. TypeOK'
    BY <1>1, <2>1, <2>2 DEF IInv, TypeOK
  <2>4. HandlesAccount'
    BY <1>1, <2>1 DEF IInv, TypeOK, HandlesAccount, WatchdogsAfterStop
  <2>5. HandleInStep'
    BY <1>1, <1>2, <1>3, <2>1 DEF IInv, TypeOK, HandleInStep
  <2>6. QED
    BY <2>3, <2>4, <2>5 DEF IInv
<1>4. CASE ~killSwitch /\ killSwitchActive /\ HandleRecover
  <2>1. killed /\ killed' = FALSE
    BY <1>4 DEF HandleRecover, IInv, HandleInStep
  <2>2. TypeOK'
    <3>1. watchdogs' \in Nat /\ watchdogHandle' \in {"null", "armed", "cleared"}
      BY <1>4 DEF IInv, TypeOK, HandleRecover, StartWatchdog, watchdog
    <3>2. beats' \in [Beats -> {"idle", "sent", "answered"}]
      BY <1>1 DEF IInv, TypeOK
    <3>3. QED
      BY <1>1, <2>1, <3>1, <3>2 DEF IInv, TypeOK
  <2>3. HandlesAccount'
    BY <1>1, <1>4
       DEF IInv, TypeOK, HandlesAccount, HandleRecover, StartWatchdog, watchdog
  <2>4. HandleInStep'
    BY <1>1, <1>2, <1>4, <2>1
       DEF IInv, TypeOK, HandleInStep, HandleRecover, StartWatchdog, watchdog
  <2>5. QED
    BY <2>2, <2>3, <2>4 DEF IInv
<1>5. CASE killSwitch = killSwitchActive /\ UNCHANGED <<killed, watchdog>>
  <2>1. TypeOK'
    BY <1>1, <1>5 DEF IInv, TypeOK, watchdog
  <2>2. HandlesAccount' /\ HandleInStep'
    BY <1>1, <1>2, <1>5 DEF IInv, HandlesAccount, HandleInStep, watchdog
  <2>3. QED
    BY <2>1, <2>2 DEF IInv
<1>6. QED
  BY <1>3, <1>4, <1>5 DEF HandleAnswer

(* Steps that only concern the heartbeats in flight, of a started agent.   *)
LEMMA BeatsIInv ==
    ASSUME IInv, starts # 0,
           beats' \in [Beats -> {"idle", "sent", "answered"}],
           UNCHANGED <<starts, initialized, timers, prune, watchdog, control,
                       shutdown>>
    PROVE  IInv'
<1>1. TypeOK'
  BY DEF IInv, TypeOK, timers, prune, watchdog, control
<1>2. HandlesAccount' /\ HandleInStep'
  BY DEF IInv, HandlesAccount, HandleInStep, timers, prune, watchdog, control
<1>3. QED
  BY <1>1, <1>2 DEF IInv

(* Every step preserves the inductive invariant.                           *)
LEMMA NextIInv == IInv /\ [Next]_vars => IInv'
<1> SUFFICES ASSUME IInv, [Next]_vars PROVE IInv'
  OBVIOUS
<1>1. CASE Start
  BY <1>1, StartIInv
<1>2. CASE Stop
  BY <1>2, StopIInv
<1>3. CASE InitSettles \/ StopDiscovery \/ StopReturns \/ UNCHANGED vars
  <2>1. TypeOK'
    <3>1. /\ UNCHANGED <<starts, prune, watchdog, control, beats>>
          /\ initialized' \in {initialized, "yes"}
          /\ heartbeatTimer' = heartbeatTimer /\ bufferTimer' = bufferTimer
          /\ discoveryTimer' \in {discoveryTimer, FALSE}
          /\ shutdown' \in {shutdown, "discovery", "done"}
      BY <1>3, Zenon DEF InitSettles, StopDiscovery, StopReturns, vars, timers
    <3>2. /\ initialized' \in {"none", "pending", "yes", "no"}
          /\ shutdown' \in {"no", "events", "discovery", "done"}
      BY <3>1 DEF IInv, TypeOK
    <3>3. /\ heartbeatTimer' \in BOOLEAN /\ bufferTimer' \in BOOLEAN
          /\ discoveryTimer' \in BOOLEAN
      BY <3>1 DEF IInv, TypeOK
    <3>4. QED
      BY <3>1, <3>2, <3>3 DEF IInv, TypeOK, prune, watchdog, control
  <2>2. HandlesAccount' /\ HandleInStep'
    BY <1>3 DEF InitSettles, StopDiscovery, StopReturns, vars, timers, prune,
                watchdog, control, IInv, HandlesAccount, HandleInStep
  <2>3. QED
    BY <2>1, <2>2 DEF IInv
<1>4. CASE Tick
  BY <1>4, SendBeatType, BeatsIInv DEF Tick, IInv, HandleInStep
<1>5. ASSUME NEW b \in Beats, Answer(b) \/ Fail(b) PROVE IInv'
  <2>1. starts # 0
    BY <1>5 DEF Answer, Fail, IInv, HandleInStep
  <2>2. beats' \in [Beats -> {"idle", "sent", "answered"}]
    BY <1>5 DEF Answer, Fail, IInv, TypeOK
  <2>3. QED
    BY <1>5, <2>1, <2>2, BeatsIInv DEF Answer, Fail
<1>6. ASSUME NEW b \in Beats, NEW killSwitch \in BOOLEAN,
             HandleAnswer(b, killSwitch)
      PROVE  IInv'
  BY <1>6, HandleAnswerIInv
<1>7. QED
  BY <1>1, <1>2, <1>3, <1>4, <1>5, <1>6 DEF Next

(* The inductive invariant holds in every reachable state.                 *)
THEOREM Invariance == Spec => []IInv
BY InitIInv, NextIInv, PTL DEF Spec

-----------------------------------------------------------------------------

(* The agent's variables have their types.                                 *)
THEOREM TypeCorrect == Spec => []TypeOK
<1>1. IInv => TypeOK
  BY DEF IInv
<1>2. QED
  BY <1>1, Invariance, PTL

(* One watchdog while alive, none while killed.                            *)
THEOREM WatchdogAgrees == Spec => []WatchdogInStep
<1>1. IInv => WatchdogInStep
  BY DEF IInv, TypeOK, HandlesAccount, HandleInStep, WatchdogInStep
<1>2. QED
  BY <1>1, Invariance, PTL

(* An agent that was started once can clear all of its intervals.          *)
THEOREM Reachable == Spec => []NothingOutOfReach
<1>1. IInv => NothingOutOfReach
  BY DEF IInv, TypeOK, HandlesAccount, NothingOutOfReach
<1>2. QED
  BY <1>1, Invariance, PTL

-----------------------------------------------------------------------------
(* Stacks of functions                                                     *)

Layers == Hooks!Layers

Once(s) == \A i, j \in DOMAIN s : s[i] = "rasp" /\ s[j] = "rasp" => i = j

Free(s) == \A i \in DOMAIN s : s[i] # "rasp"

Stacks == {s \in Seq(Layers) : Once(s)}

(* The wrapper on top of a method that has none.                           *)
LEMMA PushHook ==
    ASSUME NEW s \in Seq(Layers), Free(s)
    PROVE  /\ <<"rasp">> \o s \in Stacks
           /\ <<"rasp">> \o s # <<>>
           /\ (<<"rasp">> \o s)[1] = "rasp"
<1> DEFINE t == <<"rasp">> \o s
<1>1. "rasp" \in Layers
  BY DEF Layers, Hooks!Layers
<1>2. <<"rasp">> \in Seq(Layers) /\ Len(<<"rasp">>) = 1 /\ <<"rasp">>[1] = "rasp"
  BY <1>1
<1>3. /\ t \in Seq(Layers)
      /\ Len(t) = 1 + Len(s)
      /\ \A i \in 1 .. 1 + Len(s) : t[i] = IF i <= 1 THEN <<"rasp">>[i] ELSE s[i - 1]
  BY <1>2, ConcatProperties
<1>4. DOMAIN t = 1 .. 1 + Len(s) /\ DOMAIN s = 1 .. Len(s) /\ Len(s) \in Nat
  BY <1>3
<1>5. t[1] = "rasp" /\ \A i \in DOMAIN t : i # 1 => i - 1 \in DOMAIN s /\ t[i] = s[i - 1]
  BY <1>2, <1>3, <1>4
<1> HIDE DEF t
<1>6. Once(t)
  BY <1>5 DEF Once, Free
<1>7. t # <<>>
  BY <1>4
<1>8. QED
  BY <1>3, <1>5, <1>6, <1>7 DEF Stacks, t

(* Another function on top of a method.                                    *)
LEMMA PushOther ==
    ASSUME NEW s \in Stacks, NEW f \in Layers, f # "rasp"
    PROVE  <<f>> \o s \in Stacks /\ (Free(s) => Free(<<f>> \o s))
<1> DEFINE t == <<f>> \o s
<1>1. s \in Seq(Layers) /\ Once(s)
  BY DEF Stacks
<1>2. <<f>> \in Seq(Layers) /\ Len(<<f>>) = 1 /\ <<f>>[1] = f
  OBVIOUS
<1>3. /\ t \in Seq(Layers)
      /\ Len(t) = 1 + Len(s)
      /\ \A i \in 1 .. 1 + Len(s) : t[i] = IF i <= 1 THEN <<f>>[i] ELSE s[i - 1]
  BY <1>1, <1>2, ConcatProperties
<1>4. DOMAIN t = 1 .. 1 + Len(s) /\ DOMAIN s = 1 .. Len(s) /\ Len(s) \in Nat
  BY <1>1, <1>3
<1>5. t[1] = f /\ \A i \in DOMAIN t : i # 1 => i - 1 \in DOMAIN s /\ t[i] = s[i - 1]
  BY <1>2, <1>3, <1>4
<1>6. DOMAIN t \subseteq Int
  BY <1>4
<1> HIDE DEF t
<1>7. Once(t)
  <2> SUFFICES ASSUME NEW i \in DOMAIN t, NEW j \in DOMAIN t,
                      t[i] = "rasp", t[j] = "rasp"
               PROVE  i = j
    BY DEF Once
  <2>1. i # 1 /\ j # 1
    BY <1>5
  <2>2. i - 1 = j - 1
    BY <2>1, <1>1, <1>5 DEF Once
  <2>3. QED
    BY <2>2, <1>6
<1>8. Free(s) => Free(t)
  BY <1>5 DEF Free
<1>9. QED
  BY <1>3, <1>7, <1>8 DEF Stacks, t

(* What is left when a wrapper is taken off.                               *)
LEMMA TakeOff ==
    ASSUME NEW s \in Stacks, NEW k \in 2 .. Len(s)
    PROVE  /\ SubSeq(s, k, Len(s)) \in Stacks
           /\ Free(s) => Free(SubSeq(s, k, Len(s)))
<1> DEFINE t == SubSeq(s, k, Len(s))
<1>1. s \in Seq(Layers) /\ Once(s) /\ Len(s) \in Nat /\ DOMAIN s = 1 .. Len(s)
  BY DEF Stacks
<1>2. k \in Int /\ Len(s) \in Int /\ \A i \in k .. Len(s) : s[i] \in Layers
  BY <1>1, ElementOfSeq
<1>3. /\ t \in Seq(Layers)
      /\ Len(t) = IF k <= Len(s) THEN Len(s) - k + 1 ELSE 0
      /\ \A i \in 1 .. Len(s) - k + 1 : t[i] = s[k + i - 1]
  BY <1>2, SubSeqProperties
<1>4. DOMAIN t = 1 .. Len(s) - k + 1
  BY <1>1, <1>3
<1>5. \A i \in DOMAIN t : k + i - 1 \in DOMAIN s /\ t[i] = s[k + i - 1]
  BY <1>1, <1>3, <1>4
<1>6. DOMAIN t \subseteq Int
  BY <1>4
<1> HIDE DEF t
<1>7. Once(t)
  <2> SUFFICES ASSUME NEW i \in DOMAIN t, NEW j \in DOMAIN t,
                      t[i] = "rasp", t[j] = "rasp"
               PROVE  i = j
    BY DEF Once
  <2>1. k + i - 1 = k + j - 1
    BY <1>1, <1>5 DEF Once
  <2>2. QED
    BY <2>1, <1>2, <1>6
<1>8. Free(s) => Free(t)
  BY <1>5 DEF Free
<1>9. QED
  BY <1>3, <1>7, <1>8 DEF Stacks, t

(* A method that is missing, and one that is defined.                      *)
LEMMA Literals == \A s \in {<<>>, <<"driver">>, <<"other">>} : s \in Stacks /\ Free(s)
<1>1. \A s \in {<<>>, <<"driver">>, <<"other">>} : s \in Seq(Layers)
  <2>1. "driver" \in Layers /\ "other" \in Layers
    BY DEF Layers, Hooks!Layers
  <2>2. <<>> \in Seq(Layers)
    BY EmptySeq
  <2>3. \A f \in Layers : <<f>> \in Seq(Layers)
    OBVIOUS
  <2>4. <<"driver">> \in Seq(Layers) /\ <<"other">> \in Seq(Layers)
    BY <2>1, <2>3, Zenon
  <2>5. QED
    BY <2>2, <2>4, Zenon
<1>2. \A s \in {<<>>, <<"driver">>, <<"other">>} : Free(s)
  BY DEF Free
<1>3. QED
  BY <1>1, <1>2 DEF Stacks, Free, Once

-----------------------------------------------------------------------------
(* The hooks                                                               *)

(* Before the instrumentation there is no wrapper anywhere; afterwards, a  *)
(* recorded method that nobody has touched still begins with its wrapper.  *)
HooksAccount ==
    /\ stack \in [Methods -> Stacks]
    /\ registry \subseteq Methods
    /\ ~done => registry = {} /\ \A m \in Methods : Free(stack[m])
    /\ \A m \in registry \ disturbed : stack[m] # <<>> /\ stack[m][1] = "rasp"

HIInv == HooksAccount /\ warned \subseteq disturbed

(* The initial state satisfies it: nothing is hooked yet.                  *)
LEMMA InitHIInv == SelfProtectionInit => HIInv
<1> SUFFICES ASSUME SelfProtectionInit PROVE HIInv
  OBVIOUS
<1>1. /\ stack \in [Methods -> {<<>>, <<"driver">>}]
      /\ registry = {} /\ warned = {}
  BY DEF SelfProtectionInit, Hooks!Init
<1>2. stack \in [Methods -> Stacks] /\ \A m \in Methods : Free(stack[m])
  BY <1>1, Literals
<1>3. QED
  BY <1>1, <1>2 DEF HIInv, HooksAccount

(* Hooking puts a wrapper on methods that have none, or does nothing.      *)
LEMMA InstrumentAccounts ==
    ASSUME HooksAccount, Hooks!Instrument
    PROVE  HooksAccount' /\ disturbed' = disturbed
<1>1. CASE done /\ UNCHANGED Hooks!hookVars
  BY <1>1 DEF HooksAccount, Hooks!hookVars
<1>2. CASE ~done
  <2>1. /\ done' = TRUE /\ disturbed' = disturbed
        /\ stack' = [m \in Methods |-> IF m \in Hooks!Assigned
                                       THEN <<"rasp">> \o stack[m] ELSE stack[m]]
        /\ registry' = registry \cup Hooks!Recorded
    BY <1>2 DEF Hooks!Instrument
  <2>2. registry = {} /\ \A m \in Methods : stack[m] \in Stacks /\ Free(stack[m])
    BY <1>2 DEF HooksAccount
  <2>3. \A m \in Methods :
          /\ <<"rasp">> \o stack[m] \in Stacks
          /\ <<"rasp">> \o stack[m] # <<>>
          /\ (<<"rasp">> \o stack[m])[1] = "rasp"
    BY <2>2, PushHook DEF Stacks
  <2>4. Hooks!Recorded = Hooks!Assigned /\ Hooks!Assigned \subseteq Methods
    <3>1. Hooks!Reached \subseteq Methods
      <4> SUFFICES ASSUME NEW d \in Drivers, NEW i \in DOMAIN MethodsOf[d]
                   PROVE  MethodsOf[d][i] \in Methods
        BY DEF Hooks!Reached
      <4>1. MethodsOf[d] \in Seq(Methods)
        BY MethodsOfAssumption
      <4>2. QED
        BY <4>1, ElementOfSeq
    <3>2. QED
      BY <3>1 DEF Hooks!Assigned, Hooks!Recorded
  <2> DEFINE hooked(m) == <<"rasp">> \o stack[m]
  <2>5. \A m \in Methods : stack'[m] = IF m \in Hooks!Assigned THEN hooked(m) ELSE stack[m]
    BY <2>1
  <2>6. stack' \in [Methods -> Stacks]
    BY <2>1, <2>2, <2>3
  <2> HIDE DEF hooked
  <2>7. \A m \in registry' : stack'[m] # <<>> /\ stack'[m][1] = "rasp"
    BY <2>1, <2>2, <2>3, <2>4, <2>5 DEF hooked
  <2>8. QED
    BY <2>1, <2>2, <2>4, <2>6, <2>7 DEF HooksAccount
<1>3. QED
  BY <1>1, <1>2 DEF Hooks!Instrument

(* What others assign has no second wrapper, and none at all where there   *)
(* was none.                                                               *)
LEMMA AssignAccounts ==
    ASSUME HooksAccount, NEW m \in Methods, NEW functions \in Stacks,
           Free(stack[m]) => Free(functions), Hooks!Assign(m, functions)
    PROVE  HooksAccount' /\ disturbed \subseteq disturbed'
<1>1. /\ stack' = [stack EXCEPT ![m] = functions]
      /\ disturbed' = disturbed \cup ({m} \cap registry)
      /\ done' = done /\ registry' = registry
  BY DEF Hooks!Assign
<1>2. \A n \in Methods : stack'[n] = IF n = m THEN functions ELSE stack[n]
  BY <1>1 DEF HooksAccount
<1>3. stack' \in [Methods -> Stacks]
  BY <1>1 DEF HooksAccount
<1>4. ~done' => registry' = {} /\ \A n \in Methods : Free(stack'[n])
  BY <1>1, <1>2 DEF HooksAccount
<1>5. \A n \in registry' \ disturbed' : n # m /\ n \in registry \ disturbed /\ n \in Methods
  BY <1>1 DEF HooksAccount
<1>6. \A n \in registry' \ disturbed' : stack'[n] # <<>> /\ stack'[n][1] = "rasp"
  BY <1>2, <1>5 DEF HooksAccount
<1>7. QED
  BY <1>1, <1>3, <1>4, <1>6 DEF HooksAccount

(* Whatever others do to the methods keeps the account.                    *)
LEMMA InterferenceAccounts ==
    ASSUME HooksAccount, Hooks!Interference
    PROVE  HooksAccount' /\ disturbed \subseteq disturbed'
<1>1. PICK m \in Methods :
        Hooks!Wrap(m) \/ Hooks!Unwrap(m) \/ Hooks!Replace(m) \/ Hooks!Appear(m)
  BY DEF Hooks!Interference
<1>2. stack[m] \in Stacks
  BY DEF HooksAccount
<1>3. CASE Hooks!Wrap(m)
  <2>1. PICK f \in {"tracer", "copyingTracer", "otherCopy"} :
          Hooks!Assign(m, <<f>> \o stack[m])
    BY <1>3 DEF Hooks!Wrap
  <2>2. f \in Layers /\ f # "rasp"
    BY DEF Layers, Hooks!Layers
  <2>3. <<f>> \o stack[m] \in Stacks /\ (Free(stack[m]) => Free(<<f>> \o stack[m]))
    BY <1>2, <2>2, PushOther
  <2>4. QED
    BY <2>1, <2>3, AssignAccounts
<1>4. CASE Hooks!Unwrap(m)
  <2>1. PICK k \in 2 .. Len(stack[m]) :
          Hooks!Assign(m, SubSeq(stack[m], k, Len(stack[m])))
    BY <1>4 DEF Hooks!Unwrap
  <2>2. QED
    BY <1>2, <2>1, TakeOff, AssignAccounts
<1>5. CASE Hooks!Replace(m)
  <2>1. PICK functions \in {<<"other">>, <<>>} : Hooks!Assign(m, functions)
    BY <1>5 DEF Hooks!Replace
  <2>2. functions \in Stacks /\ Free(functions)
    BY Literals
  <2>3. QED
    BY <2>1, <2>2, AssignAccounts
<1>6. CASE Hooks!Appear(m)
  BY <1>6, Literals, AssignAccounts DEF Hooks!Appear
<1>7. QED
  BY <1>1, <1>3, <1>4, <1>5, <1>6

(* A check only reports methods that others have assigned to.              *)
LEMMA CheckIsJust ==
    ASSUME HooksAccount', Check
    PROVE  (warned \subseteq disturbed)'
<1>1. ASSUME NEW m \in Hooks!Tampered' PROVE m \in disturbed'
  <2>1. m \in registry' /\ (Hooks!Current(m)' # "rasp" \/ ~Hooks!IsPatched(m)')
    BY <1>1 DEF Hooks!Tampered
  <2>2. ASSUME m \notin disturbed' PROVE FALSE
    <3>1. stack'[m] # <<>> /\ stack'[m][1] = "rasp" /\ stack'[m] \in Seq(Layers)
      BY <2>1, <2>2 DEF HooksAccount, Stacks
    <3>2. Len(stack'[m]) \in Nat /\ DOMAIN stack'[m] = 1 .. Len(stack'[m])
      BY <3>1
    <3>3. 1 \in DOMAIN stack'[m]
      BY <3>1, <3>2, EmptySeq
    <3>4. Hooks!Current(m)' = "rasp"
      BY <3>1 DEF Hooks!Current
    <3>5. \A j \in 1 .. 1 - 1 : stack'[m][j] = "copyingTracer"
      OBVIOUS
    <3>6. Hooks!IsPatched(m)'
      BY <3>1, <3>3, <3>5 DEF Hooks!IsPatched
    <3>7. QED
      BY <2>1, <3>4, <3>6
  <2>3. QED
    BY <2>2
<1>2. QED
  BY <1>1 DEF Check

(* Every step preserves the account, and no warning is unjust.             *)
LEMMA NextHIInv == HIInv /\ [SelfProtectionNext]_protectionVars => HIInv'
<1> SUFFICES ASSUME HIInv, [SelfProtectionNext]_protectionVars PROVE HIInv'
  OBVIOUS
<1>1. ASSUME HooksAccount', disturbed \subseteq disturbed', Check \/ UNCHANGED warned
      PROVE  HIInv'
  <2>1. CASE Check
    BY <1>1, <2>1, CheckIsJust DEF HIInv
  <2>2. CASE UNCHANGED warned
    BY <1>1, <2>2 DEF HIInv
  <2>3. QED
    BY <1>1, <2>1, <2>2
<1>2. ASSUME UNCHANGED hookVars PROVE HooksAccount' /\ disturbed \subseteq disturbed'
  BY <1>2 DEF hookVars, HIInv, HooksAccount
<1>3. CASE ProtectedStart
  <2>1. HooksAccount' /\ disturbed \subseteq disturbed'
    BY <1>2, <1>3, InstrumentAccounts DEF ProtectedStart, HIInv
  <2>2. QED
    BY <1>1, <1>3, <2>1 DEF ProtectedStart, CheckIfStarted
<1>4. CASE ProtectedAnswer
  BY <1>1, <1>2, <1>4 DEF ProtectedAnswer, CheckIfStarted
<1>5. CASE ProtectedStep
  BY <1>1, <1>2, <1>5 DEF ProtectedStep
<1>6. CASE WatchdogTick
  BY <1>1, <1>2, <1>6 DEF WatchdogTick
<1>7. CASE Interfere
  BY <1>1, <1>7, InterferenceAccounts DEF Interfere, HIInv
<1>8. CASE UNCHANGED protectionVars
  BY <1>1, <1>2, <1>8 DEF protectionVars
<1>9. QED
  BY <1>3, <1>4, <1>5, <1>6, <1>7, <1>8 DEF SelfProtectionNext

(* The account holds in every reachable state.                             *)
THEOREM HookInvariance == SelfProtectionSpec => []HIInv
BY InitHIInv, NextHIInv, PTL DEF SelfProtectionSpec

-----------------------------------------------------------------------------

(* No call of a method goes through two of the agent's wrappers.           *)
THEOREM HookedOnce == SelfProtectionSpec => []RecordedOnce
<1>1. HIInv => RecordedOnce
  BY DEF HIInv, HooksAccount, Stacks, Once, RecordedOnce, Hooks!RecordedOnce
<1>2. QED
  BY <1>1, HookInvariance, PTL

(* A warning names only methods that others have assigned to.              *)
THEOREM WarningsAreJust == SelfProtectionSpec => []NoFalseAlarm
<1>1. HIInv => NoFalseAlarm
  BY DEF HIInv, NoFalseAlarm
<1>2. QED
  BY <1>1, HookInvariance, PTL

(* The life cycle is not disturbed by the hooks: what is true of it alone  *)
(* is true of the two together.                                            *)
THEOREM ImplementsLifecycle == SelfProtectionSpec => Spec
<1>1. SelfProtectionInit => Init
  BY DEF SelfProtectionInit
<1>2. [SelfProtectionNext]_protectionVars => [Next]_vars
  BY DEF SelfProtectionNext, ProtectedStart, ProtectedAnswer, ProtectedStep,
         WatchdogTick, Interfere, protectionVars, Next
<1>3. QED
  BY <1>1, <1>2, PTL DEF SelfProtectionSpec, Spec

(* One watchdog while alive, and nothing out of reach, with the hooks.     *)
THEOREM ProtectionInStep ==
    SelfProtectionSpec => [](WatchdogInStep /\ NothingOutOfReach)
BY ImplementsLifecycle, WatchdogAgrees, Reachable, PTL
=============================================================================
