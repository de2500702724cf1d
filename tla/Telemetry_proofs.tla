-------------------------- MODULE Telemetry_proofs --------------------------
(***************************************************************************)
(* Proofs about what becomes of telemetry: about EventBuffer and Delivery, *)
(* for every set of events and every MaxSize, and about AuditLog, for      *)
(* every limit, every size of lines and every number of entries, rotations *)
(* and processes.  The first part is about the buffer alone; the second    *)
(* shows that the composition with the transport implements the buffer,    *)
(* which carries the first part over, and what the transport does with     *)
(* each call; the third is about the log, which nothing connects with the  *)
(* other two.                                                              *)
(***************************************************************************)
EXTENDS Delivery, AuditLog, FiniteSetTheorems, TLAPS

(* An event is in one place: once it has been sent it is neither queued    *)
(* nor sent again, although flushes overlap and requests time out while    *)
(* they are still on their way.                                            *)
InOnePlace ==
    /\ queue \cap (sending \cup wire) = {}
    /\ \A e \in Events : received[e] > 0 => e \notin queue \cup wire

(* Everything that is anywhere was accepted.                               *)
Provenance ==
    /\ queue \cup sending \cup wire \subseteq accepted
    /\ \A e \in Events : received[e] > 0 => e \in accepted

(* The inductive invariant.  InOnePlace alone is not inductive: an event   *)
(* that is enqueued must not be on its way already, which is so because    *)
(* whatever is on its way was accepted.  The bound needs the queue to be   *)
(* finite, for its cardinality to be a number.                             *)
IInv ==
    /\ TypeOK
    /\ IsFiniteSet(queue)
    /\ QueueBelowMaxSize
    /\ InOnePlace
    /\ Provenance

-----------------------------------------------------------------------------

(* The initial state satisfies the inductive invariant.                    *)
LEMMA InitIInv == Init => IInv
<1> SUFFICES ASSUME Init PROVE IInv
  OBVIOUS
<1>1. IsFiniteSet(queue) /\ Cardinality(queue) = 0
  BY FS_EmptySet DEF Init
<1>2. TypeOK
  BY DEF Init, TypeOK
<1>3. QueueBelowMaxSize
  BY <1>1, MaxSizeAssumption DEF QueueBelowMaxSize
<1>4. InOnePlace /\ Provenance
  BY DEF Init, InOnePlace, Provenance
<1>5. QED
  BY <1>1, <1>2, <1>3, <1>4 DEF IInv

(* Flushing all of the queue, as Tick and Stop do.                         *)
LEMMA FlushIInv ==
    ASSUME IInv, Flush(queue), UNCHANGED <<received, accepted>>,
           timer' \in BOOLEAN, stopping' \in {"no", "waiting", "done"},
           awaited' \in SUBSET Events
    PROVE  IInv'
<1>1. IsFiniteSet(queue') /\ Cardinality(queue') = 0
  BY FS_EmptySet DEF Flush
<1>2. TypeOK'
  BY DEF IInv, TypeOK, Flush
<1>3. QueueBelowMaxSize'
  BY <1>1, MaxSizeAssumption DEF QueueBelowMaxSize
<1>4. InOnePlace' /\ Provenance'
  BY DEF IInv, TypeOK, InOnePlace, Provenance, Flush
<1>5. QED
  BY <1>1, <1>2, <1>3, <1>4 DEF IInv

(* An event that was not accepted before is nowhere, so it can be added;   *)
(* what the queue then holds is either fewer than MaxSize or nothing.      *)
LEMMA EnqueueIInv ==
    ASSUME IInv, NEW e \in Events, Enqueue(e)
    PROVE  IInv'
<1> DEFINE q == queue \cup {e}
<1>1. IsFiniteSet(q) /\ Cardinality(q) \in Nat
  BY FS_AddElement, FS_CardinalityType DEF IInv
<1>2. \/ Flush(q)
      \/ queue' = q /\ UNCHANGED <<sending, wire>> /\ ~(Cardinality(q) >= MaxSize)
  BY DEF Enqueue
<1>3. /\ e \notin accepted
      /\ accepted' = accepted \cup {e}
      /\ UNCHANGED <<timer, received, stopping, awaited>>
  BY DEF Enqueue
<1> HIDE DEF q
<1>4. IsFiniteSet(queue') /\ QueueBelowMaxSize'
  <2>1. CASE Flush(q)
    BY <2>1, FS_EmptySet, MaxSizeAssumption DEF Flush, QueueBelowMaxSize
  <2>2. CASE queue' = q /\ ~(Cardinality(q) >= MaxSize)
    BY <1>1, <2>2, MaxSizeAssumption DEF QueueBelowMaxSize
  <2>3. QED
    BY <1>2, <2>1, <2>2
<1>5. TypeOK' /\ InOnePlace' /\ Provenance'
  BY <1>2, <1>3 DEF q, IInv, TypeOK, InOnePlace, Provenance, Flush
<1>6. QED
  BY <1>4, <1>5 DEF IInv

(* A request reaches the collector for the first and last time.            *)
LEMMA ReceiveIInv ==
    ASSUME IInv, NEW e \in Events, Receive(e)
    PROVE  IInv' /\ received[e] = 0 /\ received' = [received EXCEPT ![e] = 1]
<1>1. received[e] = 0 /\ e \notin queue /\ e \in accepted
  BY DEF IInv, TypeOK, InOnePlace, Provenance, Receive
<1>2. received' = [received EXCEPT ![e] = 1]
  BY <1>1 DEF IInv, TypeOK, Receive
<1>3. TypeOK' /\ InOnePlace' /\ Provenance'
  BY <1>1, <1>2 DEF IInv, TypeOK, InOnePlace, Provenance, Receive
<1>4. IsFiniteSet(queue') /\ QueueBelowMaxSize'
  BY DEF IInv, QueueBelowMaxSize, Receive
<1>5. QED
  BY <1>1, <1>2, <1>3, <1>4 DEF IInv

(* Steps that only take events away from sending and wire.                 *)
LEMMA LeavesIInv ==
    ASSUME IInv, UNCHANGED <<queue, timer, received, awaited, accepted>>,
           sending' \subseteq sending, wire' \subseteq wire,
           stopping' \in {"no", "waiting", "done"}
    PROVE  IInv'
<1>1. TypeOK' /\ InOnePlace' /\ Provenance'
  BY DEF IInv, TypeOK, InOnePlace, Provenance
<1>2. IsFiniteSet(queue') /\ QueueBelowMaxSize'
  BY DEF IInv, QueueBelowMaxSize
<1>3. QED
  BY <1>1, <1>2 DEF IInv

(* Every step preserves the inductive invariant.                           *)
LEMMA NextIInv == IInv /\ [Next]_vars => IInv'
<1> SUFFICES ASSUME IInv, [Next]_vars PROVE IInv'
  OBVIOUS
<1>1. CASE Tick
  BY <1>1, FlushIInv DEF IInv, TypeOK, Tick
<1>2. CASE Stop
  BY <1>2, FlushIInv DEF IInv, TypeOK, Stop
<1>3. CASE StopReturns
  BY <1>3, LeavesIInv DEF StopReturns
<1>4. ASSUME NEW e \in Events, Enqueue(e) PROVE IInv'
  BY <1>4, EnqueueIInv
<1>5. ASSUME NEW e \in Events, Settle(e) \/ Lose(e) PROVE IInv'
  BY <1>5, LeavesIInv DEF Settle, Lose, IInv, TypeOK
<1>6. ASSUME NEW e \in Events, Receive(e) PROVE IInv'
  BY <1>6, ReceiveIInv
<1>7. CASE UNCHANGED vars
  BY <1>7, LeavesIInv DEF vars, IInv, TypeOK
<1>8. QED
  BY <1>1, <1>2, <1>3, <1>4, <1>5, <1>6, <1>7 DEF Next

(* The inductive invariant holds in every reachable state.                 *)
THEOREM Invariance == Spec => []IInv
BY InitIInv, NextIInv, PTL DEF Spec

-----------------------------------------------------------------------------

(* The buffer's variables have their types.                                *)
THEOREM TypeCorrect == Spec => []TypeOK
<1>1. IInv => TypeOK
  BY DEF IInv
<1>2. QED
  BY <1>1, Invariance, PTL

(* Between two steps the queue is shorter than bufferMaxSize.              *)
THEOREM MemoryBound == Spec => []QueueBelowMaxSize
<1>1. IInv => QueueBelowMaxSize
  BY DEF IInv
<1>2. QED
  BY <1>1, Invariance, PTL

(* Overlapping flushes never send an event twice.                          *)
THEOREM SentOnce == Spec => []InOnePlace
<1>1. IInv => InOnePlace
  BY DEF IInv
<1>2. QED
  BY <1>1, Invariance, PTL

(* The buffer implements the lossy channel: at most once, nothing invented.*)
THEOREM ImplementsChannel == Spec => ChannelSpec
<1>1. Init => Channel!Init
  BY DEF Init, Channel!Init
<1>2. IInv /\ [Next]_vars => [Channel!Next]_<<accepted, received>>
  <2> SUFFICES ASSUME IInv, [Next]_vars
               PROVE  Channel!Next \/ UNCHANGED <<accepted, received>>
    OBVIOUS
  <2>1. ASSUME NEW e \in Events, Enqueue(e) PROVE Channel!Next
    BY <2>1 DEF Enqueue, Channel!Next, Channel!Accept
  <2>2. ASSUME NEW e \in Events, Receive(e) PROVE Channel!Next
    <3>1. received[e] = 0 /\ received' = [received EXCEPT ![e] = 1]
      BY <2>2, ReceiveIInv
    <3>2. e \in accepted /\ UNCHANGED accepted
      BY <2>2 DEF IInv, Provenance, Receive
    <3>3. QED
      BY <3>1, <3>2 DEF Channel!Next, Channel!Deliver
  <2>3. CASE \/ Tick \/ Stop \/ StopReturns \/ UNCHANGED vars
             \/ \E e \in Events : Settle(e) \/ Lose(e)
    BY <2>3 DEF Tick, Stop, StopReturns, vars, Settle, Lose
  <2>4. QED
    BY <2>1, <2>2, <2>3 DEF Next
<1>3. QED
  BY <1>1, <1>2, Invariance, PTL DEF Spec, ChannelSpec, Channel!Spec

-----------------------------------------------------------------------------
(* The buffer on top of the transport                                      *)

(* What the transport does to the events' calls, it does to the buffer.    *)
LEMMA FollowsBuffer ==
    ASSUME NEW e \in Events, Follows(e)
    PROVE  [Next]_vars
BY DEF Follows, Next

(* Every step of the composition is a step of the buffer or leaves it      *)
(* alone.                                                                  *)
LEMMA DeliveryStep ==
    ASSUME [DeliveryNext]_deliveryVars
    PROVE  [Next]_vars
<1>1. CASE DeliverTick \/ DeliverStop \/ DeliverStopReturns
  BY <1>1 DEF DeliverTick, DeliverStop, DeliverStopReturns, Next
<1>2. ASSUME NEW e \in Events, DeliverEnqueue(e) \/ Wire(e) PROVE Next
  BY <1>2 DEF DeliverEnqueue, Wire, Next
<1>3. ASSUME NEW e \in Events, NEW status \in {"ok", "bad"},
             CallTimeout(e) \/ CallEnds(e) \/ CallHeaders(e, status)
      PROVE  [Next]_vars
  BY <1>3, FollowsBuffer DEF CallTimeout, CallEnds, CallHeaders
<1>4. CASE UNCHANGED deliveryVars
  BY <1>4 DEF deliveryVars
<1>5. QED
  BY <1>1, <1>2, <1>3, <1>4 DEF DeliveryNext

(* The composition implements the buffer, so what is proved above of the   *)
(* buffer holds of the composition.                                        *)
THEOREM ImplementsBuffer == DeliverySpec => Spec
<1>1. DeliveryInit => Init
  BY DEF DeliveryInit
<1>2. [DeliveryNext]_deliveryVars => [Next]_vars
  BY DeliveryStep
<1>3. QED
  BY <1>1, <1>2, PTL DEF DeliverySpec, Spec

(* In particular its bound and its promise to the collector.               *)
THEOREM DeliveryBoundAndChannel ==
    DeliverySpec => []QueueBelowMaxSize /\ ChannelSpec
BY ImplementsBuffer, MemoryBound, ImplementsChannel, PTL

-----------------------------------------------------------------------------

(* Over fetch() a call that is neither late nor well answered is timed,    *)
(* which is why the timer can settle it.                                   *)
Timed == \A e \in Events :
    ~tls /\ promise[e] = "pending" /\ ~late[e] /\ answer[e].status # "ok"
      => abort[e]

(* The inductive invariant of the calls.                                   *)
CallInv == Call!TypeOK /\ NothingLeftArmed /\ BudgetUntilGoodStatus /\ Timed

LEMMA InitCallInv == DeliveryInit => CallInv
BY DEF DeliveryInit, CallInv, Call!Init, Call!TypeOK, NothingLeftArmed,
       Call!NothingLeftArmed, BudgetUntilGoodStatus,
       Call!BudgetUntilGoodStatus, Timed, Call!NoAnswer, Call!AnswerShape

(* Calls are made, each with its timer.                                    *)
LEMMA BeginCallInv ==
    ASSUME CallInv, NEW C \in SUBSET Events, Call!BeginCalls(C)
    PROVE  CallInv'
<1> USE DEF CallInv, Call!BeginCalls, Call!TypeOK, Call!NoAnswer,
            Call!AnswerShape, Call!Settled
<1>1. Call!TypeOK'
  OBVIOUS
<1>2. NothingLeftArmed' /\ BudgetUntilGoodStatus' /\ Timed'
  BY DEF NothingLeftArmed, Call!NothingLeftArmed, BudgetUntilGoodStatus,
         Call!BudgetUntilGoodStatus, Timed
<1>3. QED
  BY <1>1, <1>2

(* A step of the transport that touches call e alone.                      *)
LEMMA CallStepCallInv ==
    ASSUME CallInv, NEW e \in Events,
           \/ Call!TimeoutPasses(e)
           \/ Call!ExchangeEnds(e)
           \/ \E status \in {"ok", "bad"} : Call!Headers(e, status)
    PROVE  CallInv'
<1> USE DEF CallInv, Call!TypeOK, Call!AnswerShape, Call!Settled, Call!Open,
            Call!Bodies, NothingLeftArmed, Call!NothingLeftArmed,
            BudgetUntilGoodStatus, Call!BudgetUntilGoodStatus, Timed
<1> DEFINE closed == [answer EXCEPT ![e].closed = TRUE]
<1>0. /\ closed \in [Events -> Call!AnswerShape]
      /\ \A c \in Events : closed[c].status = answer[c].status
  OBVIOUS
<1> HIDE DEF closed
<1>1. CASE Call!TimeoutPasses(e)
  <2>1. /\ late' = [late EXCEPT ![e] = TRUE]
        /\ abort' = [abort EXCEPT ![e] = FALSE]
        /\ tls' = tls
    BY <1>1 DEF Call!TimeoutPasses
  <2>2. CASE abort[e] /\ ~tls /\ promise[e] = "pending"
    <3>1. promise' = [promise EXCEPT ![e] = "rejected"] /\ answer' = closed
      BY <1>1, <2>2 DEF Call!TimeoutPasses, closed
    <3>2. QED
      BY <1>0, <2>1, <2>2, <3>1
  <2>3. CASE ~(abort[e] /\ ~tls /\ promise[e] = "pending")
    <3>1. UNCHANGED <<promise, answer>> /\ promise[e] # "none" /\ ~late[e]
      BY <1>1, <2>3 DEF Call!TimeoutPasses
    <3>2. QED
      BY <2>1, <2>3, <3>1
  <2>4. QED
    BY <2>2, <2>3
<1>2. CASE Call!Fails(e)
  BY <1>2 DEF Call!Fails, Call!Settle
<1>3. CASE Call!ClosesEarly(e)
  <2>1. answer' = closed /\ UNCHANGED <<tls, late>>
    BY <1>3 DEF Call!ClosesEarly, closed
  <2>2. CASE UNCHANGED <<promise, abort>>
    BY <1>0, <2>1, <2>2
  <2>3. CASE Call!Settle(e, "rejected")
    BY <1>0, <2>1, <2>3 DEF Call!Settle
  <2>4. QED
    BY <1>3, <2>2, <2>3 DEF Call!ClosesEarly
<1>4. ASSUME NEW body \in Call!Bodies, Call!Ends(e, body) PROVE CallInv'
  BY <1>4 DEF Call!Ends, Call!Settle, Call!Outcome
<1>5. ASSUME NEW status \in {"ok", "bad"}, Call!Headers(e, status)
      PROVE  CallInv'
  BY <1>5 DEF Call!Headers, Call!ClearsTimer
<1>6. QED
  BY <1>1, <1>2, <1>3, <1>4, <1>5 DEF Call!ExchangeEnds

(* Every step of the composition preserves the invariant of the calls.     *)
LEMMA NextCallInv ==
    TypeOK' /\ CallInv /\ [DeliveryNext]_deliveryVars => CallInv'
<1> SUFFICES ASSUME TypeOK', CallInv, [DeliveryNext]_deliveryVars
             PROVE  CallInv'
  OBVIOUS
<1>1. CASE CallsMade
  <2>1. sending' \ sending \in SUBSET Events
    BY DEF TypeOK
  <2>2. QED
    BY <1>1, <2>1, BeginCallInv DEF CallsMade
<1>2. CASE UNCHANGED callVars
  BY <1>2 DEF callVars, CallInv, Call!TypeOK, NothingLeftArmed,
     Call!NothingLeftArmed, BudgetUntilGoodStatus,
     Call!BudgetUntilGoodStatus, Timed, Call!Settled
<1>3. ASSUME NEW e \in Events, NEW status \in {"ok", "bad"},
             CallTimeout(e) \/ CallEnds(e) \/ CallHeaders(e, status)
      PROVE  CallInv'
  BY <1>3, CallStepCallInv DEF CallTimeout, CallEnds, CallHeaders
<1>4. QED
  BY <1>1, <1>2, <1>3 DEF DeliveryNext, DeliverTick, DeliverStop,
     DeliverStopReturns, DeliverEnqueue, Wire, deliveryVars

(* It holds in every reachable state.                                      *)
THEOREM CallInvariance == DeliverySpec => []CallInv
<1>1. Spec => []TypeOK
  BY TypeCorrect
<1>2. QED
  BY <1>1, ImplementsBuffer, InitCallInv, NextCallInv, PTL DEF DeliverySpec

(* Whatever settles a call leaves no timer behind.                         *)
THEOREM NoTimerLeft == DeliverySpec => []NothingLeftArmed
<1>1. CallInv => NothingLeftArmed
  BY DEF CallInv
<1>2. QED
  BY <1>1, CallInvariance, PTL

(* A call over fetch() without a good status does not outlive its time.    *)
THEOREM HeldToBudget == DeliverySpec => []BudgetUntilGoodStatus
<1>1. CallInv => BudgetUntilGoodStatus
  BY DEF CallInv
<1>2. QED
  BY <1>1, CallInvariance, PTL

(* The buffer waits for an event exactly as long as its call is pending,   *)
(* and the connection of a pending call over fetch() is open.              *)
InStep == \A e \in Events :
    /\ e \in sending <=> promise[e] = "pending"
    /\ ~tls /\ promise[e] = "pending" => ~answer[e].closed

LEMMA InitInStep == DeliveryInit => InStep
BY DEF DeliveryInit, Init, InStep, Call!Init

(* A step of the transport ends a call where the buffer stops waiting for  *)
(* it, and over fetch() no connection closes without ending its call.      *)
LEMMA CallStepInStep ==
    ASSUME TypeOK, CallInv, InStep, NEW e \in Events, Follows(e),
           \/ Call!TimeoutPasses(e)
           \/ Call!ExchangeEnds(e)
           \/ \E status \in {"ok", "bad"} : Call!Headers(e, status)
    PROVE  InStep'
<1>1. /\ promise \in [Events -> {"none", "pending", "resolved", "rejected"}]
      /\ answer \in [Events -> Call!AnswerShape]
  BY DEF CallInv, Call!TypeOK
<1>2. /\ tls' = tls
      /\ \A c \in Events \ {e} : promise'[c] = promise[c] /\ answer'[c] = answer[c]
  BY <1>1 DEF Call!TimeoutPasses, Call!ExchangeEnds, Call!Headers, Call!Fails,
     Call!ClosesEarly, Call!Ends, Call!Settle
<1>3. \/ promise'[e] = promise[e] /\ (~tls => answer'[e].closed = answer[e].closed)
      \/ promise[e] = "pending" /\ promise'[e] # "pending"
  <2>1. CASE Call!TimeoutPasses(e)
    BY <1>1, <2>1 DEF Call!TimeoutPasses
  <2>2. CASE \E status \in {"ok", "bad"} : Call!Headers(e, status)
    BY <1>1, <2>2 DEF Call!Headers, Call!AnswerShape
  <2>3. CASE Call!Fails(e)
    BY <1>1, <2>3 DEF Call!Fails, Call!Settle, Call!Open
  <2>4. CASE Call!ClosesEarly(e)
    BY <1>1, <2>4 DEF Call!ClosesEarly, Call!Settle, Call!Open
  <2>5. ASSUME NEW body \in Call!Bodies, Call!Ends(e, body)
        PROVE  promise[e] = "pending" /\ promise'[e] # "pending"
    BY <1>1, <2>5 DEF Call!Ends, Call!Settle, Call!Open, Call!Outcome
  <2>6. QED
    BY <2>1, <2>2, <2>3, <2>4, <2>5 DEF Call!ExchangeEnds
<1>4. sending' = IF promise[e] = "pending" /\ promise'[e] # "pending"
                 THEN sending \ {e} ELSE sending
  BY DEF Follows, Settle, vars
<1>5. QED
  BY <1>2, <1>3, <1>4 DEF InStep

(* What else happens makes calls for what the buffer sends, or none.       *)
LEMMA NextInStep ==
    TypeOK /\ CallInv /\ InStep /\ [DeliveryNext]_deliveryVars => InStep'
<1> SUFFICES ASSUME TypeOK, CallInv, InStep, [DeliveryNext]_deliveryVars
             PROVE  InStep'
  OBVIOUS
<1>1. CASE CallsMade /\ sending \subseteq sending'
  <2>1. /\ promise' = [c \in Events |-> IF c \in sending' \ sending
                                        THEN "pending" ELSE promise[c]]
        /\ answer' = [c \in Events |-> IF c \in sending' \ sending
                                       THEN Call!NoAnswer ELSE answer[c]]
        /\ tls' = tls
    BY <1>1 DEF CallsMade, Call!BeginCalls
  <2>2. QED
    BY <1>1, <2>1 DEF InStep, Call!NoAnswer
<1>2. CASE UNCHANGED <<sending, callVars>>
  BY <1>2 DEF callVars, InStep
<1>3. ASSUME NEW e \in Events, NEW status \in {"ok", "bad"},
             CallTimeout(e) \/ CallEnds(e) \/ CallHeaders(e, status)
      PROVE  InStep'
  BY <1>3, CallStepInStep DEF CallTimeout, CallEnds, CallHeaders
<1>4. CASE DeliverTick \/ DeliverStop \/ \E e \in Events : DeliverEnqueue(e)
  <2>1. CallsMade /\ sending \subseteq sending'
    BY <1>4 DEF DeliverTick, DeliverStop, DeliverEnqueue, Tick, Stop, Enqueue, Flush
  <2>2. QED
    BY <1>1, <2>1
<1>5. CASE DeliverStopReturns \/ UNCHANGED deliveryVars \/ \E e \in Events : Wire(e)
  <2>1. UNCHANGED <<sending, callVars>>
    BY <1>5 DEF DeliverStopReturns, StopReturns, deliveryVars, vars, Wire, Receive, Lose
  <2>2. QED
    BY <1>2, <2>1
<1>6. QED
  BY <1>3, <1>4, <1>5 DEF DeliveryNext

(* What stop() over fetch() still waits for can go on: each of its calls   *)
(* is open, and either timed or reading the body of a good answer.  This   *)
(* is the part of StopTerminatesOverFetch that does not depend on          *)
(* fairness.                                                               *)
NeverStuckOverFetch ==
    stopping = "waiting" /\ ~tls =>
        \A e \in awaited \cap sending :
            Call!Open(e) /\ (abort[e] \/ answer[e].status = "ok")

(* So stop() is never stuck over fetch(), whatever the collector does.     *)
THEOREM StopIsNeverStuck == DeliverySpec => []NeverStuckOverFetch
<1>1. TypeOK /\ CallInv /\ InStep => NeverStuckOverFetch
  <2> SUFFICES ASSUME TypeOK, CallInv, InStep, ~tls, NEW e \in awaited \cap sending
               PROVE  Call!Open(e) /\ (abort[e] \/ answer[e].status = "ok")
    BY DEF NeverStuckOverFetch
  <2>1. e \in Events /\ promise[e] = "pending" /\ ~answer[e].closed
    BY DEF TypeOK, InStep
  <2>2. ~late[e] \/ answer[e].status = "ok"
    BY <2>1 DEF CallInv, BudgetUntilGoodStatus, Call!BudgetUntilGoodStatus, Call!Settled
  <2>3. QED
    BY <2>1, <2>2 DEF CallInv, Timed, Call!Open
<1>2. DeliverySpec => []TypeOK
  BY ImplementsBuffer, TypeCorrect, PTL
<1>3. DeliverySpec => []InStep
  BY <1>2, CallInvariance, InitInStep, NextInStep, PTL DEF DeliverySpec
<1>4. QED
  BY <1>1, <1>2, <1>3, CallInvariance, PTL

-----------------------------------------------------------------------------
(* The redaction audit log                                                 *)

(* The counter that decides about rotation is the size of the file that is *)
(* open, after failed rotations, failed writes, close() and restarts.      *)
CounterIsFileSize ==
    "stat" \notin faults /\ open => currentBytes = disk[Live].bytes

(* What a disk d must look like when the process has rotated k times and w *)
(* entries have been written: the process's own entries are in the files   *)
(* it has made and in the live one, each in one of them, in order.         *)
Arranged(d, k, w) ==
    /\ \A i \in Files : \A n \in d[i].entries :
         n <= w /\ (i > k => n <= inherited)
    /\ \A n \in inherited + 1 .. w : \E i \in Files :
         n \in d[i].entries /\ \A j \in Files : n \in d[j].entries => j = i
    /\ \A i, j \in Files :
         (i # Live /\ (i < j \/ j = Live)) =>
            \A m \in d[i].entries, n \in d[j].entries :
                (m > inherited /\ n > inherited) => m < n

(* The inductive invariant.  That nothing is lost or out of order is not   *)
(* inductive: a rotation must not hit a file with entries of this process, *)
(* which is so because all files above rotationIndex have none.            *)
LogIInv ==
    /\ LogTypeOK
    /\ CounterIsFileSize
    /\ LiveFileBounded
    /\ Arranged(disk, rotationIndex, written)

-----------------------------------------------------------------------------

(* The initial state satisfies the inductive invariant.                    *)
LEMMA LogInitIInv == LogInit => LogIInv
<1> SUFFICES ASSUME LogInit PROVE LogIInv
  OBVIOUS
<1>1. LogTypeOK
  <2>1. EmptyFile \in FileShape
    BY DEF FileShape, EmptyFile
  <2>2. disk \in [Files -> FileShape]
    BY <2>1 DEF LogInit
  <2>3. /\ 0 \in 0 .. MaxRotations /\ 0 \in 0 .. MaxEntries
        /\ 0 \in 0 .. 0 /\ 1 \in 1 .. MaxProcesses
    BY BoundsAssumption
  <2>4. QED
    BY <2>2, <2>3 DEF LogInit, LogTypeOK
<1>2. CounterIsFileSize /\ LiveFileBounded
  BY SizeAssumption
     DEF LogInit, CounterIsFileSize, LiveFileBounded, Files, Live, EmptyFile
<1>3. Arranged(disk, rotationIndex, written)
  BY DEF LogInit, Arranged, EmptyFile
<1>4. QED
  BY <1>1, <1>2, <1>3 DEF LogIInv

(* A file, before and after a line is appended to it.                      *)
LEMMA AppendedShape ==
    ASSUME written \in Nat, written < MaxEntries, NEW f \in FileShape,
           NEW size \in Nat, NEW stored \in BOOLEAN, MaxEntries \in Nat
    PROVE  Appended(f, size, stored) \in FileShape
BY DEF Appended, FileShape

(* Appending to the live file of an arranged disk leaves it arranged: the  *)
(* new entry is later than all others.                                     *)
LEMMA AppendArranged ==
    ASSUME LogTypeOK, NEW d \in [Files -> FileShape], NEW k \in 0 .. MaxRotations,
           Arranged(d, k, written), NEW size \in Sizes, NEW stored \in BOOLEAN,
           NEW e, e = [d EXCEPT ![Live] = Appended(@, size, stored)],
           NEW w, w = IF stored THEN written + 1 ELSE written
    PROVE  Arranged(e, k, w)
<1>1. Live \in Files /\ Live = 0 /\ \A i \in Files : i \in Nat
  BY DEF Files, Live, Rotated
<1>2. CASE ~stored
  <2>1. e = d /\ w = written
    BY <1>1, <1>2 DEF Appended
  <2>2. QED
    BY <2>1
<1>3. CASE stored
  <2>1. w = written + 1 /\ written \in Nat /\ inherited \in Nat
    BY <1>3 DEF LogTypeOK
  <2>2. /\ e[Live].entries = d[Live].entries \cup {w}
        /\ \A i \in Files \ {Live} : e[i] = d[i]
    BY <1>1, <1>3, <2>1 DEF Appended
  <2>3. \A i \in Files : \A n \in d[i].entries :
           n \in Nat /\ n <= written /\ (i > k => n <= inherited)
    BY DEF Arranged, FileShape
  <2>4. \A i \in Files : \A n \in e[i].entries :
           n <= w /\ (i > k => n <= inherited)
    BY <1>1, <2>1, <2>2, <2>3
  <2>5. ASSUME NEW n \in inherited + 1 .. w
        PROVE  \E i \in Files : n \in e[i].entries
                    /\ \A j \in Files : n \in e[j].entries => j = i
    <3>1. CASE n = w
      BY <1>1, <2>1, <2>2, <2>3, <3>1
    <3>2. CASE n # w
      <4>1. n \in inherited + 1 .. written
        BY <2>1, <3>2
      <4>2. PICK i \in Files : n \in d[i].entries
                /\ \A j \in Files : n \in d[j].entries => j = i
        BY <4>1 DEF Arranged
      <4>3. \A j \in Files : n \in e[j].entries <=> n \in d[j].entries
        BY <1>1, <2>2, <3>2
      <4>4. QED
        BY <4>2, <4>3
    <3>3. QED
      BY <3>1, <3>2
  <2>6. ASSUME NEW i \in Files, NEW j \in Files, i # Live, i < j \/ j = Live,
               NEW m \in e[i].entries, NEW n \in e[j].entries,
               m > inherited, n > inherited
        PROVE  m < n
    <3>1. m \in d[i].entries /\ m <= written /\ m \in Nat
      BY <2>2, <2>3, <2>6
    <3>2. CASE n = w
      BY <2>1, <3>1, <3>2
    <3>3. CASE n # w
      <4>1. n \in d[j].entries
        BY <1>1, <2>2, <3>3
      <4>2. QED
        BY <2>6, <3>1, <4>1 DEF Arranged
    <3>4. QED
      BY <3>2, <3>3
  <2>7. QED
    BY <2>4, <2>5, <2>6 DEF Arranged
<1>4. QED
  BY <1>2, <1>3

(* Rotation moves the live file to a name above all others of the process. *)
LEMMA RotateArranged ==
    ASSUME LogTypeOK, Arranged(disk, rotationIndex, written),
           rotationIndex < MaxRotations, NEW renamed \in BOOLEAN,
           NEW e, e = RotatedDisk(renamed)
    PROVE  /\ e \in [Files -> FileShape]
           /\ NextIndex \in 0 .. MaxRotations
           /\ renamed => e[Live] = EmptyFile
           /\ ~renamed => e = disk
           /\ Arranged(e, NextIndex, written)
<1> DEFINE k == NextIndex
<1>1. /\ Live \in Files /\ Live = 0 /\ \A i \in Files : i \in Nat
      /\ k \in Files /\ k # Live /\ k = rotationIndex + 1
      /\ rotationIndex \in Nat /\ k \in 0 .. MaxRotations
  BY BoundsAssumption DEF Files, Live, Rotated, LogTypeOK, NextIndex
<1>2. EmptyFile \in FileShape /\ EmptyFile.entries = {}
  BY DEF FileShape, EmptyFile
<1>3. disk \in [Files -> FileShape] /\ inherited \in Nat /\ written \in Nat
  BY DEF LogTypeOK
<1>4. \A i \in Files : \A n \in disk[i].entries :
         n \in Nat /\ n <= written /\ (i > rotationIndex => n <= inherited)
  BY <1>3 DEF Arranged, FileShape
<1>5. CASE ~renamed
  <2>1. e = disk
    BY <1>5 DEF RotatedDisk
  <2>2. \A i \in Files : i > k => i > rotationIndex
    BY <1>1
  <2>3. Arranged(e, k, written)
    BY <2>1, <2>2, <1>4 DEF Arranged
  <2>4. QED
    BY <1>1, <1>3, <1>5, <2>1, <2>3
<1>6. CASE renamed
  <2>1. e = [disk EXCEPT ![k] = disk[Live], ![Live] = EmptyFile]
    BY <1>6 DEF RotatedDisk
  <2> HIDE DEF k
  <2>2. /\ e \in [Files -> FileShape] /\ e[Live] = EmptyFile
        /\ e[k] = disk[Live] /\ \A i \in Files \ {Live, k} : e[i] = disk[i]
    BY <1>1, <1>2, <1>3, <2>1
  <2>3. \A i \in Files : \A n \in e[i].entries :
           n <= written /\ (i > k => n <= inherited)
    BY <1>1, <1>2, <1>4, <2>2
  <2>4. ASSUME NEW n \in inherited + 1 .. written
        PROVE  \E i \in Files : n \in e[i].entries
                    /\ \A j \in Files : n \in e[j].entries => j = i
    <3>1. PICK i \in Files : n \in disk[i].entries
              /\ \A j \in Files : n \in disk[j].entries => j = i
      BY DEF Arranged
    <3>2. n > inherited /\ i # k
      BY <1>1, <1>3, <1>4, <3>1
    <3>3. CASE i = Live
      BY <1>1, <1>2, <2>2, <3>1, <3>3
    <3>4. CASE i # Live
      BY <1>1, <1>2, <2>2, <3>1, <3>2, <3>4
    <3>5. QED
      BY <3>3, <3>4
  <2>5. ASSUME NEW i \in Files, NEW j \in Files, i # Live, i < j \/ j = Live,
               NEW m \in e[i].entries, NEW n \in e[j].entries,
               m > inherited, n > inherited
        PROVE  m < n
    <3>1. j # Live
      BY <1>2, <2>2
    <3>2. j <= k
      BY <1>1, <1>3, <1>4, <2>2, <3>1, <2>5
    <3>3. i < k /\ i # k
      BY <1>1, <2>5, <3>1, <3>2
    <3>4. m \in disk[i].entries
      BY <2>2, <2>5, <3>3
    <3>5. CASE j = k
      BY <1>1, <2>2, <2>5, <3>4, <3>5 DEF Arranged
    <3>6. CASE j # k
      BY <1>1, <2>2, <2>5, <3>1, <3>4, <3>6 DEF Arranged
    <3>7. QED
      BY <3>5, <3>6
  <2>6. Arranged(e, k, written)
    BY <2>3, <2>4, <2>5 DEF Arranged
  <2>7. QED
    BY <1>1, <1>6, <2>2, <2>6 DEF k
<1>7. QED
  BY <1>5, <1>6

-----------------------------------------------------------------------------

(* What ensureOpen() may read: the size of the file, unless stat fails.    *)
LEMMA SeenSize ==
    ASSUME LogIInv, NEW seen \in Seen
    PROVE  seen \in Nat /\ ("stat" \notin faults => seen = disk[Live].bytes)
BY DEF LogIInv, LogTypeOK, CounterIsFileSize, Seen, StatSizes, Files, FileShape

(* A line that fits is appended.                                           *)
LEMMA AppendIInv ==
    ASSUME LogIInv, NEW size \in Sizes, NEW seen \in Seen, NEW stored \in BOOLEAN,
           Append(size, seen, stored)
    PROVE  LogIInv'
<1>1. /\ seen \in Nat /\ ("stat" \notin faults => seen = disk[Live].bytes)
      /\ size \in Nat /\ Live \in Files /\ ~(seen + size > MaxBytes)
  BY SeenSize, SizeAssumption DEF Files, Append, CrossesLimit
<1>2. disk' \in [Files -> FileShape]
  BY <1>1, AppendedShape, BoundsAssumption DEF LogIInv, LogTypeOK, Append
<1>3. LogTypeOK'
  BY <1>1, <1>2, BoundsAssumption DEF LogIInv, LogTypeOK, Append
<1>4. /\ currentBytes' = IF stored THEN seen + size ELSE seen
      /\ disk'[Live] = Appended(disk[Live], size, stored)
      /\ faults' = faults
  BY <1>1 DEF LogIInv, LogTypeOK, Append
<1>5. CounterIsFileSize'
  BY <1>1, <1>4 DEF Appended, CounterIsFileSize
<1>6. LiveFileBounded'
  BY <1>1, <1>4, SizeAssumption DEF Appended, LiveFileBounded
<1>7. Arranged(disk', rotationIndex, written')
  BY AppendArranged DEF LogIInv, LogTypeOK, Append
<1>8. Arranged(disk, rotationIndex, written)'
  BY <1>7 DEF Arranged, Append
<1>9. QED
  BY <1>3, <1>5, <1>6, <1>8 DEF LogIInv

(* A line that does not fit makes the log rotate.                          *)
LEMMA RotateAndAppendIInv ==
    ASSUME LogIInv, NEW size \in Sizes, NEW seen \in Seen, NEW renamed \in BOOLEAN,
           NEW stored \in BOOLEAN, RotateAndAppend(size, seen, renamed, stored)
    PROVE  LogIInv'
<1> DEFINE e == RotatedDisk(renamed)
<1>1. /\ written < MaxEntries /\ rotationIndex < MaxRotations
      /\ renamed \/ "rename" \in faults
      /\ rotationIndex' = NextIndex /\ UNCHANGED <<inherited, process, faults>>
      /\ open' = TRUE /\ disk' = [e EXCEPT ![Live] = Appended(@, size, stored)]
      /\ written' = IF stored THEN written + 1 ELSE written
  BY DEF Rotates, RotateAndAppend
<1>2. PICK reopened \in StatSizes(e[Live]) :
         currentBytes' = IF stored THEN reopened + size ELSE reopened
  BY DEF RotateAndAppend
<1>3. /\ e \in [Files -> FileShape] /\ NextIndex \in 0 .. MaxRotations
      /\ renamed => e[Live] = EmptyFile
      /\ Arranged(e, NextIndex, written)
  BY <1>1, RotateArranged DEF LogIInv
<1> HIDE DEF e
<1>4. /\ Live \in Files /\ size \in Nat /\ reopened \in Nat
      /\ "stat" \notin faults => reopened = e[Live].bytes
  BY <1>2, <1>3, SizeAssumption DEF Files, StatSizes, FileShape
<1>5. disk' \in [Files -> FileShape]
  BY <1>1, <1>3, <1>4, AppendedShape, BoundsAssumption DEF LogIInv, LogTypeOK
<1>6. LogTypeOK'
  BY <1>1, <1>2, <1>3, <1>4, <1>5, BoundsAssumption DEF LogIInv, LogTypeOK
<1>7. disk'[Live] = Appended(e[Live], size, stored)
  BY <1>1, <1>3, <1>4
<1>8. CounterIsFileSize'
  BY <1>1, <1>2, <1>4, <1>7 DEF Appended, CounterIsFileSize
<1>9. LiveFileBounded'
  <2>1. CASE renamed
    BY <1>3, <1>7, <2>1, SizeAssumption DEF Appended, LiveFileBounded, EmptyFile
  <2>2. CASE ~renamed
    BY <1>1, <2>2 DEF LiveFileBounded
  <2>3. QED
    BY <2>1, <2>2
<1>10. Arranged(disk', NextIndex, written')
  BY <1>1, <1>3, AppendArranged DEF LogIInv
<1>11. Arranged(disk, rotationIndex, written)'
  BY <1>1, <1>10 DEF Arranged
<1>12. QED
  BY <1>6, <1>8, <1>9, <1>11 DEF LogIInv

(* A rotation after which the file cannot be opened.                       *)
LEMMA RotateWithoutReopeningIInv ==
    ASSUME LogIInv, NEW size \in Sizes, NEW seen \in Seen, NEW renamed \in BOOLEAN,
           RotateWithoutReopening(size, seen, renamed)
    PROVE  LogIInv'
<1>1. /\ rotationIndex < MaxRotations /\ (renamed \/ "rename" \in faults)
      /\ rotationIndex' = NextIndex /\ disk' = RotatedDisk(renamed)
      /\ open' = FALSE /\ currentBytes' = 0
      /\ UNCHANGED <<written, inherited, process, faults>>
  BY DEF Rotates, RotateWithoutReopening
<1>2. /\ disk' \in [Files -> FileShape] /\ NextIndex \in 0 .. MaxRotations
      /\ renamed => disk'[Live] = EmptyFile
      /\ Arranged(disk', NextIndex, written)
  BY <1>1, RotateArranged DEF LogIInv
<1>3. LogTypeOK'
  BY <1>1, <1>2 DEF LogIInv, LogTypeOK
<1>4. CounterIsFileSize' /\ LiveFileBounded'
  BY <1>1, <1>2, SizeAssumption
     DEF CounterIsFileSize, LiveFileBounded, EmptyFile
<1>5. Arranged(disk, rotationIndex, written)'
  BY <1>1, <1>2 DEF Arranged
<1>6. QED
  BY <1>3, <1>4, <1>5 DEF LogIInv

(* close() and a restart leave the files alone; after a restart all        *)
(* entries are inherited.                                                  *)
LEMMA CloseOrRestartIInv ==
    ASSUME LogIInv, Close \/ Restart
    PROVE  LogIInv'
<1>1. UNCHANGED <<disk, written, faults>> /\ open' = FALSE
  BY DEF Close, Restart
<1>2. LogTypeOK'
  <2>1. CASE Close
    BY <2>1 DEF LogIInv, LogTypeOK, Close
  <2>2. CASE Restart
    <3>1. /\ process + 1 \in 1 .. MaxProcesses /\ 0 \in 0 .. MaxRotations
          /\ written \in 0 .. written
      BY <2>2, BoundsAssumption DEF LogIInv, LogTypeOK, Restart
    <3>2. QED
      BY <2>2, <3>1 DEF LogIInv, LogTypeOK, Restart
  <2>3. QED
    BY <2>1, <2>2
<1>3. CounterIsFileSize' /\ LiveFileBounded'
  BY <1>1 DEF LogIInv, CounterIsFileSize, LiveFileBounded
<1>4. \A i \in Files : \A n \in disk[i].entries : n \in Nat /\ n <= written
  BY DEF LogIInv, LogTypeOK, Arranged, FileShape
<1>5. Arranged(disk, rotationIndex, written)'
  <2>1. CASE Close
    BY <2>1 DEF LogIInv, Close, Arranged
  <2>2. CASE Restart
    <3>1. disk' = disk /\ written' = written /\ inherited' = written
      BY <2>2 DEF Restart
    <3>2. inherited' + 1 .. written' = {}
      BY <3>1 DEF LogIInv, LogTypeOK
    <3>3. \A i \in Files : \A n \in disk[i].entries : ~(n > inherited')
      BY <1>4, <3>1 DEF LogIInv, LogTypeOK
    <3>4. QED
      BY <1>4, <3>1, <3>2, <3>3 DEF Arranged
  <2>3. QED
    BY <2>1, <2>2
<1>6. QED
  BY <1>2, <1>3, <1>5 DEF LogIInv

(* Every step preserves the inductive invariant.                           *)
LEMMA LogNextIInv == LogIInv /\ [LogNext]_logVars => LogIInv'
<1> SUFFICES ASSUME LogIInv, [LogNext]_logVars PROVE LogIInv'
  OBVIOUS
<1>1. CASE UNCHANGED logVars
  BY <1>1 DEF logVars, LogIInv, LogTypeOK, CounterIsFileSize, LiveFileBounded, Arranged
<1>2. CASE LogNext
  BY <1>2, AppendIInv, RotateAndAppendIInv, RotateWithoutReopeningIInv,
     CloseOrRestartIInv DEF LogNext
<1>3. QED
  BY <1>1, <1>2

(* The inductive invariant holds in every reachable state.                 *)
THEOREM LogInvariance == LogSpec => []LogIInv
BY LogInitIInv, LogNextIInv, PTL DEF LogSpec

-----------------------------------------------------------------------------

(* The log's variables have their types.                                   *)
THEOREM LogTypeCorrect == LogSpec => []LogTypeOK
<1>1. LogIInv => LogTypeOK
  BY DEF LogIInv
<1>2. QED
  BY <1>1, LogInvariance, PTL

(* The counter that decides about rotation does not drift.                 *)
THEOREM CounterCorrect == LogSpec => []CounterIsFileSize
<1>1. LogIInv => CounterIsFileSize
  BY DEF LogIInv
<1>2. QED
  BY <1>1, LogInvariance, PTL

(* As long as nothing fails the live file stays within its limit.          *)
THEOREM SizeBound == LogSpec => []LiveFileBounded
<1>1. LogIInv => LiveFileBounded
  BY DEF LogIInv
<1>2. QED
  BY <1>1, LogInvariance, PTL

(* A process keeps every audit entry it has written, in one file.          *)
THEOREM KeepsOwnEntries == LogSpec => []NothingLostWithinProcess
<1>1. LogIInv => NothingLostWithinProcess
  BY DEF LogIInv, Arranged, NothingLostWithinProcess, Own
<1>2. QED
  BY <1>1, LogInvariance, PTL

(* The files of a process are in order.                                    *)
THEOREM KeepsOrder == LogSpec => []FilesInOrder
<1>1. LogIInv => FilesInOrder
  BY DEF LogIInv, LogTypeOK, Arranged, FilesInOrder, Own
<1>2. QED
  BY <1>1, LogInvariance, PTL
=============================================================================
