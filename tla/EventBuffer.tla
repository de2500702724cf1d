---------------------------- MODULE EventBuffer ----------------------------
(***************************************************************************)
(* EventBuffer (transport/buffer.ts) and the fate of the requests it makes *)
(* with TransportClient.sendEvent (transport/client.ts).                   *)
(*                                                                         *)
(* enqueue() and the interval timer both flush.  A flush empties the queue *)
(* in one synchronous step and sends every event in a request of its own,  *)
(* all in parallel; flushes do not wait for each other.  A request settles *)
(* for the agent when it is answered, fails or times out; one that timed   *)
(* out may still reach the collector later.  A failed event is dropped.    *)
(***************************************************************************)
EXTENDS Integers, FiniteSets

CONSTANTS
    Events,   \* the events the agent may produce, each once
    MaxSize   \* cfg.bufferMaxSize

ASSUME MaxSizeAssumption == MaxSize \in Nat \ {0}

VARIABLES
    queue,     \* buffer.queue; its order is not observable
    timer,     \* buffer.timer is armed
    sending,   \* events whose request has not settled
    wire,      \* events whose request may still reach the collector
    received,  \* how often the collector received each event
    stopping,  \* "no", "waiting" while stop() awaits, "done" once it returned
    awaited,   \* the events whose requests stop() awaits
    accepted   \* the events enqueued so far

vars == <<queue, timer, sending, wire, received, stopping, awaited, accepted>>

-----------------------------------------------------------------------------

(* flush() of a queue q: take all of it and send every event.              *)
Flush(q) ==
    /\ queue' = {}
    /\ sending' = sending \cup q
    /\ wire' = wire \cup q

(* As Enqueue, flushing only above MaxSize.                                *)
EnqueueOneLate(e) ==
    /\ e \notin accepted
    /\ accepted' = accepted \cup {e}
    /\ IF Cardinality(queue \cup {e}) > MaxSize
       THEN Flush(queue \cup {e})
       ELSE /\ queue' = queue \cup {e}
            /\ UNCHANGED <<sending, wire>>
    /\ UNCHANGED <<timer, received, stopping, awaited>>

(* enqueue(e): a queue that reaches MaxSize is flushed at once.            *)
Enqueue(e) ==
    /\ e \notin accepted
    /\ accepted' = accepted \cup {e}
    /\ IF Cardinality(queue \cup {e}) >= MaxSize
       THEN Flush(queue \cup {e})
       ELSE /\ queue' = queue \cup {e}
            /\ UNCHANGED <<sending, wire>>
    /\ UNCHANGED <<timer, received, stopping, awaited>>

(* The interval fires.                                                     *)
Tick ==
    /\ timer
    /\ queue # {}
    /\ Flush(queue)
    /\ UNCHANGED <<timer, received, stopping, awaited, accepted>>

(* As Stop, cancelling the timer without the final drain.                  *)
StopWithoutDrain ==
    /\ stopping = "no"
    /\ stopping' = "waiting"
    /\ timer' = FALSE
    /\ awaited' = {}
    /\ UNCHANGED <<queue, sending, wire, received, accepted>>

(* stop(): the timer is cancelled and what is queued now is flushed and    *)
(* awaited.  Nothing rejects events that are enqueued later.               *)
Stop ==
    /\ stopping = "no"
    /\ stopping' = "waiting"
    /\ timer' = FALSE
    /\ awaited' = queue
    /\ Flush(queue)
    /\ UNCHANGED <<received, accepted>>

(* As StopReturns, waiting for delivery and not just for an outcome.        *)
StopReturnsWhenDelivered ==
    /\ stopping = "waiting"
    /\ \A e \in awaited : received[e] > 0
    /\ stopping' = "done"
    /\ UNCHANGED <<queue, timer, sending, wire, received, awaited, accepted>>

(* The promise of stop() resolves: the final flush has settled.            *)
StopReturns ==
    /\ stopping = "waiting"
    /\ awaited \cap sending = {}
    /\ stopping' = "done"
    /\ UNCHANGED <<queue, timer, sending, wire, received, awaited, accepted>>

(* As Settle, queueing an event again when its request did not succeed.    *)
SettleWithRetry(e) ==
    /\ e \in sending
    /\ sending' = sending \ {e}
    /\ queue' = queue \cup {e}
    /\ UNCHANGED <<timer, wire, received, stopping, awaited, accepted>>

(* A request settles for the agent, answered, failed or timed out.         *)
Settle(e) ==
    /\ e \in sending
    /\ sending' = sending \ {e}
    /\ UNCHANGED <<queue, timer, wire, received, stopping, awaited, accepted>>

(* A request reaches the collector, or is lost on the way.                 *)
Receive(e) ==
    /\ e \in wire
    /\ wire' = wire \ {e}
    /\ received' = [received EXCEPT ![e] = IF @ < 2 THEN @ + 1 ELSE @]
    /\ UNCHANGED <<queue, timer, sending, stopping, awaited, accepted>>

Lose(e) ==
    /\ e \in wire
    /\ wire' = wire \ {e}
    /\ UNCHANGED <<queue, timer, sending, received, stopping, awaited, accepted>>

-----------------------------------------------------------------------------

Init ==
    /\ queue = {}
    /\ timer = TRUE
    /\ sending = {}
    /\ wire = {}
    /\ received = [e \in Events |-> 0]
    /\ stopping = "no"
    /\ awaited = {}
    /\ accepted = {}

Next ==
    \/ Tick
    \/ Stop
    \/ StopReturns
    \/ \E e \in Events : Enqueue(e) \/ Settle(e) \/ Receive(e) \/ Lose(e)

Spec == Init /\ [][Next]_vars

(* Armed timers fire, and a promise that can resolve does.  Every request  *)
(* settles: Delivery shows when that is so.                                *)
Fairness ==
    /\ WF_vars(Tick)
    /\ WF_vars(StopReturns)
    /\ \A e \in Events : WF_vars(Settle(e))

FairSpec == Spec /\ Fairness

-----------------------------------------------------------------------------
(* Properties                                                              *)

TypeOK ==
    /\ queue \in SUBSET Events
    /\ timer \in BOOLEAN
    /\ sending \in SUBSET Events
    /\ wire \in SUBSET Events
    /\ received \in [Events -> 0 .. 2]
    /\ stopping \in {"no", "waiting", "done"}
    /\ awaited \in SUBSET Events
    /\ accepted \in SUBSET Events

(* The memory bound the configuration promises: between two steps the      *)
(* queue is never full, before or after stop().                            *)
QueueBelowMaxSize == Cardinality(queue) < MaxSize

(* At most once, and only what was accepted.                               *)
Channel == INSTANCE LossyChannel
ChannelSpec == Channel!Spec

(* What is queued while the timer is armed is sent, by the timer, by a     *)
(* full queue or by stop().                                                *)
QueueDrains ==
    \A e \in Events : (e \in queue /\ timer) ~> e \notin queue

(* stop() returns, if requests settle.                                     *)
StopTerminates == stopping = "waiting" ~> stopping = "done"

(* A claim that the code does not keep.  agent.ts, stop(): "drains the     *)
(* buffer ... Safe to await during process exit".  Every request that is   *)
(* open once stop() has flushed is awaited.                                *)
StopAwaitsOpenRequests ==
    [][stopping = "no" /\ stopping' = "waiting" => sending' \subseteq awaited']_vars
=============================================================================
