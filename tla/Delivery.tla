------------------------------ MODULE Delivery ------------------------------
(***************************************************************************)
(* The event buffer on top of the transport: every event of a flush is a   *)
(* call of post() (transport/client.ts, sendEvent), and EventBuffer's      *)
(* Settle is what TransportCall makes of the call.                         *)
(*                                                                         *)
(* EventBuffer assumes that every request settles.  Here nothing is        *)
(* assumed that the transport does not do: stop() returns because the      *)
(* calls it awaits are settled by a timer, by the connection or by fetch() *)
(* itself; and where they are not, over TLS, it does not.                  *)
(***************************************************************************)
EXTENDS EventBuffer

VARIABLES
    tls, promise, abort, late, answer   \* TransportCall's, one call per event

callVars == <<tls, promise, abort, late, answer>>

Call == INSTANCE TransportCall WITH Calls <- Events, timer <- abort

deliveryVars == <<vars, callVars>>

-----------------------------------------------------------------------------
(* The agent                                                               *)

(* flush() calls sendEvent() for every event it takes.                     *)
CallsMade == Call!BeginCalls(sending' \ sending)

DeliverEnqueue(e) == Enqueue(e) /\ CallsMade

DeliverTick == Tick /\ CallsMade

DeliverStop == Stop /\ CallsMade

DeliverStopReturns == StopReturns /\ UNCHANGED callVars

(* The settled call of an event is what allSettled() waits for.            *)
Follows(e) ==
    IF promise[e] = "pending" /\ promise'[e] # "pending"
    THEN Settle(e) ELSE UNCHANGED vars

(* transportTimeoutMs have passed since the call for e was made.           *)
CallTimeout(e) == Call!TimeoutPasses(e) /\ Follows(e)

-----------------------------------------------------------------------------
(* The collector and the network                                           *)

(* Headers arrive.  A good status comes from the collector, which has the  *)
(* event then; a bad one may come from anything on the way.                *)
CallHeaders(e, status) ==
    /\ status = "ok" => received[e] > 0
    /\ Call!Headers(e, status)
    /\ Follows(e)

CallFails(e) == Call!Fails(e) /\ Follows(e)

CallEnds(e) == Call!ExchangeEnds(e) /\ Follows(e)

(* A request reaches the collector or is lost, whether or not the agent    *)
(* has given it up.                                                        *)
Wire(e) == (Receive(e) \/ Lose(e)) /\ UNCHANGED callVars

-----------------------------------------------------------------------------

DeliveryInit == Init /\ Call!Init

DeliveryNext ==
    \/ DeliverTick
    \/ DeliverStop
    \/ DeliverStopReturns
    \/ \E e \in Events :
          \/ DeliverEnqueue(e)
          \/ CallTimeout(e)
          \/ CallEnds(e)
          \/ Wire(e)
          \/ \E status \in {"ok", "bad"} : CallHeaders(e, status)

DeliverySpec == DeliveryInit /\ [][DeliveryNext]_deliveryVars

(* The agent's timers fire, and its promises resolve when they can; of the *)
(* connection only what TransportCall assumes of it.                       *)
DeliveryFairness ==
    /\ WF_deliveryVars(DeliverTick)
    /\ WF_deliveryVars(DeliverStopReturns)
    /\ \A e \in Events :
          /\ WF_deliveryVars(CallTimeout(e))
          /\ WF_deliveryVars(answer[e].status # "none" /\ CallEnds(e))
          /\ WF_deliveryVars(tls /\ answer[e].status = "none" /\ CallFails(e))

FairDeliverySpec == DeliverySpec /\ DeliveryFairness

-----------------------------------------------------------------------------
(* Properties                                                              *)

(* EventBuffer's QueueBelowMaxSize, ChannelSpec and QueueDrains, and of    *)
(* TransportCall the following.                                            *)

(* Whatever settles a call, it leaves no timer behind that would keep the  *)
(* process alive.                                                          *)
NothingLeftArmed == Call!NothingLeftArmed

(* fetch() is held to the time limit until a good status arrives.          *)
BudgetUntilGoodStatus == Call!BudgetUntilGoodStatus

(* Over fetch() stop() returns, whatever the collector does with the       *)
(* requests that it awaits.                                                *)
StopTerminatesOverFetch ==
    (stopping = "waiting" /\ ~tls) ~> stopping = "done"

(* A claim that the code does not keep: agent.ts, stop(), "Safe to await   *)
(* during process exit".  Over TLS an answer that is cut off after its     *)
(* headers leaves stop() waiting for ever.                                 *)
StopTerminatesOverTls ==
    (stopping = "waiting" /\ tls) ~> stopping = "done"
=============================================================================
