----------------------------- MODULE Discovery -----------------------------
(***************************************************************************)
(* API discovery: EndpointObserver (api-discovery/endpoint-observer.ts),   *)
(* which aggregates the traffic of each endpoint, DiscoveryBuffer          *)
(* (api-discovery/discovery-buffer.ts), which drains it and sends it in    *)
(* batches, and the calls RaspAgent makes of both (agent.ts).              *)
(*                                                                         *)
(* A request is observed when it arrives and again when it has been        *)
(* answered; a drain, or the kill switch, can come in between.  Flushes    *)
(* are asynchronous and do not wait for each other; each sends its batches *)
(* one after the other.  A counter is represented by the set of the        *)
(* requests it has counted.                                                *)
(***************************************************************************)
EXTENDS Integers, FiniteSets

CONSTANTS
    Requests,        \* the requests that may arrive
    MaxRequests,     \* bounds how many of them do
    Endpoints,       \* keys: method and normalised path
    EndpointOf(_),   \* keyFor(req)
    Flushes,         \* bounds the number of flushes in progress
    MaxBatch         \* MAX_BATCH_SIZE

ASSUME EndpointAssumption ==
    /\ IsFiniteSet(Endpoints)
    /\ \A r \in Requests : EndpointOf(r) \in Endpoints
ASSUME MaxRequestsAssumption == MaxRequests \in Nat
ASSUME MaxBatchAssumption == MaxBatch \in Nat \ {0}

VARIABLES
    killed,    \* agent.killed
    requests,  \* what the agent has seen of each request
    stats,     \* observer.stats
    timer,     \* discoveryBuffer.timer is armed
    flushes,   \* the flushes in progress
    stopping,  \* the flush that stop() awaits, if any
    counted    \* in how many received batches each request was counted

vars == <<killed, requests, stats, timer, flushes, stopping, counted>>

-----------------------------------------------------------------------------
(* EndpointStats.  authStatus is "authenticated" or not; sensitive data    *)
(* and schema only ever grow within a window and are left out, and so are  *)
(* the samples of response times.                                          *)

EntryShape ==
    [observed : SUBSET Requests, errors : SUBSET Requests,
     authenticated : BOOLEAN, authObserved : BOOLEAN]

(* The map has no entry for the endpoint.                                  *)
NoEntry ==
    [observed |-> {}, errors |-> {}, authenticated |-> FALSE, authObserved |-> FALSE]

NoStats == [k \in Endpoints |-> NoEntry]

(* The endpoints the map has an entry for.                                 *)
Present(w) == {k \in Endpoints : w[k].observed # {}}

(* observe(r): auth says whether it has an Authorization header.           *)
Observed(s, r, auth) ==
    [s EXCEPT !.observed = @ \cup {r}, !.authenticated = @ \/ auth]

(* As WithOutcome, leaving the status to the next observation.             *)
WithOutcomeNotStatus(s, r, o) ==
    [s EXCEPT !.errors = IF o.error THEN @ \cup {r} ELSE @,
              !.authObserved = @ \/ o.authenticated]

(* observeOutcome(r), for an entry that is there.                          *)
WithOutcome(s, r, o) ==
    [s EXCEPT !.errors = IF o.error THEN @ \cup {r} ELSE @,
              !.authenticated = @ \/ o.authenticated,
              !.authObserved = @ \/ o.authenticated]

Outcomes == [error : BOOLEAN, authenticated : BOOLEAN]

-----------------------------------------------------------------------------
(* A flush: the window it has drained, the batch in the current request    *)
(* and the endpoints still to be sent.                                     *)

FlushShape ==
    [window : [Endpoints -> EntryShape], batch : SUBSET Endpoints,
     left : SUBSET Endpoints]

NoFlush == [window |-> NoStats, batch |-> {}, left |-> {}]

Running(f) == flushes[f].batch # {}

(* The next batch: MaxBatch endpoints, or all that are left.               *)
Batches(left) ==
    {b \in SUBSET left : \/ Cardinality(b) = MaxBatch
                         \/ b = left /\ Cardinality(b) <= MaxBatch}

(* As FlushFrom, emptying the map only in the next flush.                  *)
FlushFromKeeping(f) ==
    /\ ~Running(f)
    /\ stats' = stats
    /\ \E b \in Batches(Present(stats)) :
         flushes' = [flushes EXCEPT ![f] = [window |-> stats, batch |-> b,
                                            left |-> Present(stats) \ b]]

(* flush() up to its first await: the map is drained and the first batch   *)
(* is sent.                                                                *)
FlushFrom(f) ==
    /\ ~Running(f)
    /\ stats' = NoStats
    /\ \E b \in Batches(Present(stats)) :
         flushes' = [flushes EXCEPT ![f] = [window |-> stats, batch |-> b,
                                            left |-> Present(stats) \ b]]

-----------------------------------------------------------------------------
(* The agent                                                               *)

(* inspect(r) observes r; a killed agent does not.                         *)
Observe(r, auth) ==
    /\ requests[r] = "new"
    /\ Cardinality({q \in Requests : requests[q] # "new"}) < MaxRequests
    /\ requests' = [requests EXCEPT ![r] = "open"]
    /\ stats' = IF killed THEN stats
                ELSE [stats EXCEPT ![EndpointOf(r)] = Observed(@, r, auth)]
    /\ UNCHANGED <<killed, timer, flushes, stopping, counted>>

(* endRequest(r): the outcome is recorded if the endpoint still, or again, *)
(* has an entry.                                                           *)
ObserveOutcome(r, o) ==
    /\ requests[r] = "open"
    /\ requests' = [requests EXCEPT ![r] = "closed"]
    /\ stats' = IF killed \/ EndpointOf(r) \notin Present(stats) THEN stats
                ELSE [stats EXCEPT ![EndpointOf(r)] = WithOutcome(@, r, o)]
    /\ UNCHANGED <<killed, timer, flushes, stopping, counted>>

(* The kill switch is set or lifted.  The buffer does not notice.          *)
SwitchKill ==
    /\ killed' = ~killed
    /\ UNCHANGED <<requests, stats, timer, flushes, stopping, counted>>

(* The interval fires.                                                     *)
Tick(f) ==
    /\ timer
    /\ stats # NoStats
    /\ FlushFrom(f)
    /\ UNCHANGED <<killed, requests, timer, stopping, counted>>

(* As BatchSettles, with one try block around all batches.                 *)
BatchSettlesOrGivesUp(f, received) ==
    LET window == flushes[f].window
        sent == UNION {window[k].observed : k \in flushes[f].batch}
    IN  /\ Running(f)
        /\ counted' = [r \in Requests |->
                         IF received /\ r \in sent /\ counted[r] < 2
                         THEN counted[r] + 1 ELSE counted[r]]
        /\ IF received /\ flushes[f].left # {}
           THEN \E b \in Batches(flushes[f].left) :
                  flushes' = [flushes EXCEPT ![f].batch = b, ![f].left = @ \ b]
           ELSE flushes' = [flushes EXCEPT ![f] = NoFlush]
        /\ UNCHANGED <<killed, requests, stats, timer, stopping>>

(* The request of a batch settles, and the next batch is sent.  A batch    *)
(* that the redaction engine cannot handle, or whose request fails, is     *)
(* lost; the others are sent all the same.                                 *)
BatchSettles(f, received) ==
    LET window == flushes[f].window
        sent == UNION {window[k].observed : k \in flushes[f].batch}
    IN  /\ Running(f)
        /\ counted' = [r \in Requests |->
                         IF received /\ r \in sent /\ counted[r] < 2
                         THEN counted[r] + 1 ELSE counted[r]]
        /\ IF flushes[f].left # {}
           THEN \E b \in Batches(flushes[f].left) :
                  flushes' = [flushes EXCEPT ![f].batch = b, ![f].left = @ \ b]
           ELSE flushes' = [flushes EXCEPT ![f] = NoFlush]
        /\ UNCHANGED <<killed, requests, stats, timer, stopping>>

(* As Stop, without the final flush.                                       *)
StopWithoutFlush(f) ==
    /\ stopping = {}
    /\ timer' = FALSE
    /\ UNCHANGED <<killed, requests, stats, flushes, stopping, counted>>

(* stop(): the timer is cancelled and what has been observed is flushed.   *)
Stop(f) ==
    /\ stopping = {}
    /\ timer' = FALSE
    /\ IF stats = NoStats
       THEN UNCHANGED <<stats, flushes, stopping>>
       ELSE FlushFrom(f) /\ stopping' = {f}
    /\ UNCHANGED <<killed, requests, counted>>

(* The promise of stop() resolves.                                         *)
StopReturns ==
    /\ stopping # {}
    /\ \A f \in stopping : ~Running(f)
    /\ stopping' = {}
    /\ UNCHANGED <<killed, requests, stats, timer, flushes, counted>>

-----------------------------------------------------------------------------

Init ==
    /\ killed = FALSE
    /\ requests = [r \in Requests |-> "new"]
    /\ stats = NoStats
    /\ timer = TRUE
    /\ flushes = [f \in Flushes |-> NoFlush]
    /\ stopping = {}
    /\ counted = [r \in Requests |-> 0]

Next ==
    \/ SwitchKill
    \/ StopReturns
    \/ \E r \in Requests :
         \/ \E auth \in BOOLEAN : Observe(r, auth)
         \/ \E o \in Outcomes : ObserveOutcome(r, o)
    \/ \E f \in Flushes :
         \/ Tick(f)
         \/ Stop(f)
         \/ \E received \in BOOLEAN : BatchSettles(f, received)

Spec == Init /\ [][Next]_vars

(* The interval fires while it is armed, every request settles, and a      *)
(* promise that can resolve does.                                          *)
Fairness ==
    /\ WF_vars(\E f \in Flushes : Tick(f))
    /\ WF_vars(StopReturns)
    /\ \A f \in Flushes :
         WF_vars(\E received \in BOOLEAN : BatchSettles(f, received))

FairSpec == Spec /\ Fairness

-----------------------------------------------------------------------------
(* Properties                                                              *)

TypeOK ==
    /\ killed \in BOOLEAN
    /\ requests \in [Requests -> {"new", "open", "closed"}]
    /\ stats \in [Endpoints -> EntryShape]
    /\ timer \in BOOLEAN
    /\ flushes \in [Flushes -> FlushShape]
    /\ stopping \in SUBSET Flushes
    /\ counted \in [Requests -> 0 .. 2]

(* The requests a flush still has to report, or is reporting.              *)
Reporting(f) ==
    UNION {flushes[f].window[k].observed :
             k \in flushes[f].batch \cup flushes[f].left}

Current == UNION {stats[k].observed : k \in Endpoints}

(* A request is counted at most once: in the current window, or by one     *)
(* flush, or in one batch the collector has received.                      *)
CountedAtMostOnce ==
    \A r \in Requests :
        /\ counted[r] <= 1
        /\ r \in Current => counted[r] = 0
        /\ \A f \in Flushes : r \in Reporting(f) =>
             /\ counted[r] = 0
             /\ r \notin Current
             /\ \A g \in Flushes \ {f} : r \notin Reporting(g)

(* What is reported about an endpoint is consistent: it was observed at    *)
(* least once, a confirmed authentication is never reported together with  *)
(* the status "unauthenticated", and outcomes are of answered requests of  *)
(* this endpoint.                                                          *)
Consistent(w) ==
    \A k \in Endpoints :
        /\ w[k].observed = {} => w[k] = NoEntry
        /\ w[k].authObserved => w[k].authenticated
        /\ \A r \in w[k].errors :
             EndpointOf(r) = k /\ requests[r] = "closed"

ReportsConsistent ==
    Consistent(stats) /\ \A f \in Flushes : Consistent(flushes[f].window)

(* A batch that is lost does not take the rest of its flush with it: every *)
(* endpoint that was drained is sent.                                      *)
EveryBatchSent ==
    \A f \in Flushes, k \in Endpoints :
        k \in flushes[f].left ~> k \in flushes[f].batch

(* While the timer is armed, what was observed leaves the map.             *)
WindowDrains == \A r \in Requests : (r \in Current /\ timer) ~> r \notin Current
=============================================================================
