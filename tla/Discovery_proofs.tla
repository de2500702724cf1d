-------------------------- MODULE Discovery_proofs --------------------------
(***************************************************************************)
(* Proofs about Discovery, for every set of requests, every finite set of  *)
(* endpoints, every number of overlapping flushes and every batch size.    *)
(***************************************************************************)
EXTENDS Discovery, FiniteSetTheorems, TLAPS

(* No request to the collector has more than MAX_BATCH_SIZE endpoints.     *)
BatchBounded ==
    \A f \in Flushes :
        IsFiniteSet(flushes[f].batch) /\ Cardinality(flushes[f].batch) <= MaxBatch

(* Where a request may be: in the current window, or with a flush.         *)
InWindow(r) == r \in stats[EndpointOf(r)].observed
WithFlush(r, f) ==
    /\ EndpointOf(r) \in flushes[f].batch \cup flushes[f].left
    /\ r \in flushes[f].window[EndpointOf(r)].observed

(* A request is only ever counted under its endpoint, once it was seen.    *)
Placed(w) ==
    \A k \in Endpoints : \A r \in w[k].observed :
        EndpointOf(r) = k /\ requests[r] # "new"

(* A request is in one place.                                              *)
Unique ==
    \A r \in Requests :
        /\ counted[r] \in {0, 1}
        /\ requests[r] = "new" => counted[r] = 0
        /\ InWindow(r) => counted[r] = 0
        /\ \A f \in Flushes : WithFlush(r, f) =>
             /\ counted[r] = 0
             /\ ~InWindow(r)
             /\ \A g \in Flushes \ {f} : ~WithFlush(r, g)

(* An endpoint is sent once per flush, and a flush that is over has        *)
(* nothing left.                                                           *)
FlushOK ==
    \A f \in Flushes :
        /\ flushes[f].batch \cap flushes[f].left = {}
        /\ flushes[f].batch = {} => flushes[f].left = {}

(* The inductive invariant.  CountedAtMostOnce is inductive only with what *)
(* keeps a new request from being anywhere and a request from being under  *)
(* two endpoints of a window, one sent and one still to be sent.           *)
IInv ==
    /\ TypeOK
    /\ Placed(stats)
    /\ \A f \in Flushes : Placed(flushes[f].window)
    /\ Unique
    /\ FlushOK
    /\ BatchBounded
    /\ ReportsConsistent

-----------------------------------------------------------------------------

(* The empty window.                                                       *)
LEMMA NoStatsOK ==
    /\ NoStats \in [Endpoints -> EntryShape]
    /\ Placed(NoStats) /\ Consistent(NoStats)
    /\ \A r \in Requests : r \notin NoStats[EndpointOf(r)].observed
<1>1. NoEntry \in EntryShape /\ NoEntry.observed = {}
      /\ NoEntry.authObserved = FALSE /\ NoEntry.errors = {}
  BY DEF NoEntry, EntryShape
<1>2. NoStats \in [Endpoints -> EntryShape]
  BY <1>1 DEF NoStats
<1>3. \A k \in Endpoints : NoStats[k] = NoEntry
  BY DEF NoStats
<1>4. Placed(NoStats) /\ Consistent(NoStats)
  BY <1>1, <1>3 DEF Placed, Consistent
<1>5. QED
  BY <1>1, <1>2, <1>3, <1>4, EndpointAssumption

(* The next batch is not empty as long as something is left.               *)
LEMMA BatchOK ==
    ASSUME NEW left \in SUBSET Endpoints, NEW b \in Batches(left)
    PROVE  /\ b \in SUBSET Endpoints /\ b \subseteq left
           /\ IsFiniteSet(b) /\ Cardinality(b) <= MaxBatch
           /\ b = {} => left = {}
<1>1. b \subseteq left /\ (Cardinality(b) = MaxBatch
                             \/ (b = left /\ Cardinality(b) <= MaxBatch))
  BY DEF Batches
<1>2. IsFiniteSet(b)
  BY <1>1, FS_Subset, EndpointAssumption
<1>3. Cardinality({}) = 0
  BY FS_EmptySet
<1>4. QED
  BY <1>1, <1>2, <1>3, MaxBatchAssumption

(* The initial state satisfies the inductive invariant.                    *)
LEMMA InitIInv == Init => IInv
<1> SUFFICES ASSUME Init PROVE IInv
  OBVIOUS
<1>1. NoFlush \in FlushShape /\ NoFlush.window = NoStats
      /\ NoFlush.batch = {} /\ NoFlush.left = {}
  BY NoStatsOK DEF NoFlush, FlushShape
<1>2. stats = NoStats /\ \A f \in Flushes : flushes[f] = NoFlush
  BY DEF Init
<1>3. TypeOK
  <2>1. flushes \in [Flushes -> FlushShape]
    BY <1>1 DEF Init
  <2>2. requests \in [Requests -> {"new", "open", "closed"}]
        /\ counted \in [Requests -> 0 .. 2]
    BY DEF Init
  <2>3. QED
    BY <2>1, <2>2, NoStatsOK DEF Init, TypeOK
<1>4. Placed(stats) /\ \A f \in Flushes : Placed(flushes[f].window)
  BY <1>1, <1>2, NoStatsOK
<1>5. Unique
  BY <1>1, <1>2, NoStatsOK DEF Init, Unique, InWindow, WithFlush
<1>6. FlushOK
  BY <1>1, <1>2 DEF FlushOK
<1>7. BatchBounded
  BY <1>1, <1>2, FS_EmptySet, MaxBatchAssumption DEF BatchBounded
<1>8. ReportsConsistent
  BY <1>1, <1>2, NoStatsOK DEF ReportsConsistent
<1>9. QED
  BY <1>3, <1>4, <1>5, <1>6, <1>7, <1>8 DEF IInv

-----------------------------------------------------------------------------
(* Actions                                                                 *)

(* A request is observed for the first time.                               *)
LEMMA ObserveIInv ==
    ASSUME IInv, NEW r \in Requests, NEW auth \in BOOLEAN, Observe(r, auth)
    PROVE  IInv'
<1> DEFINE k == EndpointOf(r)
           new == Observed(stats[k], r, auth)
<1>1. /\ requests[r] = "new" /\ requests' = [requests EXCEPT ![r] = "open"]
      /\ \/ stats' = stats
         \/ stats' = [stats EXCEPT ![k] = new]
      /\ UNCHANGED <<killed, timer, flushes, stopping, counted>>
  BY DEF Observe
<1>2. k \in Endpoints
  BY EndpointAssumption
<1>3. stats[k] \in EntryShape
  BY <1>2 DEF IInv, TypeOK
<1>4. /\ new \in EntryShape
      /\ new.observed = stats[k].observed \cup {r}
      /\ new.errors = stats[k].errors
      /\ new.authObserved = stats[k].authObserved
      /\ stats[k].authenticated => new.authenticated
  BY <1>3 DEF Observed, EntryShape
<1> HIDE DEF new, k
<1>5. TypeOK'
  BY <1>1, <1>4 DEF IInv, TypeOK
<1>6. \A q \in Requests : requests[q] # "new" => requests'[q] # "new"
  BY <1>1 DEF IInv, TypeOK
<1>7. \A q \in Requests : requests[q] = "closed" => requests'[q] = "closed"
  BY <1>1 DEF IInv, TypeOK
<1>8. requests'[r] # "new" /\ k = EndpointOf(r)
  BY <1>1 DEF IInv, TypeOK, k
<1>9. stats \in [Endpoints -> EntryShape] /\ \A j \in Endpoints :
        stats[j].observed \subseteq Requests /\ stats[j].errors \subseteq Requests
  BY DEF IInv, TypeOK, EntryShape
<1>10. \A f \in Flushes : \A j \in Endpoints :
         flushes[f].window[j].observed \subseteq Requests
         /\ flushes[f].window[j].errors \subseteq Requests
  BY DEF IInv, TypeOK, FlushShape, EntryShape
<1>11. Placed(stats)'
  <2>1. ASSUME NEW j \in Endpoints, NEW q \in stats'[j].observed
        PROVE  EndpointOf(q) = j /\ requests'[q] # "new"
    <3>1. CASE q \in stats[j].observed
      BY <3>1, <1>6, <1>9 DEF IInv, Placed
    <3>2. CASE q \notin stats[j].observed
      BY <3>2, <1>1, <1>2, <1>4, <1>8, <1>9
    <3>3. QED
      BY <3>1, <3>2
  <2>2. QED
    BY <2>1 DEF Placed
<1>12. (\A f \in Flushes : Placed(flushes[f].window))'
  BY <1>1, <1>6, <1>10 DEF IInv, Placed
<1>13. Unique'
  <2>1. ASSUME NEW q \in Requests, q # r
        PROVE  InWindow(q)' = InWindow(q) /\ requests'[q] = requests[q]
    BY <1>1, <1>2, <1>4, <1>9, <2>1, EndpointAssumption DEF InWindow, IInv, TypeOK
  <2>2. \A q \in Requests, f \in Flushes : WithFlush(q, f)' = WithFlush(q, f)
    BY <1>1 DEF WithFlush
  <2>3. counted[r] = 0 /\ \A f \in Flushes : ~WithFlush(r, f)
    BY <1>1, EndpointAssumption DEF IInv, Unique, WithFlush, Placed
  <2>4. counted' = counted
    BY <1>1
  <2>5. QED
    BY <1>8, <2>1, <2>2, <2>3, <2>4 DEF IInv, Unique
<1>14. FlushOK' /\ BatchBounded'
  BY <1>1 DEF IInv, FlushOK, BatchBounded
<1>15. ReportsConsistent'
  <2>1. Consistent(stats)'
    <3>1. ASSUME NEW j \in Endpoints
          PROVE  /\ stats'[j].observed = {} => stats'[j] = NoEntry
                 /\ stats'[j].authObserved => stats'[j].authenticated
                 /\ \A q \in stats'[j].errors :
                      EndpointOf(q) = j /\ requests'[q] = "closed"
      BY <1>1, <1>2, <1>4, <1>7, <1>9
         DEF IInv, ReportsConsistent, Consistent
    <3>2. QED
      BY <3>1 DEF Consistent
  <2>2. (\A f \in Flushes : Consistent(flushes[f].window))'
    BY <1>1, <1>7, <1>10 DEF IInv, ReportsConsistent, Consistent
  <2>3. QED
    BY <2>1, <2>2 DEF ReportsConsistent
<1>16. QED
  BY <1>5, <1>11, <1>12, <1>13, <1>14, <1>15 DEF IInv

(* The outcome of a request goes to its endpoint's current entry.          *)
LEMMA ObserveOutcomeIInv ==
    ASSUME IInv, NEW r \in Requests, NEW o \in Outcomes, ObserveOutcome(r, o)
    PROVE  IInv'
<1> DEFINE k == EndpointOf(r)
           new == WithOutcome(stats[k], r, o)
<1>1. /\ requests[r] = "open" /\ requests' = [requests EXCEPT ![r] = "closed"]
      /\ \/ stats' = stats
         \/ k \in Present(stats) /\ stats' = [stats EXCEPT ![k] = new]
      /\ UNCHANGED <<killed, timer, flushes, stopping, counted>>
  BY DEF ObserveOutcome
<1>2. k \in Endpoints
  BY EndpointAssumption
<1>3. stats[k] \in EntryShape /\ o.error \in BOOLEAN
      /\ o.authenticated \in BOOLEAN
  BY <1>2 DEF IInv, TypeOK, Outcomes
<1>4. /\ new \in EntryShape
      /\ new.observed = stats[k].observed
      /\ new.errors \subseteq stats[k].errors \cup {r}
      /\ (new.authObserved => stats[k].authObserved \/ o.authenticated)
      /\ (stats[k].authenticated \/ o.authenticated) => new.authenticated
  BY <1>3 DEF WithOutcome, EntryShape
<1> HIDE DEF new, k
<1>5. TypeOK'
  BY <1>1, <1>4 DEF IInv, TypeOK
<1>6. \A q \in Requests : requests[q] # "new" <=> requests'[q] # "new"
  BY <1>1 DEF IInv, TypeOK
<1>7. \A q \in Requests : requests[q] = "closed" => requests'[q] = "closed"
  BY <1>1 DEF IInv, TypeOK
<1>8. requests'[r] = "closed" /\ k = EndpointOf(r)
  BY <1>1 DEF IInv, TypeOK, k
<1>9. stats \in [Endpoints -> EntryShape] /\ \A j \in Endpoints :
        stats[j].observed \subseteq Requests /\ stats[j].errors \subseteq Requests
  BY DEF IInv, TypeOK, EntryShape
<1>10. \A f \in Flushes : \A j \in Endpoints :
         flushes[f].window[j].observed \subseteq Requests
         /\ flushes[f].window[j].errors \subseteq Requests
  BY DEF IInv, TypeOK, FlushShape, EntryShape
<1>11. \A j \in Endpoints : stats'[j].observed = stats[j].observed
  BY <1>1, <1>2, <1>4, <1>9
<1>12. Placed(stats)' /\ (\A f \in Flushes : Placed(flushes[f].window))'
  BY <1>1, <1>6, <1>9, <1>10, <1>11 DEF IInv, Placed
<1>13. Unique'
  <2>1. \A q \in Requests : InWindow(q)' = InWindow(q)
    BY <1>11, EndpointAssumption DEF InWindow
  <2>2. \A q \in Requests, f \in Flushes : WithFlush(q, f)' = WithFlush(q, f)
    BY <1>1 DEF WithFlush
  <2>3. counted' = counted
    BY <1>1
  <2>4. QED
    BY <1>6, <2>1, <2>2, <2>3 DEF IInv, Unique
<1>14. FlushOK' /\ BatchBounded'
  BY <1>1 DEF IInv, FlushOK, BatchBounded
<1>15. ReportsConsistent'
  <2>1. Consistent(stats)'
    <3>1. ASSUME NEW j \in Endpoints
          PROVE  /\ stats'[j].observed = {} => stats'[j] = NoEntry
                 /\ stats'[j].authObserved => stats'[j].authenticated
                 /\ \A q \in stats'[j].errors :
                      EndpointOf(q) = j /\ requests'[q] = "closed"
      <4>1. CASE stats'[j] = stats[j]
        BY <4>1, <1>7, <1>9 DEF IInv, ReportsConsistent, Consistent
      <4>2. CASE j = k /\ k \in Present(stats) /\ stats'[j] = new
        <5>1. stats'[j].observed # {}
          BY <4>2, <1>4 DEF Present
        <5>2. stats'[j].authObserved => stats'[j].authenticated
          BY <4>2, <1>2, <1>4 DEF IInv, ReportsConsistent, Consistent
        <5>3. \A q \in stats'[j].errors :
                 EndpointOf(q) = j /\ requests'[q] = "closed"
          BY <4>2, <1>2, <1>4, <1>7, <1>8, <1>9
             DEF IInv, ReportsConsistent, Consistent
        <5>4. QED
          BY <5>1, <5>2, <5>3
      <4>3. QED
        BY <4>1, <4>2, <1>1, <1>2, <1>9
    <3>2. QED
      BY <3>1 DEF Consistent
  <2>2. (\A f \in Flushes : Consistent(flushes[f].window))'
    BY <1>1, <1>7, <1>10 DEF IInv, ReportsConsistent, Consistent
  <2>3. QED
    BY <2>1, <2>2 DEF ReportsConsistent
<1>16. QED
  BY <1>5, <1>12, <1>13, <1>14, <1>15 DEF IInv

(* A drain moves all that is in the window to the flush.                   *)
LEMMA FlushFromIInv ==
    ASSUME IInv, NEW f \in Flushes, FlushFrom(f), timer' \in BOOLEAN,
           stopping' \in SUBSET Flushes, UNCHANGED <<killed, requests, counted>>
    PROVE  IInv'
<1>1. PICK b \in Batches(Present(stats)) :
        flushes' = [flushes EXCEPT ![f] = [window |-> stats, batch |-> b,
                                           left |-> Present(stats) \ b]]
  BY DEF FlushFrom
<1>2. stats' = NoStats /\ flushes[f].batch = {} /\ flushes[f].left = {}
  BY DEF FlushFrom, Running, IInv, FlushOK
<1>3. Present(stats) \in SUBSET Endpoints
  BY DEF Present
<1>4. /\ b \in SUBSET Endpoints /\ b \subseteq Present(stats)
      /\ IsFiniteSet(b) /\ Cardinality(b) <= MaxBatch
      /\ b = {} => Present(stats) = {}
  BY <1>3, BatchOK
<1>5. /\ flushes'[f].window = stats /\ flushes'[f].batch = b
      /\ flushes'[f].left = Present(stats) \ b
      /\ \A g \in Flushes \ {f} : flushes'[g] = flushes[g]
  BY <1>1 DEF IInv, TypeOK
<1>6. TypeOK'
  <2>1. [window |-> stats, batch |-> b, left |-> Present(stats) \ b] \in FlushShape
    BY <1>3, <1>4 DEF IInv, TypeOK, FlushShape
  <2>2. flushes' \in [Flushes -> FlushShape]
    BY <1>1, <2>1 DEF IInv, TypeOK
  <2>3. QED
    BY <1>2, <2>2, NoStatsOK DEF IInv, TypeOK
<1>7. Placed(stats)' /\ (\A g \in Flushes : Placed(flushes[g].window))'
  <2>1. Placed(NoStats)'
    BY NoStatsOK DEF Placed
  <2>2. QED
    BY <1>2, <1>5, <2>1 DEF IInv, Placed
<1>8. Unique'
  <2>1. \A r \in Requests : ~InWindow(r)'
    BY <1>2, NoStatsOK DEF InWindow
  <2>2. \A r \in Requests : ~WithFlush(r, f)
    BY <1>2 DEF WithFlush
  <2>3. \A r \in Requests : WithFlush(r, f)' => InWindow(r)
    BY <1>5 DEF WithFlush, InWindow
  <2>4. \A r \in Requests : \A g \in Flushes \ {f} :
           WithFlush(r, g)' = WithFlush(r, g)
    BY <1>5 DEF WithFlush
  <2>5. QED
    BY <2>1, <2>2, <2>3, <2>4 DEF IInv, Unique
<1>9. FlushOK'
  BY <1>4, <1>5 DEF IInv, FlushOK
<1>10. BatchBounded'
  BY <1>4, <1>5 DEF IInv, BatchBounded
<1>11. ReportsConsistent'
  <2>1. Consistent(NoStats)'
    BY NoStatsOK DEF Consistent
  <2>2. QED
    BY <1>2, <1>5, <2>1 DEF IInv, ReportsConsistent, Consistent
<1>12. QED
  BY <1>6, <1>7, <1>8, <1>9, <1>10, <1>11 DEF IInv

(* What a batch's settling does to its flush.                              *)
LEMMA BatchSettlesEffect ==
    ASSUME IInv, NEW f \in Flushes, NEW received \in BOOLEAN,
           BatchSettles(f, received)
    PROVE  /\ flushes' \in [Flushes -> FlushShape]
           /\ \A g \in Flushes \ {f} : flushes'[g] = flushes[g]
           /\ flushes'[f].window \in {flushes[f].window, NoStats}
           /\ flushes[f].left # {} => flushes'[f].window = flushes[f].window
           /\ flushes'[f].batch \cup flushes'[f].left = flushes[f].left
           /\ flushes'[f].batch \cap flushes'[f].left = {}
           /\ flushes'[f].batch = {} => flushes'[f].left = {}
           /\ IsFiniteSet(flushes'[f].batch)
           /\ Cardinality(flushes'[f].batch) <= MaxBatch
<1>0. flushes \in [Flushes -> FlushShape] /\ flushes[f] \in FlushShape
  BY DEF IInv, TypeOK
<1>1. CASE flushes[f].left # {}
  <2>1. PICK b \in Batches(flushes[f].left) :
          flushes' = [flushes EXCEPT ![f].batch = b, ![f].left = @ \ b]
    BY <1>1 DEF BatchSettles
  <2>2. flushes[f].left \in SUBSET Endpoints
    BY <1>0 DEF FlushShape
  <2>3. /\ b \in SUBSET Endpoints /\ b \subseteq flushes[f].left
        /\ IsFiniteSet(b) /\ Cardinality(b) <= MaxBatch
        /\ b = {} => flushes[f].left = {}
    BY <2>2, BatchOK
  <2>4. /\ flushes'[f] = [window |-> flushes[f].window, batch |-> b,
                          left |-> flushes[f].left \ b]
        /\ \A g \in Flushes \ {f} : flushes'[g] = flushes[g]
    BY <1>0, <2>1 DEF FlushShape
  <2>5. flushes'[f] \in FlushShape
    BY <1>0, <2>2, <2>3, <2>4 DEF FlushShape
  <2>6. flushes' \in [Flushes -> FlushShape]
    BY <1>0, <2>1, <2>4, <2>5
  <2>7. QED
    BY <2>3, <2>4, <2>6
<1>2. CASE flushes[f].left = {}
  <2>1. flushes' = [flushes EXCEPT ![f] = NoFlush]
    BY <1>2 DEF BatchSettles
  <2>2. NoFlush \in FlushShape
    BY NoStatsOK DEF NoFlush, FlushShape
  <2>3. flushes'[f] = NoFlush
    BY <1>0, <2>1
  <2>4. QED
    BY <1>0, <1>2, <2>1, <2>2, <2>3, FS_EmptySet, MaxBatchAssumption DEF NoFlush
<1>3. QED
  BY <1>1, <1>2

(* A batch settles: its requests may have been counted, and are no longer  *)
(* with the flush.                                                         *)
LEMMA BatchSettlesIInv ==
    ASSUME IInv, NEW f \in Flushes, NEW received \in BOOLEAN,
           BatchSettles(f, received)
    PROVE  IInv'
<1> DEFINE sent == UNION {flushes[f].window[k].observed : k \in flushes[f].batch}
<1>1. /\ counted' = [r \in Requests |->
                       IF received /\ r \in sent /\ counted[r] < 2
                       THEN counted[r] + 1 ELSE counted[r]]
      /\ UNCHANGED <<killed, requests, stats, timer, stopping>>
  BY DEF BatchSettles
<1>2. flushes[f].batch \subseteq Endpoints
  BY DEF IInv, TypeOK, FlushShape
<1>3. \A r \in sent : EndpointOf(r) \in flushes[f].batch /\ WithFlush(r, f)
  BY <1>2 DEF IInv, Placed, WithFlush
<1> HIDE DEF sent
<1>4. \A r \in Requests : r \in sent =>
         /\ counted[r] = 0 /\ requests[r] # "new" /\ ~InWindow(r)
         /\ \A g \in Flushes \ {f} : ~WithFlush(r, g)
         /\ ~WithFlush(r, f)'
  <2> SUFFICES ASSUME NEW r \in Requests, r \in sent
               PROVE  /\ counted[r] = 0 /\ requests[r] # "new" /\ ~InWindow(r)
                      /\ \A g \in Flushes \ {f} : ~WithFlush(r, g)
                      /\ ~WithFlush(r, f)'
    OBVIOUS
  <2>1. EndpointOf(r) \in flushes[f].batch /\ WithFlush(r, f)
    BY <1>3
  <2>2. counted[r] = 0 /\ ~InWindow(r)
        /\ \A g \in Flushes \ {f} : ~WithFlush(r, g)
    BY <2>1 DEF IInv, Unique
  <2>3. requests[r] # "new"
    BY <1>2, <2>1 DEF IInv, Placed, WithFlush
  <2>4. EndpointOf(r) \notin flushes[f].left
    BY <2>1 DEF IInv, FlushOK
  <2>5. ~WithFlush(r, f)'
    BY <2>4, BatchSettlesEffect DEF WithFlush
  <2>6. QED
    BY <2>2, <2>3, <2>5
<1>5. \A r \in Requests : counted[r] \in {0, 1}
  BY DEF IInv, Unique
<1>6. \A r \in Requests : counted'[r] \in {counted[r], 1}
         /\ (counted'[r] # counted[r] => r \in sent)
  BY <1>1, <1>4, <1>5
<1>7. \A r \in Requests : WithFlush(r, f)' => WithFlush(r, f)
  <2>1. \A r \in Requests : r \notin NoStats[EndpointOf(r)].observed
    BY NoStatsOK
  <2>2. QED
    BY <2>1, BatchSettlesEffect DEF WithFlush
<1>8. \A r \in Requests, g \in Flushes \ {f} : WithFlush(r, g)' = WithFlush(r, g)
  BY BatchSettlesEffect DEF WithFlush
<1>9. \A r \in Requests : InWindow(r)' = InWindow(r)
  BY <1>1 DEF InWindow
<1>10. TypeOK'
  <2>1. counted' \in [Requests -> 0 .. 2]
    <3>1. \A r \in Requests : counted'[r] \in 0 .. 2
      BY <1>5, <1>6
    <3>2. QED
      BY <1>1, <3>1
  <2>2. QED
    BY <1>1, <2>1, BatchSettlesEffect DEF IInv, TypeOK
<1>11. Placed(stats)' /\ (\A g \in Flushes : Placed(flushes[g].window))'
  <2>1. Placed(NoStats)'
    BY <1>1, NoStatsOK DEF Placed
  <2>2. \A g \in Flushes : flushes'[g].window \in {flushes[g].window, NoStats}
    BY BatchSettlesEffect
  <2>3. QED
    BY <1>1, <2>1, <2>2 DEF IInv, Placed
<1>12. Unique'
  <2> SUFFICES ASSUME NEW r \in Requests
               PROVE  (/\ counted[r] \in {0, 1}
                       /\ requests[r] = "new" => counted[r] = 0
                       /\ InWindow(r) => counted[r] = 0
                       /\ \A g \in Flushes : WithFlush(r, g) =>
                            /\ counted[r] = 0
                            /\ ~InWindow(r)
                            /\ \A h \in Flushes \ {g} : ~WithFlush(r, h))'
    BY DEF Unique
  <2>1. CASE r \in sent
    BY <2>1, <1>1, <1>4, <1>5, <1>6, <1>8, <1>9
  <2>2. CASE r \notin sent
    BY <2>2, <1>1, <1>6, <1>7, <1>8, <1>9 DEF IInv, Unique
  <2>3. QED
    BY <2>1, <2>2
<1>13. FlushOK' /\ BatchBounded'
  BY BatchSettlesEffect DEF IInv, FlushOK, BatchBounded
<1>14. ReportsConsistent'
  <2>1. Consistent(NoStats)'
    BY <1>1, NoStatsOK DEF Consistent
  <2>2. \A g \in Flushes : flushes'[g].window \in {flushes[g].window, NoStats}
    BY BatchSettlesEffect
  <2>3. QED
    BY <1>1, <2>1, <2>2 DEF IInv, ReportsConsistent, Consistent
<1>15. QED
  BY <1>10, <1>11, <1>12, <1>13, <1>14 DEF IInv

(* Steps that touch neither requests nor windows.                          *)
LEMMA ElsewhereIInv ==
    ASSUME IInv, UNCHANGED <<requests, stats, flushes, counted>>,
           killed' \in BOOLEAN, timer' \in BOOLEAN, stopping' \in SUBSET Flushes
    PROVE  IInv'
<1>1. TypeOK'
  BY DEF IInv, TypeOK
<1>2. Placed(stats)' /\ (\A f \in Flushes : Placed(flushes[f].window))'
  BY DEF IInv, Placed
<1>3. Unique'
  BY DEF IInv, Unique, InWindow, WithFlush
<1>4. FlushOK' /\ BatchBounded' /\ ReportsConsistent'
  BY DEF IInv, FlushOK, BatchBounded, ReportsConsistent, Consistent
<1>5. QED
  BY <1>1, <1>2, <1>3, <1>4 DEF IInv

(* Every step preserves the inductive invariant.                           *)
LEMMA NextIInv == IInv /\ [Next]_vars => IInv'
<1> SUFFICES ASSUME IInv, [Next]_vars PROVE IInv'
  OBVIOUS
<1>0. killed \in BOOLEAN /\ timer \in BOOLEAN /\ stopping \in SUBSET Flushes
  BY DEF IInv, TypeOK
<1>1. CASE SwitchKill \/ StopReturns \/ UNCHANGED vars
  BY <1>0, <1>1, ElsewhereIInv DEF SwitchKill, StopReturns, vars
<1>2. ASSUME NEW r \in Requests, NEW auth \in BOOLEAN, Observe(r, auth)
      PROVE  IInv'
  BY <1>2, ObserveIInv
<1>3. ASSUME NEW r \in Requests, NEW o \in Outcomes, ObserveOutcome(r, o)
      PROVE  IInv'
  BY <1>3, ObserveOutcomeIInv
<1>4. ASSUME NEW f \in Flushes, Tick(f) PROVE IInv'
  BY <1>0, <1>4, FlushFromIInv DEF Tick
<1>5. ASSUME NEW f \in Flushes, Stop(f) PROVE IInv'
  <2>1. timer' \in BOOLEAN /\ UNCHANGED <<killed, requests, counted>>
    BY <1>5 DEF Stop
  <2>2. CASE stats = NoStats
    BY <1>0, <1>5, <2>1, <2>2, ElsewhereIInv DEF Stop
  <2>3. CASE stats # NoStats
    BY <1>5, <2>1, <2>3, FlushFromIInv DEF Stop
  <2>4. QED
    BY <2>2, <2>3
<1>6. ASSUME NEW f \in Flushes, NEW received \in BOOLEAN, BatchSettles(f, received)
      PROVE  IInv'
  BY <1>6, BatchSettlesIInv
<1>7. QED
  BY <1>1, <1>2, <1>3, <1>4, <1>5, <1>6 DEF Next

(* The inductive invariant holds in every reachable state.                 *)
THEOREM Invariance == Spec => []IInv
BY InitIInv, NextIInv, PTL DEF Spec

-----------------------------------------------------------------------------

(* The variables have their types.                                         *)
THEOREM TypeCorrect == Spec => []TypeOK
<1>1. IInv => TypeOK
  BY DEF IInv
<1>2. QED
  BY <1>1, Invariance, PTL

(* No request is counted twice, however flushes overlap.                   *)
THEOREM CountsOnce == Spec => []CountedAtMostOnce
<1>1. ASSUME IInv PROVE CountedAtMostOnce
  <2>1. \A r \in Requests : r \in Current => InWindow(r)
    BY <1>1 DEF Current, InWindow, IInv, Placed
  <2>2. \A f \in Flushes :
          flushes[f].batch \cup flushes[f].left \subseteq Endpoints
    BY <1>1 DEF IInv, TypeOK, FlushShape
  <2>3. \A r \in Requests, f \in Flushes : r \in Reporting(f) => WithFlush(r, f)
    BY <1>1, <2>2 DEF Reporting, WithFlush, IInv, Placed
  <2>4. \A r \in Requests : counted[r] <= 1
    BY <1>1 DEF IInv, Unique
  <2>5. QED
    BY <1>1, <2>1, <2>3, <2>4 DEF CountedAtMostOnce, IInv, Unique
<1>2. QED
  BY <1>1, Invariance, PTL

(* Every request to the collector has at most MaxBatch endpoints.          *)
THEOREM BatchSize == Spec => []BatchBounded
<1>1. IInv => BatchBounded
  BY DEF IInv
<1>2. QED
  BY <1>1, Invariance, PTL

(* What is reported of an endpoint is consistent.                          *)
THEOREM Consistency == Spec => []ReportsConsistent
<1>1. IInv => ReportsConsistent
  BY DEF IInv
<1>2. QED
  BY <1>1, Invariance, PTL

-----------------------------------------------------------------------------

(* A request waits in the current window or with a flush.                  *)
Waits(r) == r \in Current \/ \E f \in Flushes : r \in Reporting(f)

(* The same, by its endpoint.                                              *)
WaitsByEndpoint ==
    \A r \in Requests :
        Waits(r) <=> InWindow(r) \/ \E f \in Flushes : WithFlush(r, f)

LEMMA WaitsSomewhere == IInv => WaitsByEndpoint
<1> SUFFICES ASSUME IInv, NEW r \in Requests
             PROVE  Waits(r) <=> InWindow(r) \/ \E f \in Flushes : WithFlush(r, f)
  BY DEF WaitsByEndpoint
<1>1. EndpointOf(r) \in Endpoints
  BY EndpointAssumption
<1>2. r \in Current <=> InWindow(r)
  BY <1>1 DEF Current, InWindow, IInv, Placed
<1>3. ASSUME NEW f \in Flushes PROVE r \in Reporting(f) <=> WithFlush(r, f)
  <2>1. flushes[f].batch \cup flushes[f].left \subseteq Endpoints
    BY DEF IInv, TypeOK, FlushShape
  <2>2. Placed(flushes[f].window)
    BY DEF IInv
  <2>3. QED
    BY <1>1, <2>1, <2>2 DEF Reporting, WithFlush, Placed
<1>4. QED
  BY <1>2, <1>3 DEF Waits

(* In the state after a step, too.                                         *)
LEMMA WaitsSomewhereNext ==
    IInv' => \A r \in Requests :
               InWindow(r)' \/ (\E f \in Flushes : WithFlush(r, f)') => Waits(r)'
<1>1. IInv' => WaitsByEndpoint'
  BY WaitsSomewhere, PTL
<1>2. QED
  BY <1>1 DEF WaitsByEndpoint

(* The batch of f is settled, r is in it, and is counted if it arrived.    *)
LeavesWith(r, f, received) ==
    /\ BatchSettles(f, received)
    /\ r \in UNION {flushes[f].window[k].observed : k \in flushes[f].batch}
    /\ counted'[r] = IF received THEN 1 ELSE 0

(* What has been observed is never forgotten, however flushes overlap and  *)
(* batches are lost: a request waits until a batch that it is in settles,  *)
(* and is then counted if the batch was received.  Of EveryBatchSent and   *)
(* WindowDrains this is the part that does not depend on fairness.         *)
NothingForgotten ==
    [][\A r \in Requests : Waits(r) /\ ~Waits(r)' =>
         \E f \in Flushes, received \in BOOLEAN : LeavesWith(r, f, received)]_vars

(* Starting a flush takes the window along.                                *)
LEMMA FlushTakesAlong ==
    ASSUME IInv, IInv', NEW f \in Flushes, FlushFrom(f), NEW r \in Requests, Waits(r)
    PROVE  Waits(r)'
<1>1. PICK b \in Batches(Present(stats)) :
        flushes' = [flushes EXCEPT ![f] = [window |-> stats, batch |-> b,
                                           left |-> Present(stats) \ b]]
  BY DEF FlushFrom
<1>2. /\ flushes'[f].window = stats
      /\ Present(stats) \subseteq flushes'[f].batch \cup flushes'[f].left
      /\ \A g \in Flushes \ {f} : flushes'[g] = flushes[g]
  BY <1>1 DEF IInv, TypeOK
<1>3. ~WithFlush(r, f)
  BY DEF FlushFrom, Running, IInv, FlushOK, WithFlush
<1>4. CASE InWindow(r)
  <2>1. EndpointOf(r) \in Present(stats)
    BY <1>4, EndpointAssumption DEF InWindow, Present
  <2>2. WithFlush(r, f)'
    BY <1>2, <1>4, <2>1 DEF WithFlush, InWindow
  <2>3. QED
    BY <2>2, WaitsSomewhere, WaitsSomewhereNext DEF WaitsByEndpoint
<1>5. ASSUME NEW g \in Flushes, WithFlush(r, g) PROVE Waits(r)'
  <2>1. WithFlush(r, g)'
    BY <1>2, <1>3, <1>5 DEF WithFlush
  <2>2. QED
    BY <2>1, WaitsSomewhereNext
<1>6. QED
  BY <1>4, <1>5, WaitsSomewhere DEF WaitsByEndpoint

(* A settled batch takes along what is in it, and nothing else.            *)
LEMMA BatchTakesAlong ==
    ASSUME IInv, IInv', NEW f \in Flushes, NEW received \in BOOLEAN,
           BatchSettles(f, received), NEW r \in Requests, Waits(r)
    PROVE  Waits(r)' \/ LeavesWith(r, f, received)
<1>1. /\ \A g \in Flushes \ {f} : flushes'[g] = flushes[g]
      /\ flushes[f].left # {} => flushes'[f].window = flushes[f].window
      /\ flushes'[f].batch \cup flushes'[f].left = flushes[f].left
  BY BatchSettlesEffect
<1>2. stats' = stats
  BY DEF BatchSettles
<1>3. CASE InWindow(r)
  <2>1. InWindow(r)'
    BY <1>2, <1>3 DEF InWindow
  <2>2. QED
    BY <2>1, WaitsSomewhereNext
<1>4. ASSUME NEW g \in Flushes, WithFlush(r, g), g # f \/ EndpointOf(r) \in flushes[f].left
      PROVE  Waits(r)'
  <2>1. WithFlush(r, g)'
    BY <1>1, <1>4 DEF WithFlush
  <2>2. QED
    BY <2>1, WaitsSomewhereNext
<1>5. CASE WithFlush(r, f) /\ EndpointOf(r) \in flushes[f].batch
  <2>1. r \in UNION {flushes[f].window[k].observed : k \in flushes[f].batch}
    BY <1>5 DEF WithFlush
  <2>2. counted[r] = 0
    BY <1>5 DEF IInv, Unique
  <2>3. counted'[r] = IF received THEN 1 ELSE 0
    BY <2>1, <2>2 DEF BatchSettles
  <2>4. QED
    BY <2>1, <2>3 DEF LeavesWith
<1>6. QED
  BY <1>3, <1>4, <1>5, WaitsSomewhere DEF WithFlush, WaitsByEndpoint

(* Nothing that was observed is forgotten.                                 *)
THEOREM ForgetsNothing == Spec => NothingForgotten
<1>1. ASSUME IInv, IInv', [Next]_vars, NEW r \in Requests, Waits(r)
      PROVE  \/ Waits(r)'
             \/ \E f \in Flushes, received \in BOOLEAN : LeavesWith(r, f, received)
  <2>1. CASE UNCHANGED <<stats, flushes>>
    BY <1>1, <2>1 DEF Waits, Current, Reporting
  <2>2. ASSUME NEW s, InWindow(r) => r \in s[EndpointOf(r)].observed,
               stats' = s, flushes' = flushes
        PROVE  Waits(r)'
    <3>1. InWindow(r) => InWindow(r)'
      BY <2>2 DEF InWindow
    <3>2. \A f \in Flushes : WithFlush(r, f) => WithFlush(r, f)'
      BY <2>2 DEF WithFlush
    <3>3. QED
      BY <1>1, <3>1, <3>2, WaitsSomewhere, WaitsSomewhereNext DEF WaitsByEndpoint
  <2>3. ASSUME NEW q \in Requests, NEW auth \in BOOLEAN, Observe(q, auth)
        PROVE  Waits(r)'
    <3>1. flushes' = flushes /\ stats \in [Endpoints -> EntryShape]
      BY <1>1, <2>3 DEF Observe, IInv, TypeOK
    <3>2. InWindow(r) => r \in stats'[EndpointOf(r)].observed
      BY <2>3, <3>1, EndpointAssumption DEF Observe, Observed, InWindow, EntryShape
    <3>3. QED
      BY <2>2, <3>1, <3>2
  <2>4. ASSUME NEW q \in Requests, NEW o \in Outcomes, ObserveOutcome(q, o)
        PROVE  Waits(r)'
    <3>1. flushes' = flushes /\ stats \in [Endpoints -> EntryShape]
      BY <1>1, <2>4 DEF ObserveOutcome, IInv, TypeOK
    <3>2. InWindow(r) => r \in stats'[EndpointOf(r)].observed
      BY <2>4, <3>1, EndpointAssumption DEF ObserveOutcome, WithOutcome, InWindow, EntryShape
    <3>3. QED
      BY <2>2, <3>1, <3>2
  <2>5. ASSUME NEW f \in Flushes, Tick(f) \/ Stop(f) PROVE Waits(r)'
    <3>1. FlushFrom(f) \/ UNCHANGED <<stats, flushes>>
      BY <2>5 DEF Tick, Stop
    <3>2. QED
      BY <1>1, <2>1, <3>1, FlushTakesAlong DEF Waits, Current, Reporting
  <2>6. ASSUME NEW f \in Flushes, NEW received \in BOOLEAN, BatchSettles(f, received)
        PROVE  Waits(r)' \/ LeavesWith(r, f, received)
    BY <1>1, <2>6, BatchTakesAlong
  <2>7. SwitchKill \/ StopReturns \/ UNCHANGED vars => UNCHANGED <<stats, flushes>>
    BY DEF SwitchKill, StopReturns, vars
  <2>8. QED
    BY <1>1, <2>1, <2>3, <2>4, <2>5, <2>6, <2>7 DEF Next
<1>2. IInv /\ IInv' /\ [Next]_vars =>
        [\A r \in Requests : Waits(r) /\ ~Waits(r)' =>
           \E f \in Flushes, received \in BOOLEAN : LeavesWith(r, f, received)]_vars
  BY <1>1
<1>3. QED
  BY <1>2, Invariance, PTL DEF Spec, NothingForgotten
=============================================================================
