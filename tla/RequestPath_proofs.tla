------------------------- MODULE RequestPath_proofs -------------------------
(***************************************************************************)
(* Proofs about RequestPath, for every number of requests in every stage,  *)
(* every set of directives and every limit of the runtime context.         *)
(***************************************************************************)
EXTENDS RequestPath, FiniteSetTheorems, TLAPS

(* A request whose user the application authenticated is only reported for *)
(* the number of objects it touched.                                       *)
AuthenticatedIsNotSuspect ==
    \A e \in detected : e.kind = "correlate" =>
        \/ ~request[e.request].auth
        \/ Cardinality(context[e.request].ids) > FanOut

(* What the stage of a request says about what was counted for it: no hook *)
(* has looked at a new one, and of the hooks of a routed one with a body-  *)
(* bearing method only preHandler will.                                    *)
CountsInStage ==
    \A r \in Requests :
        /\ phase[r] = "new" => observed[r] = 0
        /\ phase[r] = "routed" /\ request[r].method = "write" => observed[r] = 0
        /\ phase[r] \notin {"refused", "done"} => outcomes[r] = 0

(* And about its detections: those of an inspection came from the only     *)
(* hook that inspects it, those of the correlation at its end.             *)
DetectionsInStage ==
    \A e \in detected :
        /\ phase[e.request] # "new"
        /\ e.kind = "correlate" => phase[e.request] \in {"refused", "done"}
        /\ e.kind = "inspect" /\ phase[e.request] = "routed" =>
             request[e.request].method = "read"

(* The inductive invariant.                                                *)
IInv ==
    /\ TypeOK
    /\ CountsInStage
    /\ DetectionsInStage
    /\ CountedOnce
    /\ EventTellsEnforcement
    /\ AuthenticatedIsNotSuspect

-----------------------------------------------------------------------------
(* The handlers that the actions share                                     *)

(* The initial state satisfies the inductive invariant.                    *)
LEMMA InitIInv == Init => IInv
<1> SUFFICES ASSUME Init PROVE IInv
  OBVIOUS
<1>1. NoRequest \in RequestShape
  BY DEF NoRequest, RequestShape
<1>2. NoContext \in ContextShape
  BY BoundsAssumption DEF NoContext, ContextShape
<1>3. TypeOK
  BY <1>1, <1>2 DEF Init, TypeOK, Modes
<1>4. CountsInStage /\ CountedOnce
  BY DEF Init, CountsInStage, CountedOnce
<1>5. DetectionsInStage /\ EventTellsEnforcement /\ AuthenticatedIsNotSuspect
  BY DEF Init, DetectionsInStage, EventTellsEnforcement, AuthenticatedIsNotSuspect
<1>6. QED
  BY <1>3, <1>4, <1>5 DEF IInv

(* A detection adds one event, and logs and exports nothing but events     *)
(* that were detected.                                                     *)
LEMMA HandleDetectionAdds ==
    ASSUME TypeOK, NEW r \in Requests, NEW kind \in Kinds, HandleDetection(r, kind)
    PROVE  /\ detected' = detected \cup {[request |-> r, kind |-> kind, action |-> mode]}
           /\ detected' \in SUBSET Detections
           /\ journal' \in SUBSET Detections
           /\ exported' \in SUBSET Detections
<1> DEFINE e == [request |-> r, kind |-> kind, action |-> mode]
<1>1. e \in Detections
  BY DEF TypeOK, Detections
<1>2. detected' = detected \cup {e}
  BY DEF HandleDetection
<1>3. journal' = journal \/ journal' = journal \cup {e}
  BY DEF HandleDetection
<1>4. exported' = exported \/ exported' = exported \cup {e}
  BY DEF HandleDetection
<1>5. QED
  BY <1>1, <1>2, <1>3, <1>4 DEF TypeOK

(* inspect() adds an event with the mode in effect exactly if a live agent *)
(* finds something, which is when the adapter blocks in block mode.        *)
LEMMA InspectAdds ==
    ASSUME TypeOK, NEW r \in Requests, NEW q \in RequestShape, NEW v \in BOOLEAN,
           Inspect(r, q, v)
    PROVE  /\ \/ detected' = detected /\ ~Blocks(q, v)
              \/ /\ detected' = detected \cup
                      {[request |-> r, kind |-> "inspect", action |-> mode]}
                 /\ Blocks(q, v) <=> mode = "block"
           /\ detected' \in SUBSET Detections
           /\ journal' \in SUBSET Detections
           /\ exported' \in SUBSET Detections
           /\ observed' \in [Requests -> Nat]
           /\ observed'[r] \in {observed[r], observed[r] + 1}
           /\ \A s \in Requests \ {r} : observed'[s] = observed[s]
<1>1. /\ observed' \in [Requests -> Nat]
      /\ observed'[r] \in {observed[r], observed[r] + 1}
      /\ \A s \in Requests \ {r} : observed'[s] = observed[s]
  BY DEF Inspect, TypeOK
<1>2. CASE ~killed /\ Matches(q, v)
  <2>1. HandleDetection(r, "inspect")
    BY <1>2 DEF Inspect
  <2>2. QED
    BY <1>1, <1>2, <2>1, HandleDetectionAdds DEF Kinds, Blocks
<1>3. CASE ~(~killed /\ Matches(q, v))
  BY <1>1, <1>3 DEF Inspect, telemetry, TypeOK, Blocks
<1>4. QED
  BY <1>2, <1>3

(* beginRequest() keeps the types.                                         *)
LEMMA BeginRequestType ==
    ASSUME TypeOK, NEW r \in Requests, NEW q \in RequestShape, BeginRequest(r, q)
    PROVE  /\ request' \in [Requests -> RequestShape]
           /\ context' \in [Requests -> ContextShape]
           /\ request'[r] = q
           /\ \A s \in Requests \ {r} : request'[s] = request[s] /\ context'[s] = context[s]
  BY DEF TypeOK, BeginRequest, ContextShape

-----------------------------------------------------------------------------
(* The actions                                                             *)

(* The first hook of a request r, when it inspects the request: nothing    *)
(* was counted or detected for r before.                                   *)
LEMMA FirstHookIInv ==
    ASSUME IInv, NEW r \in Requests, NEW q \in RequestShape, NEW v \in BOOLEAN,
           NEW next \in {"routed", "handling"},
           phase[r] = "new", next = "routed" => q.method = "read",
           BeginRequest(r, q), Inspect(r, q, v),
           phase' = [phase EXCEPT ![r] = IF Blocks(q, v) THEN "blocked" ELSE next],
           UNCHANGED <<control, outcomes>>
    PROVE  IInv'
<1> DEFINE e == [request |-> r, kind |-> "inspect", action |-> mode]
<1>1. TypeOK
  BY DEF IInv
<1>2. /\ request' \in [Requests -> RequestShape]
      /\ context' \in [Requests -> ContextShape]
      /\ request'[r] = q
      /\ \A s \in Requests \ {r} : request'[s] = request[s] /\ context'[s] = context[s]
  BY <1>1, BeginRequestType
<1>3. /\ \/ detected' = detected /\ ~Blocks(q, v)
         \/ detected' = detected \cup {e} /\ (Blocks(q, v) <=> mode = "block")
      /\ detected' \in SUBSET Detections
      /\ journal' \in SUBSET Detections
      /\ exported' \in SUBSET Detections
      /\ observed' \in [Requests -> Nat]
      /\ observed'[r] \in {observed[r], observed[r] + 1}
      /\ \A s \in Requests \ {r} : observed'[s] = observed[s]
  BY <1>1, InspectAdds
<1>4. /\ phase'[r] \in {"blocked", next} /\ (phase'[r] = "blocked" <=> Blocks(q, v))
      /\ \A s \in Requests \ {r} : phase'[s] = phase[s]
      /\ phase' \in [Requests -> {"new", "routed", "handling", "blocked", "refused", "done"}]
  BY <1>1 DEF TypeOK
<1>5. TypeOK'
  BY <1>1, <1>2, <1>3, <1>4 DEF TypeOK, control
<1>6. observed[r] = 0 /\ outcomes[r] = 0
  BY DEF IInv, CountsInStage
<1>7. CountsInStage' /\ CountedOnce'
  BY <1>2, <1>3, <1>4, <1>6 DEF IInv, CountsInStage, CountedOnce
<1>8. \A d \in detected : d.request \in Requests \ {r}
  BY <1>1 DEF IInv, DetectionsInStage, TypeOK, Detections
<1>9. DetectionsInStage'
  BY <1>2, <1>3, <1>4, <1>8 DEF IInv, DetectionsInStage
<1>10. EventTellsEnforcement'
  BY <1>3, <1>4, <1>8 DEF IInv, EventTellsEnforcement, IsBlocked
<1>11. AuthenticatedIsNotSuspect'
  BY <1>2, <1>3, <1>8 DEF IInv, AuthenticatedIsNotSuspect
<1>12. QED
  BY <1>5, <1>7, <1>9, <1>10, <1>11 DEF IInv

(* The middleware preserves the inductive invariant.                       *)
LEMMA MiddlewareIInv ==
    ASSUME IInv, NEW r \in Requests, NEW q \in RequestShape, Middleware(r, q)
    PROVE  IInv'
<1>1. q.body \in BOOLEAN
  BY DEF RequestShape
<1>2. /\ phase[r] = "new"
      /\ BeginRequest(r, q)
      /\ Inspect(r, q, q.body)
      /\ phase' = [phase EXCEPT ![r] = IF Blocks(q, q.body) THEN "blocked" ELSE "handling"]
      /\ UNCHANGED <<control, outcomes>>
  BY DEF Middleware
<1>3. QED
  BY <1>1, <1>2, FirstHookIInv

(* Fastify's onRequest hook preserves the inductive invariant.             *)
LEMMA OnRequestIInv ==
    ASSUME IInv, NEW r \in Requests, NEW q \in RequestShape, OnRequest(r, q)
    PROVE  IInv'
<1>1. CASE q.method = "read"
  <2>1. /\ phase[r] = "new"
        /\ BeginRequest(r, q)
        /\ Inspect(r, q, FALSE)
        /\ phase' = [phase EXCEPT ![r] = IF Blocks(q, FALSE) THEN "blocked" ELSE "routed"]
        /\ UNCHANGED <<control, outcomes>>
    BY <1>1 DEF OnRequest
  <2>2. QED
    BY <1>1, <2>1, FirstHookIInv
<1>2. CASE q.method # "read"
  <2>1. TypeOK
    BY DEF IInv
  <2>2. /\ phase[r] = "new"
        /\ BeginRequest(r, q)
        /\ phase' = [phase EXCEPT ![r] = "routed"]
        /\ UNCHANGED <<control, outcomes, observed, telemetry>>
    BY <1>2 DEF OnRequest
  <2>3. /\ request' \in [Requests -> RequestShape]
        /\ context' \in [Requests -> ContextShape]
        /\ \A s \in Requests \ {r} : request'[s] = request[s] /\ context'[s] = context[s]
    BY <2>1, <2>2, BeginRequestType
  <2>4. /\ phase'[r] = "routed"
        /\ \A s \in Requests \ {r} : phase'[s] = phase[s]
        /\ phase' \in [Requests -> {"new", "routed", "handling", "blocked", "refused", "done"}]
    BY <2>1, <2>2 DEF TypeOK
  <2>5. TypeOK'
    BY <2>1, <2>2, <2>3, <2>4 DEF TypeOK, control, telemetry
  <2>6. CountsInStage' /\ CountedOnce'
    BY <2>2, <2>3, <2>4 DEF IInv, CountsInStage, CountedOnce
  <2>7. \A d \in detected : d.request \in Requests \ {r}
    BY <2>1, <2>2 DEF IInv, DetectionsInStage, TypeOK, Detections
  <2>8. DetectionsInStage' /\ EventTellsEnforcement' /\ AuthenticatedIsNotSuspect'
    BY <2>2, <2>3, <2>4, <2>7
    DEF IInv, DetectionsInStage, EventTellsEnforcement, IsBlocked,
        AuthenticatedIsNotSuspect, telemetry
  <2>9. QED
    BY <2>5, <2>6, <2>8 DEF IInv
<1>3. QED
  BY <1>1, <1>2

(* Fastify's preHandler hook: what it inspects no hook has inspected       *)
(* before, so no event of an inspection contradicts what it does.          *)
LEMMA PreHandlerIInv ==
    ASSUME IInv, NEW r \in Requests, PreHandler(r)
    PROVE  IInv'
<1> DEFINE q == request[r]
           e == [request |-> r, kind |-> "inspect", action |-> mode]
           blocks == Blocks(q, TRUE)
<1>1. TypeOK /\ q \in RequestShape
  BY DEF IInv, TypeOK
<1>2. phase[r] = "routed" /\ UNCHANGED <<control, request, context, outcomes>>
  BY DEF PreHandler
<1>3. CASE q.method = "write" /\ q.body
  <2>1. Inspect(r, q, TRUE)
    BY <1>3 DEF PreHandler
  <2>2. /\ \/ detected' = detected /\ ~blocks
           \/ detected' = detected \cup {e} /\ (blocks <=> mode = "block")
        /\ detected' \in SUBSET Detections
        /\ journal' \in SUBSET Detections
        /\ exported' \in SUBSET Detections
        /\ observed' \in [Requests -> Nat]
        /\ observed'[r] \in {observed[r], observed[r] + 1}
        /\ \A s \in Requests \ {r} : observed'[s] = observed[s]
    BY <1>1, <2>1, InspectAdds
  <2>3. phase' = [phase EXCEPT ![r] = IF Blocks(q, TRUE) THEN "blocked" ELSE "handling"]
    BY <1>3 DEF PreHandler
  <2>4. /\ phase'[r] \in {"blocked", "handling"}
        /\ phase'[r] = "blocked" <=> blocks
        /\ \A s \in Requests \ {r} : phase'[s] = phase[s]
        /\ phase' \in [Requests -> {"new", "routed", "handling", "blocked", "refused", "done"}]
    BY <1>1, <2>3 DEF TypeOK
  <2> HIDE DEF blocks
  <2>5. TypeOK'
    BY <1>1, <1>2, <2>2, <2>4 DEF TypeOK, control
  <2>6. observed[r] = 0 /\ outcomes[r] = 0
    BY <1>2, <1>3 DEF IInv, CountsInStage
  <2>7. CountsInStage' /\ CountedOnce'
    BY <1>2, <2>2, <2>4, <2>6 DEF IInv, CountsInStage, CountedOnce
  <2>8. \A d \in detected : d.request \in Requests
                              /\ (d.request = r => d.kind \notin {"inspect", "correlate"})
    BY <1>1, <1>2, <1>3 DEF IInv, DetectionsInStage, TypeOK, Detections
  <2>9. DetectionsInStage'
    BY <1>2, <2>2, <2>4, <2>8 DEF IInv, DetectionsInStage
  <2>10. EventTellsEnforcement'
    BY <2>2, <2>4, <2>8 DEF IInv, EventTellsEnforcement, IsBlocked
  <2>11. AuthenticatedIsNotSuspect'
    BY <1>2, <2>2 DEF IInv, AuthenticatedIsNotSuspect
  <2>12. QED
    BY <2>5, <2>7, <2>9, <2>10, <2>11 DEF IInv
<1>4. CASE ~(q.method = "write" /\ q.body)
  <2>1. UNCHANGED <<observed, telemetry>>
    BY <1>4 DEF PreHandler
  <2>2. phase' = [phase EXCEPT ![r] = "handling"]
    BY <1>4 DEF PreHandler
  <2>3. /\ phase'[r] = "handling"
        /\ \A s \in Requests \ {r} : phase'[s] = phase[s]
        /\ phase' \in [Requests -> {"new", "routed", "handling", "blocked", "refused", "done"}]
    BY <1>1, <2>2 DEF TypeOK
  <2>4. TypeOK'
    BY <1>1, <1>2, <2>1, <2>3 DEF TypeOK, control, telemetry
  <2>5. CountsInStage' /\ CountedOnce'
    BY <1>2, <2>1, <2>3 DEF IInv, CountsInStage, CountedOnce
  <2>6. \A d \in detected : d.request \in Requests
    BY <1>1 DEF TypeOK, Detections
  <2>7. DetectionsInStage' /\ EventTellsEnforcement' /\ AuthenticatedIsNotSuspect'
    BY <1>2, <2>1, <2>3, <2>6
    DEF IInv, DetectionsInStage, EventTellsEnforcement, IsBlocked,
        AuthenticatedIsNotSuspect, telemetry
  <2>8. QED
    BY <2>4, <2>5, <2>7 DEF IInv
<1>5. QED
  BY <1>3, <1>4

(* A query is recorded within the limit, and only while no correlation has *)
(* been made of the request.                                               *)
LEMMA QueryIInv ==
    ASSUME IInv, NEW r \in Requests, NEW ids \in SUBSET Ids, Query(r, ids)
    PROVE  IInv'
<1>1. TypeOK
  BY DEF IInv
<1>2. /\ phase[r] = "handling"
      /\ context' = [context EXCEPT ![r] = Recorded(context[r], ids)]
      /\ UNCHANGED <<control, request, phase, observed, outcomes, telemetry>>
  BY DEF Query
<1>3. Recorded(context[r], ids) \in ContextShape
  <2> DEFINE c == context[r]
             more == [c EXCEPT !.queries = @ + 1, !.ids = @ \cup ids]
  <2>1. c \in ContextShape
    BY <1>1 DEF TypeOK
  <2>2. c.queries \in 0 .. MaxQueries /\ c.ids \cup ids \in SUBSET Ids
    BY <2>1 DEF ContextShape
  <2>3. c.queries < MaxQueries => c.queries + 1 \in 0 .. MaxQueries
    BY <2>2, BoundsAssumption
  <2>4. c.queries < MaxQueries => more \in ContextShape
    BY <2>1, <2>2, <2>3 DEF ContextShape
  <2>5. QED
    BY <2>1, <2>4 DEF Recorded
<1>4. /\ context' \in [Requests -> ContextShape]
      /\ \A s \in Requests \ {r} : context'[s] = context[s]
  BY <1>1, <1>2, <1>3 DEF TypeOK
<1>5. TypeOK'
  BY <1>1, <1>2, <1>4 DEF TypeOK, control, telemetry
<1>6. CountsInStage' /\ CountedOnce' /\ DetectionsInStage' /\ EventTellsEnforcement'
  BY <1>2 DEF IInv, CountsInStage, CountedOnce, DetectionsInStage,
              EventTellsEnforcement, IsBlocked, telemetry
<1>7. \A d \in detected : d.kind = "correlate" => d.request \in Requests \ {r}
  BY <1>1, <1>2 DEF IInv, DetectionsInStage, TypeOK, Detections
<1>8. AuthenticatedIsNotSuspect'
  BY <1>2, <1>4, <1>7 DEF IInv, AuthenticatedIsNotSuspect, telemetry
<1>9. QED
  BY <1>5, <1>6, <1>8 DEF IInv

(* The end of a request: it is counted once, and a finding of the          *)
(* correlation is justified by what the context has recorded.              *)
LEMMA RespondIInv ==
    ASSUME IInv, NEW r \in Requests, Respond(r)
    PROVE  IInv'
<1> DEFINE e == [request |-> r, kind |-> "correlate", action |-> mode]
<1>1. TypeOK
  BY DEF IInv
<1>2. /\ phase[r] \in {"handling", "blocked"}
      /\ phase' = [phase EXCEPT ![r] = IF phase[r] = "blocked" THEN "refused" ELSE "done"]
      /\ EndRequest(r)
      /\ UNCHANGED <<control, request, context, observed>>
  BY DEF Respond
<1>3. /\ phase'[r] \in {"refused", "done"}
      /\ phase'[r] = "refused" <=> phase[r] = "blocked"
      /\ \A s \in Requests \ {r} : phase'[s] = phase[s]
      /\ phase' \in [Requests -> {"new", "routed", "handling", "blocked", "refused", "done"}]
  BY <1>1, <1>2 DEF TypeOK
<1>4. /\ outcomes' \in [Requests -> Nat]
      /\ outcomes'[r] \in {outcomes[r], outcomes[r] + 1}
      /\ \A s \in Requests \ {r} : outcomes'[s] = outcomes[s]
  BY <1>1, <1>2 DEF TypeOK, EndRequest
<1>5. /\ \/ detected' = detected
         \/ detected' = detected \cup {e} /\ Suspicious(context[r], request[r])
      /\ detected' \in SUBSET Detections
      /\ journal' \in SUBSET Detections
      /\ exported' \in SUBSET Detections
  <2>1. CASE context[r].bound /\ ~killed /\ Suspicious(context[r], request[r])
    <3>1. HandleDetection(r, "correlate")
      BY <1>2, <2>1 DEF EndRequest
    <3>2. QED
      BY <1>1, <2>1, <3>1, HandleDetectionAdds DEF Kinds
  <2>2. CASE ~(context[r].bound /\ ~killed /\ Suspicious(context[r], request[r]))
    BY <1>1, <1>2, <2>2 DEF EndRequest, telemetry, TypeOK
  <2>3. QED
    BY <2>1, <2>2
<1>6. TypeOK'
  BY <1>1, <1>2, <1>3, <1>4, <1>5 DEF TypeOK, control
<1>7. outcomes[r] = 0
  BY <1>2 DEF IInv, CountsInStage
<1>8. CountsInStage' /\ CountedOnce'
  BY <1>2, <1>3, <1>4, <1>7 DEF IInv, CountsInStage, CountedOnce
<1>9. \A d \in detected : d.request \in Requests
  BY <1>1 DEF TypeOK, Detections
<1>10. DetectionsInStage'
  BY <1>2, <1>3, <1>5, <1>9 DEF IInv, DetectionsInStage
<1>11. EventTellsEnforcement'
  BY <1>2, <1>3, <1>5, <1>9 DEF IInv, EventTellsEnforcement, IsBlocked
<1>12. Suspicious(context[r], request[r]) =>
           ~request[r].auth \/ Cardinality(context[r].ids) > FanOut
  BY DEF Suspicious
<1>13. AuthenticatedIsNotSuspect'
  BY <1>2, <1>5, <1>12 DEF IInv, AuthenticatedIsNotSuspect
<1>14. QED
  BY <1>6, <1>8, <1>10, <1>11, <1>13 DEF IInv

(* A client that goes away.                                                *)
LEMMA ClientAbortsIInv ==
    ASSUME IInv, NEW r \in Requests, ClientAborts(r)
    PROVE  IInv'
<1>1. TypeOK
  BY DEF IInv
<1>2. /\ phase[r] \in {"routed", "handling"}
      /\ phase' = [phase EXCEPT ![r] = "done"]
      /\ UNCHANGED <<control, request, context, observed, outcomes, telemetry>>
  BY DEF ClientAborts
<1>3. /\ phase'[r] = "done"
      /\ \A s \in Requests \ {r} : phase'[s] = phase[s]
      /\ phase' \in [Requests -> {"new", "routed", "handling", "blocked", "refused", "done"}]
  BY <1>1, <1>2 DEF TypeOK
<1>4. TypeOK'
  BY <1>1, <1>2, <1>3 DEF TypeOK, control, telemetry
<1>5. CountsInStage' /\ CountedOnce'
  BY <1>2, <1>3 DEF IInv, CountsInStage, CountedOnce
<1>6. \A d \in detected : d.request \in Requests
  BY <1>1 DEF TypeOK, Detections
<1>7. DetectionsInStage' /\ EventTellsEnforcement' /\ AuthenticatedIsNotSuspect'
  BY <1>2, <1>3, <1>6
  DEF IInv, DetectionsInStage, EventTellsEnforcement, IsBlocked,
      AuthenticatedIsNotSuspect, telemetry
<1>8. QED
  BY <1>4, <1>5, <1>7 DEF IInv

(* The control plane touches no request.                                   *)
LEMMA ControlIInv ==
    ASSUME IInv, SwitchKill \/ ApplyPolicy
    PROVE  IInv'
<1>1. UNCHANGED <<config, request, phase, context, observed, outcomes, telemetry>>
  BY DEF SwitchKill, ApplyPolicy
<1>2. /\ killed' \in BOOLEAN /\ mode' \in Modes
      /\ residency' \in Directives \cup {NoDirective}
      /\ redaction' \in {"clean", "flattens", "throws"}
  BY DEF IInv, TypeOK, SwitchKill, ApplyPolicy
<1>3. TypeOK'
  BY <1>1, <1>2 DEF IInv, TypeOK, telemetry
<1>4. CountsInStage' /\ DetectionsInStage' /\ CountedOnce'
      /\ EventTellsEnforcement' /\ AuthenticatedIsNotSuspect'
  BY <1>1 DEF IInv, CountsInStage, DetectionsInStage, CountedOnce,
              EventTellsEnforcement, IsBlocked, AuthenticatedIsNotSuspect, telemetry
<1>5. QED
  BY <1>3, <1>4 DEF IInv

(* Every step preserves the inductive invariant.                           *)
LEMMA NextIInv == IInv /\ [Next]_vars => IInv'
<1> SUFFICES ASSUME IInv, [Next]_vars PROVE IInv'
  OBVIOUS
<1>1. CASE SwitchKill \/ ApplyPolicy
  BY <1>1, ControlIInv
<1>2. ASSUME NEW r \in Requests, NEW q \in RequestShape, Middleware(r, q) \/ OnRequest(r, q)
      PROVE  IInv'
  BY <1>2, MiddlewareIInv, OnRequestIInv
<1>3. ASSUME NEW r \in Requests, PreHandler(r) \/ Respond(r) \/ ClientAborts(r)
      PROVE  IInv'
  BY <1>3, PreHandlerIInv, RespondIInv, ClientAbortsIInv
<1>4. ASSUME NEW r \in Requests, NEW ids \in SUBSET Ids, Query(r, ids)
      PROVE  IInv'
  BY <1>4, QueryIInv
<1>5. CASE UNCHANGED vars
  BY <1>5 DEF vars, control, telemetry, IInv, TypeOK, CountsInStage, DetectionsInStage,
              CountedOnce, EventTellsEnforcement, IsBlocked, AuthenticatedIsNotSuspect
<1>6. QED
  BY <1>1, <1>2, <1>3, <1>4, <1>5 DEF Next

(* IInv is an invariant.                                                   *)
LEMMA SpecIInv == Spec => []IInv
  BY InitIInv, NextIInv, PTL DEF Spec

-----------------------------------------------------------------------------
(* Theorems                                                                *)

(* Type correctness; a context never records more than MaxQueries.         *)
THEOREM TypeCorrect == Spec => []TypeOK
<1>1. IInv => TypeOK
  BY DEF IInv
<1>2. QED
  BY <1>1, SpecIInv, PTL

(* No request is inspected or counted twice, in whatever order its hooks   *)
(* and those of other requests run.                                        *)
THEOREM CountsOnce == Spec => []CountedOnce
<1>1. IInv => CountedOnce
  BY DEF IInv
<1>2. QED
  BY <1>1, SpecIInv, PTL

(* The action of an event is what was done to its request, although the    *)
(* mode may change between any two hooks.                                  *)
THEOREM TellsEnforcement == Spec => []EventTellsEnforcement
<1>1. IInv => EventTellsEnforcement
  BY DEF IInv
<1>2. QED
  BY <1>1, SpecIInv, PTL

(* An authenticated request is only reported for its fan-out.              *)
THEOREM NoFalseSuspicion == Spec => []AuthenticatedIsNotSuspect
<1>1. IInv => AuthenticatedIsNotSuspect
  BY DEF IInv
<1>2. QED
  BY <1>1, SpecIInv, PTL

(* A killed agent adds nothing to what it has observed and detected: every *)
(* hook that does looks at the kill switch itself.                         *)
THEOREM KilledIsSilent == Spec => KilledAddsNothing
<1>1. ASSUME [Next]_vars, killed
      PROVE  UNCHANGED <<observed, outcomes, telemetry>>
  <2>1. CASE SwitchKill \/ ApplyPolicy \/ UNCHANGED vars
    BY <2>1 DEF SwitchKill, ApplyPolicy, vars, telemetry
  <2>2. ASSUME NEW r \in Requests, NEW q \in RequestShape, Middleware(r, q) \/ OnRequest(r, q)
        PROVE  UNCHANGED <<observed, outcomes, telemetry>>
    BY <1>1, <2>2 DEF Middleware, OnRequest, Inspect
  <2>3. ASSUME NEW r \in Requests, PreHandler(r) \/ Respond(r) \/ ClientAborts(r)
        PROVE  UNCHANGED <<observed, outcomes, telemetry>>
    BY <1>1, <2>3 DEF PreHandler, Inspect, Respond, EndRequest, ClientAborts
  <2>4. ASSUME NEW r \in Requests, NEW ids \in SUBSET Ids, Query(r, ids)
        PROVE  UNCHANGED <<observed, outcomes, telemetry>>
    BY <2>4 DEF Query
  <2>5. QED
    BY <1>1, <2>1, <2>2, <2>3, <2>4 DEF Next
<1>2. QED
  BY <1>1, PTL DEF Spec, KilledAddsNothing

(* With the log on, every detection is journaled unless the redaction has  *)
(* flattened its event, whatever the residency directive keeps at home.    *)
THEOREM Journaled == Spec => JournaledUnlessFlattened
<1>1. ASSUME IInv, [Next]_vars, config.audit, redaction # "flattens"
      PROVE  detected' \ detected \subseteq journal'
  <2>1. redaction \in {"clean", "throws"}
    BY <1>1 DEF IInv, TypeOK
  <2>2. ASSUME NEW r \in Requests, NEW kind \in Kinds, HandleDetection(r, kind)
        PROVE  detected' \ detected \subseteq journal'
    BY <1>1, <2>1, <2>2 DEF HandleDetection
  <2>3. CASE UNCHANGED detected
    BY <2>3
  <2>4. ASSUME NEW r \in Requests, NEW q, NEW v, Inspect(r, q, v)
        PROVE  detected' \ detected \subseteq journal'
    BY <2>2, <2>3, <2>4 DEF Inspect, Kinds, telemetry
  <2>5. CASE SwitchKill \/ ApplyPolicy \/ UNCHANGED vars
    BY <2>3, <2>5 DEF SwitchKill, ApplyPolicy, vars, telemetry
  <2>6. ASSUME NEW r \in Requests, NEW q \in RequestShape, Middleware(r, q) \/ OnRequest(r, q)
        PROVE  detected' \ detected \subseteq journal'
    BY <2>3, <2>4, <2>6 DEF Middleware, OnRequest, telemetry
  <2>7. ASSUME NEW r \in Requests, PreHandler(r) \/ Respond(r) \/ ClientAborts(r)
        PROVE  detected' \ detected \subseteq journal'
    BY <2>2, <2>3, <2>4, <2>7 DEF PreHandler, Respond, EndRequest, ClientAborts, Kinds, telemetry
  <2>8. ASSUME NEW r \in Requests, NEW ids \in SUBSET Ids, Query(r, ids)
        PROVE  detected' \ detected \subseteq journal'
    BY <2>3, <2>8 DEF Query, telemetry
  <2>9. QED
    BY <1>1, <2>5, <2>6, <2>7, <2>8 DEF Next
<1>2. QED
  BY <1>1, SpecIInv, PTL DEF Spec, JournaledUnlessFlattened
=============================================================================
