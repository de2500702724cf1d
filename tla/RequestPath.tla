----------------------------- MODULE RequestPath -----------------------------
(***************************************************************************)
(* A request on its way through the agent: the framework adapters          *)
(* (integrations/express.ts, nestjs.ts, fastify.ts), RaspAgent's           *)
(* beginRequest, inspect, handleDetection, applyDataResidency and          *)
(* endRequest (agent.ts), the runtime context that the database hooks fill *)
(* (runtime-context.ts, db-hooks/instrument.ts) and the correlation of the *)
(* queries with the request (db-hooks/correlate.ts).                       *)
(*                                                                         *)
(* Every handler is synchronous.  Between two handlers of a request the    *)
(* control plane may pull or lift the kill switch and apply a policy.      *)
(***************************************************************************)
EXTENDS Integers, FiniteSets

CONSTANTS
    Requests,     \* the requests the application serves
    Ids,          \* object ids, as they occur in database queries
    OwnIds,       \* those that the URL or the token of a request names
    MaxQueries,   \* queries that a context records (200)
    FanOut,       \* FANOUT_ID_THRESHOLD (25)
    Directives    \* the residency directives that policies contain

Modes == {"monitor", "block"}
Kinds == {"inspect", "correlate"}   \* what a detection comes from

(* DataResidencyConfig; no types means that all are exported.              *)
DirectiveShape == [localOnly : BOOLEAN, blockedOnly : BOOLEAN, types : SUBSET Kinds]
NoDirective == [localOnly |-> FALSE, blockedOnly |-> FALSE, types |-> {}]

ASSUME DirectivesAssumption == Directives \subseteq DirectiveShape
ASSUME BoundsAssumption == MaxQueries \in Nat /\ FanOut \in Nat

VARIABLES
    config,     \* adapter, instrumentDb, auditLog and mode at boot: fixed
    killed,     \* agent.killed
    mode,       \* agent.currentMode
    residency,  \* agent.dataResidency
    redaction,  \* what agent.redaction makes of an event
    request,    \* what each request is like
    phase,      \* how far each request is
    context,    \* its RequestContext
    observed,   \* calls of observer.observe() for it
    outcomes,   \* calls of observer.observeOutcome() for it
    detected,   \* the detections that handleDetection() was called for
    journal,    \* those that have a line in the audit log
    exported    \* those that were enqueued for the collector

control == <<config, killed, mode, residency, redaction>>
telemetry == <<detected, journal, exported>>
vars == <<control, request, phase, context, observed, outcomes, telemetry>>

(* "write" stands for POST, PUT, PATCH and DELETE.  An attack is in the    *)
(* head of the request (path, query, headers) or in its body.  user: the   *)
(* request has a token with a subject; auth: an authentication middleware  *)
(* of the application will have accepted it.                               *)
RequestShape ==
    {q \in [method : {"read", "write"}, body : BOOLEAN,
            attack : {"none", "head", "body"}, user : BOOLEAN, auth : BOOLEAN] :
        (q.body => q.method = "write") /\ (q.attack = "body" => q.body)}

NoRequest == [method |-> "read", body |-> FALSE, attack |-> "none",
              user |-> FALSE, auth |-> FALSE]

ContextShape == [bound : BOOLEAN, queries : 0 .. MaxQueries, ids : SUBSET Ids]
NoContext == [bound |-> FALSE, queries |-> 0, ids |-> {}]

Detections == [request : Requests, kind : Kinds, action : Modes]

(* 403: before, and after, the response hook of the blocked request ran.   *)
IsBlocked(r) == phase[r] \in {"blocked", "refused"}

-----------------------------------------------------------------------------
(* handleDetection()                                                       *)

(* applyDataResidency() lets the event through.                            *)
Exports(e) ==
    /\ ~residency.localOnly
    /\ residency.types # {} => e.kind \in residency.types
    /\ residency.blockedOnly => e.action = "block"

(* As HandleDetection, writing the audit line of what is exported only.    *)
HandleDetectionResidencyFirst(r, kind) ==
    LET e == [request |-> r, kind |-> kind, action |-> mode]
        kept == redaction = "throws" \/ (redaction = "clean" /\ config.audit /\ Exports(e))
    IN  /\ detected' = detected \cup {e}
        /\ journal' = IF kept THEN journal \cup {e} ELSE journal
        /\ exported' = IF redaction = "clean" /\ Exports(e)
                       THEN exported \cup {e} ELSE exported

(* An event whose redaction throws is dropped and leaves a line in the     *)
(* log, whatever auditLog says.  When the redaction replaced the metadata  *)
(* as a whole, setting their flags throws, and nobody catches it: the      *)
(* detection leaves no trace.                                              *)
HandleDetection(r, kind) ==
    LET e == [request |-> r, kind |-> kind, action |-> mode]
        kept == redaction = "throws" \/ (redaction = "clean" /\ config.audit)
    IN  /\ detected' = detected \cup {e}
        /\ journal' = IF kept THEN journal \cup {e} ELSE journal
        /\ exported' = IF redaction = "clean" /\ Exports(e)
                       THEN exported \cup {e} ELSE exported

-----------------------------------------------------------------------------
(* inspect() and the adapters                                              *)

(* A detector matches what is visible of a request q.                      *)
Matches(q, bodyVisible) == q.attack = "head" \/ (q.attack = "body" /\ bodyVisible)

(* inspect(): nothing while the agent is killed.                           *)
Inspect(r, q, bodyVisible) ==
    /\ observed' = IF killed THEN observed ELSE [observed EXCEPT ![r] = @ + 1]
    /\ IF ~killed /\ Matches(q, bodyVisible)
       THEN HandleDetection(r, "inspect")
       ELSE UNCHANGED telemetry

(* As Blocks, by the mode of the boot configuration.                       *)
BlocksByBootMode(q, bodyVisible) ==
    ~killed /\ Matches(q, bodyVisible) /\ config.mode = "block"

(* The adapter answers 403: inspect() returned a detection and agent.mode  *)
(* says so.                                                                *)
Blocks(q, bodyVisible) ==
    ~killed /\ Matches(q, bodyVisible) /\ mode = "block"

(* beginRequest(): binds a context, for the queries of the handler.        *)
BeginRequest(r, q) ==
    /\ request' = [request EXCEPT ![r] = q]
    /\ context' = [context EXCEPT ![r].bound = config.instrumentDb /\ ~killed]

(* The middleware of Express and NestJS; it runs after body parsing.       *)
Middleware(r, q) ==
    /\ config.adapter = "middleware"
    /\ phase[r] = "new"
    /\ BeginRequest(r, q)
    /\ Inspect(r, q, q.body)
    /\ phase' = [phase EXCEPT ![r] = IF Blocks(q, q.body) THEN "blocked" ELSE "handling"]
    /\ UNCHANGED <<control, outcomes>>

(* As OnRequest, inspecting requests of all methods.                       *)
OnRequestInspectingAll(r, q) ==
    /\ config.adapter = "fastify"
    /\ phase[r] = "new"
    /\ BeginRequest(r, q)
    /\ Inspect(r, q, FALSE)
    /\ phase' = [phase EXCEPT ![r] = IF Blocks(q, FALSE) THEN "blocked" ELSE "routed"]
    /\ UNCHANGED <<control, outcomes>>

(* Fastify's onRequest hook leaves requests with a body to preHandler.     *)
OnRequest(r, q) ==
    /\ config.adapter = "fastify"
    /\ phase[r] = "new"
    /\ BeginRequest(r, q)
    /\ IF q.method = "read"
       THEN Inspect(r, q, FALSE)
       ELSE UNCHANGED <<observed, telemetry>>
    /\ phase' = [phase EXCEPT ![r] =
                    IF q.method = "read" /\ Blocks(q, FALSE) THEN "blocked" ELSE "routed"]
    /\ UNCHANGED <<control, outcomes>>

(* Fastify's preHandler hook; a request without a body is not looked at.   *)
PreHandler(r) ==
    LET q == request[r]
        inspected == q.method = "write" /\ q.body
    IN  /\ phase[r] = "routed"
        /\ IF inspected THEN Inspect(r, q, TRUE) ELSE UNCHANGED <<observed, telemetry>>
        /\ phase' = [phase EXCEPT ![r] =
                        IF inspected /\ Blocks(q, TRUE) THEN "blocked" ELSE "handling"]
        /\ UNCHANGED <<control, request, context, outcomes>>

-----------------------------------------------------------------------------
(* The handler of the application and the end of the request               *)

(* recordDbQuery() of a query with these ids.                              *)
Recorded(c, ids) ==
    IF c.queries < MaxQueries
    THEN [c EXCEPT !.queries = @ + 1, !.ids = @ \cup ids]
    ELSE c

(* The handler queries the database; the wrapper of the driver records the *)
(* query in the context of the request, if it has one.                     *)
Query(r, ids) ==
    /\ phase[r] = "handling"
    /\ context[r].bound
    /\ context' = [context EXCEPT ![r] = Recorded(@, ids)]
    /\ UNCHANGED <<control, request, phase, observed, outcomes, telemetry>>

(* correlateBola(): too many objects, or an object of somebody else and no *)
(* authorization (endRequest() took it from the outcome).                  *)
Suspicious(c, q) ==
    /\ c.queries > 0
    /\ Cardinality(c.ids) > FanOut \/ (q.user /\ ~q.auth /\ c.ids \ OwnIds # {})

(* As EndRequest, looking at the kill switch for the outcome only.         *)
EndRequestWhileKilled(r) ==
    /\ outcomes' = IF killed THEN outcomes ELSE [outcomes EXCEPT ![r] = @ + 1]
    /\ IF context[r].bound /\ Suspicious(context[r], request[r])
       THEN HandleDetection(r, "correlate")
       ELSE UNCHANGED telemetry

(* endRequest().                                                           *)
EndRequest(r) ==
    /\ outcomes' = IF killed THEN outcomes ELSE [outcomes EXCEPT ![r] = @ + 1]
    /\ IF context[r].bound /\ ~killed /\ Suspicious(context[r], request[r])
       THEN HandleDetection(r, "correlate")
       ELSE UNCHANGED telemetry

(* The response has been sent: the "finish" listener, which a blocked      *)
(* request does not get, or the onResponse hook, which all requests get.   *)
Respond(r) ==
    /\ phase[r] = "handling" \/ (phase[r] = "blocked" /\ config.adapter = "fastify")
    /\ phase' = [phase EXCEPT ![r] = IF @ = "blocked" THEN "refused" ELSE "done"]
    /\ EndRequest(r)
    /\ UNCHANGED <<control, request, context, observed>>

(* The client goes away first: no response is finished, no listener runs.  *)
ClientAborts(r) ==
    /\ phase[r] \in {"routed", "handling"}
    /\ phase' = [phase EXCEPT ![r] = "done"]
    /\ UNCHANGED <<control, request, context, observed, outcomes, telemetry>>

-----------------------------------------------------------------------------
(* The control plane                                                       *)

(* handleKillSwitch() and handleRecover().                                 *)
SwitchKill ==
    /\ killed' = ~killed
    /\ UNCHANGED <<config, mode, residency, redaction>>
    /\ UNCHANGED <<request, phase, context, observed, outcomes, telemetry>>

(* applyPolicy(); an answer may arrive while the agent is killed.  A        *)
(* pattern of the policy may match the key "metadata".                     *)
ApplyPolicy ==
    /\ mode' \in Modes
    /\ residency' \in Directives
    /\ redaction' \in {"clean", "flattens", "throws"}
    /\ UNCHANGED <<config, killed>>
    /\ UNCHANGED <<request, phase, context, observed, outcomes, telemetry>>

Init ==
    /\ config \in [adapter : {"middleware", "fastify"}, instrumentDb : BOOLEAN,
                   audit : BOOLEAN, mode : Modes]
    /\ killed = FALSE
    /\ mode = config.mode
    /\ residency = NoDirective
    /\ redaction = "clean"
    /\ request = [r \in Requests |-> NoRequest]
    /\ phase = [r \in Requests |-> "new"]
    /\ context = [r \in Requests |-> NoContext]
    /\ observed = [r \in Requests |-> 0]
    /\ outcomes = [r \in Requests |-> 0]
    /\ detected = {} /\ journal = {} /\ exported = {}

Next ==
    \/ SwitchKill
    \/ ApplyPolicy
    \/ \E r \in Requests :
        \/ \E q \in RequestShape : Middleware(r, q) \/ OnRequest(r, q)
        \/ PreHandler(r)
        \/ \E ids \in SUBSET Ids : Query(r, ids)
        \/ Respond(r)
        \/ ClientAborts(r)

Spec == Init /\ [][Next]_vars

-----------------------------------------------------------------------------
(* Properties                                                              *)

TypeOK ==
    /\ config \in [adapter : {"middleware", "fastify"}, instrumentDb : BOOLEAN,
                   audit : BOOLEAN, mode : Modes]
    /\ killed \in BOOLEAN
    /\ mode \in Modes
    /\ residency \in Directives \cup {NoDirective}
    /\ redaction \in {"clean", "flattens", "throws"}
    /\ request \in [Requests -> RequestShape]
    /\ phase \in [Requests -> {"new", "routed", "handling", "blocked", "refused", "done"}]
    /\ context \in [Requests -> ContextShape]
    /\ observed \in [Requests -> Nat]
    /\ outcomes \in [Requests -> Nat]
    /\ detected \in SUBSET Detections
    /\ journal \in SUBSET Detections
    /\ exported \in SUBSET Detections

(* The two hooks of Fastify never both inspect a request, and a response   *)
(* is counted once: the traffic profile counts requests, not hooks.        *)
CountedOnce == \A r \in Requests : observed[r] <= 1 /\ outcomes[r] <= 1

(* The action that the event of an inspection carries is what the adapter  *)
(* did: the request was blocked, or it went on to the handler, although    *)
(* policies change the mode between the hooks and after them.              *)
EventTellsEnforcement ==
    \A e \in detected : e.kind = "inspect" =>
        (e.action = "block" <=> IsBlocked(e.request))

(* With auditLog on, a detection that stays at home because of a residency *)
(* directive, or whose redaction throws, still has its line in the log:    *)
(* all that can be missing is what a flattened event took with it.         *)
JournaledUnlessFlattened ==
    [][config.audit /\ redaction # "flattens" =>
        detected' \ detected \subseteq journal']_vars

(* While the kill switch is pulled nothing of a request is observed,       *)
(* journaled or enqueued, not even if it was under way before.             *)
KilledAddsNothing ==
    [][killed => UNCHANGED <<observed, outcomes, telemetry>>]_vars

(* Three claims that the code does not keep.  fastify.ts: "body-bearing    *)
(* methods are inspected once in preHandler".                              *)
WritesInspectedInPreHandler ==
    [][\A r \in Requests :
        /\ phase[r] = "routed" /\ phase'[r] \in {"handling", "blocked"}
        /\ request[r].method = "write"
        /\ ~killed
        => observed'[r] = 1]_vars

(* policy/types.ts, exportBlockedOnly: "Only export blocked detections     *)
(* (not informational/monitor)."                                           *)
OnlyBlockedExported ==
    [][residency.blockedOnly =>
        \A e \in exported' \ exported : IsBlocked(e.request)']_vars

(* README: "Every redaction action is journaled locally as JSONL".         *)
RedactionIsJournaled == config.audit => detected \subseteq journal
=============================================================================
