----------------------------- MODULE Inspection -----------------------------
(***************************************************************************)
(* RaspAgent.inspect() from the detectors to the event: the chain with the *)
(* BOLA detector in it, the choice of the primary detection, the assembly  *)
(* of the event in handleDetection() and its redaction.                    *)
(*                                                                         *)
(* The other detectors have no state: a request comes with what each of    *)
(* them makes of it.  What becomes of the event afterwards (residency,     *)
(* journal, kill switch) is the module RequestPath.                        *)
(***************************************************************************)
EXTENDS Bola, Redaction

CONSTANTS
    IPv6,       \* the addresses that are not IPv4, nor mapped from it
    Requests,   \* requests that are tried once, on a fresh agent
    Callers,    \* the addresses of all other requests,
    Subjects,   \* and the subjects of their tokens
    Names,      \* names of detectors, ids of custom rules
    MaxTime     \* a bound for now

VARIABLE event   \* what the last step handed to the buffer, if anything

inspectionVars == <<bolaVars, event>>

NoEvent == [outcome |-> "none"]

-----------------------------------------------------------------------------
(* The detector chain                                                      *)

Severities == {"critical", "high", "medium", "low"}

Rank(severity) ==
    CASE severity = "critical" -> 4 [] severity = "high" -> 3
      [] severity = "medium" -> 2   [] severity = "low" -> 1

Plain == [words |-> <<Word("text", "bare")>>, oversized |-> FALSE]

(* A DetectionResult: detectorName, severity and description.              *)
Hit(name, severity, description) ==
    [name |-> name, severity |-> severity, description |-> description]

Quiet == [throws |-> FALSE, hits |-> <<>>]

AddressWord(addr) == Word(IF addr \in IPv6 THEN "ipv6" ELSE "ip", "bare")

(* The BOLA detector's result; a report of enumeration names the address.  *)
BolaResult(v, addr) ==
    [throws |-> FALSE,
     hits |-> CASE v = "none" -> <<>>
                [] v = "mismatch" -> <<Hit("bola", "high", Plain)>>
                [] v = "enumeration" -> <<Hit("bola", "high",
                     [words |-> <<Word("text", "bare"), AddressWord(addr)>>,
                      oversized |-> FALSE])>>]

(* CustomRuleDetector: the rules it compiles, and all that match, in the   *)
(* order of the policy.                                                    *)
Compiled(rule) == rule.enabled /\ rule.safe

RuleHit(rule) ==
    Hit(rule.id, IF rule.severity = "absent" THEN "medium" ELSE rule.severity,
        rule.description)

RulesResult(rules) ==
    [throws |-> FALSE,
     hits |-> FlattenSeq([i \in DOMAIN rules |->
                 IF Compiled(rules[i]) /\ rules[i].matches
                 THEN <<RuleHit(rules[i])>> ELSE <<>>])]

(* rebuildDetectors: built-in, then custom rules, then the caller's.       *)
Chain(r, v) == r.builtIn \o <<BolaResult(v, r.addr), RulesResult(r.rules), r.extra>>

(* As Matches, giving up at the first detector that throws.                *)
MatchesUpToThrow(chain) ==
    LET thrown == {i \in DOMAIN chain : chain[i].throws}
    IN  FlattenSeq([i \in DOMAIN chain |->
            IF \E j \in thrown : j <= i THEN <<>> ELSE chain[i].hits])

(* inspect(): all matches; what a detector that throws had found is lost.  *)
Matches(chain) ==
    FlattenSeq([i \in DOMAIN chain |->
        IF chain[i].throws THEN <<>> ELSE chain[i].hits])

(* pickPrimaryDetection: one pass, in which only a more severe candidate   *)
(* replaces the one at hand.                                               *)
Better(candidate, primary) ==
    IF Rank(candidate.severity) > Rank(primary.severity) THEN candidate
                                                         ELSE primary

PickPrimary(matches) ==
    LET primary[i \in DOMAIN matches] ==
            IF i = 1 THEN matches[1] ELSE Better(matches[i], primary[i - 1])
    IN  primary[Len(matches)]

-----------------------------------------------------------------------------
(* Requests                                                                *)

HitShape == [name : Names, severity : Severities, description : FreshText]
ResultShape == [throws : BOOLEAN, hits : Seq(HitShape)]

RuleShape ==
    [id : Names, enabled : BOOLEAN, safe : BOOLEAN, matches : BOOLEAN,
     severity : Severities \cup {"absent"}, description : FreshText]

PatternShape == [keys : SUBSET STRING, safe : BOOLEAN]

(* RedactionConfig of a policy.                                            *)
RedactionModes == {"denylist", "allowlist", "metadata-only", "local-only"}

ConfigShape ==
    [mode : RedactionModes \cup {"absent"},
     customKeyPatterns : SUBSET PatternShape,
     allowKeyPatterns : SUBSET PatternShape, ipMode : IpModes \cup {"absent"}]

RequestShape ==
    [addr : Addresses \cup {NoAddress}, id : ObjectIds \cup {NoId},
     sub : ObjectIds \cup {NoId}, path : FreshText,
     builtIn : Seq(ResultShape), rules : Seq(RuleShape), extra : ResultShape,
     config : ConfigShape]

ASSUME NamesAssumption == "bola" \in Names
ASSUME RequestsAssumption == Requests \subseteq RequestShape
ASSUME SubjectsAssumption == Subjects \subseteq ObjectIds
ASSUME CallersAssumption == Callers \subseteq Addresses
ASSUME IPv6Assumption == IPv6 \subseteq Addresses

-----------------------------------------------------------------------------
(* The event                                                               *)

(* handleDetection: the payload before redaction.  Which fields it has and *)
(* which strings are in them matters, not their wording.                   *)
RawEvent(r, primary, matches) ==
    Object([eventType |-> Leaf(Plain),
            severity |-> Leaf(Plain),
            path |-> Leaf(r.path),
            sourceIp |-> IF r.addr = NoAddress THEN Constant
                         ELSE Leaf([words |-> <<AddressWord(r.addr)>>,
                                    oversized |-> FALSE]),
            metadata |-> Object(
               [redacted |-> Constant,
                matchedRule |-> Leaf(Plain),
                matchedRules |-> List([i \in DOMAIN matches |->
                   Object([id |-> Leaf(Plain), severity |-> Leaf(Plain)])]),
                detectorDescription |-> Leaf(primary.description)])])

(* handleDetection: redaction, and the marks that are set afterwards,      *)
(* which fail if there is no metadata left to mark.                        *)
Handled(r, chain) ==
    LET matches == Matches(chain)
        primary == PickPrimary(matches)
        raw == RawEvent(r, primary, matches)
        result == Redact(FromConfig(r.config), raw)
        value == result.value
        marked == At(value, <<"metadata">>).kind = "object"
    IN  [outcome |-> IF marked THEN "enqueued" ELSE "lost",
         chain |-> chain, primary |-> primary, config |-> r.config,
         raw |-> raw, redactedFields |-> result.fields, sent |-> value]

(* inspect(r)                                                              *)
Inspect(r) ==
    /\ Detect(r.addr, r.id, r.sub)
    /\ LET chain == Chain(r, verdict')
       IN  event' = IF Matches(chain) = <<>> THEN NoEvent
                                             ELSE Handled(r, chain)

-----------------------------------------------------------------------------

DefaultConfig ==
    [mode |-> "absent", customKeyPatterns |-> {}, allowKeyPatterns |-> {},
     ipMode |-> "absent"]

(* A request that concerns the BOLA detector alone.                        *)
PlainRequest(addr, id, sub) ==
    [addr |-> addr, id |-> id, sub |-> sub, path |-> Plain,
     builtIn |-> <<>>, rules |-> <<>>, extra |-> Quiet,
     config |-> DefaultConfig]

(* Redaction and the choice among detections remember nothing, so their    *)
(* inputs are tried on one state of the agent only.                        *)
Fresh == now = 0 /\ seen = {} /\ pruneAt = Never /\ event = NoEvent

InspectionInit == BolaInit /\ event = NoEvent

InspectionNext ==
    \/ \E addr \in Callers, id \in ObjectIds \cup {NoId},
          sub \in Subjects \cup {NoId} : Inspect(PlainRequest(addr, id, sub))
    \/ Fresh /\ \E r \in Requests : Inspect(r)
    \/ (Prune \/ Stop \/ (now < MaxTime /\ Tick)) /\ event' = NoEvent

InspectionSpec == InspectionInit /\ [][InspectionNext]_inspectionVars

-----------------------------------------------------------------------------
(* Properties                                                              *)

(* The detection that is acted upon is the first of the most severe of all *)
(* that the detectors which do not throw report, whichever reports it.     *)
PrimaryIsMostSevere ==
    event # NoEvent =>
        LET hits(d) == IF event.chain[d].throws THEN {}
                                                ELSE DOMAIN event.chain[d].hits
            rank(d, h) == Rank(event.chain[d].hits[h].severity)
        IN  \E d \in DOMAIN event.chain : \E h \in hits(d) :
              /\ event.primary = event.chain[d].hits[h]
              /\ \A e \in DOMAIN event.chain : \A i \in hits(e) :
                    /\ rank(e, i) <= rank(d, h)
                    /\ e < d \/ (e = d /\ i < h) => rank(e, i) < rank(d, h)

(* A card next to other digits may be taken for a part of a longer number: *)
(* next to three digits or fewer on either side, or in groups behind any   *)
(* others but those of a card.  One that is recognised hides the id that   *)
(* follows it from the later passes.                                       *)
RunsTogether(words) ==
    \E i \in DOMAIN words :
        LET here == words[i].shape
            next == words[i + 1].shape
        IN  /\ Touch(words, i)
            /\ \/ here \in Cards /\ next \in {"number", "ip", "dashedSin"}
               \/ here \in Cards /\ next \in {"sin", "ramq", "ohip"}
               \/ here \in {"number", "ip", "ipv6", "dashedSin"} /\ next \in Cards
               \/ here \in {"sin", "reference"} /\ next = "groupedCard"
               \/ /\ here = "groupedCard" /\ next = "groupedCard"
                  /\ words[i].as = "assigned"

(* Nothing sensitive leaves in one piece: nothing below a key that is      *)
(* denied, and no string with a sensitive word in it, in whatever field    *)
(* and company, except words that run together, addresses when the policy  *)
(* lets them pass, and IPv6 addresses, which always pass.                  *)
NoWholeSecretLeaves ==
    event # NoEvent => LET engine == FromConfig(event.config) IN
        \A p \in DOMAIN event.sent :
            LET before == event.raw[p]
                after == event.sent[p]
            IN  /\ \A i \in DOMAIN p :
                      IsKey(event.raw, p, i) /\ p[i] \in engine.denied
                        => after = Blank
                /\ after.kind = "leaf" /\ ~RunsTogether(before.text.words) =>
                      \A i \in DOMAIN after.text.words :
                         LET w == after.text.words[i]
                         IN  w.shape \in Sensitive /\ w.state = "whole" =>
                               \/ w.shape = "ip" /\ engine.ipMode = "passthrough"
                               \/ w.shape = "ipv6"

(* The audit line tells the truth: every path that it lists is gone or     *)
(* changed, and whatever is gone or changed is at or below a listed path,  *)
(* of which there is one.                                                  *)
FieldsExact ==
    event # NoEvent =>
        /\ \A p \in event.redactedFields :
              p \in DOMAIN event.raw /\ At(event.sent, p) # event.raw[p]
        /\ \A p \in DOMAIN event.raw :
              LET listed == {q \in event.redactedFields : IsPrefix(q, p)}
              IN  /\ \A q, s \in listed : q = s
                  /\ listed = {} => At(event.sent, p) = event.raw[p]

(* The collector can route the events: what is structural, in the event or *)
(* its metadata, is there in either mode, unless a pattern of the policy   *)
(* denies a key above it; and an event is lost exactly if one denies its   *)
(* metadata, since it is then marked in vain.                              *)
EnvelopeIntact ==
    event # NoEvent => LET denied == FromConfig(event.config).denied IN
        /\ event.outcome = "lost" <=> "metadata" \in denied
        /\ \A p \in DOMAIN event.raw :
              /\ \E i \in DOMAIN p :
                    /\ IsKey(event.raw, p, i) /\ p[i] \in StructuralKeys
                    /\ \A j \in 1 .. i - 1 :
                         IsKey(event.raw, p, j) /\ p[j] \in ContainerKeys
              /\ \A j \in 1 .. Len(p) - 1 :
                    IsKey(event.raw, p, j) => p[j] \notin denied
              => p \in DOMAIN event.sent

(* Two claims that the code does not keep.  engine.ts: "string leaves are  *)
(* scanned for sensitive shapes (credit cards, SIN, email, health IDs, IPs,*)
(* SQL literals) and masked".                                              *)
NoSecretLeaves ==
    event # NoEvent /\ event.config.ipMode # "passthrough" =>
        \A p \in DOMAIN event.sent :
            LET after == event.sent[p]
            IN  after.kind = "leaf" =>
                  \A i \in DOMAIN after.text.words :
                     after.text.words[i].shape \in Sensitive
                       => after.text.words[i].state # "whole"

(* engine.ts, fromConfig(): "metadata-only / local-only ... behave like an *)
(* aggressive allowlist with no approved keys".                            *)
ResidencyModesDropFields ==
    event # NoEvent /\ event.config.mode \in {"metadata-only", "local-only"}
        => At(event.sent, <<"metadata", "detectorDescription">>).kind = "absent"
=============================================================================
