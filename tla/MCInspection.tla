---------------------------- MODULE MCInspection ----------------------------
(***************************************************************************)
(* Instances of Inspection for TLC: what the detectors report, what a path *)
(* may hold, and what a policy may say about redaction.                    *)
(***************************************************************************)
EXTENDS Inspection

LOCAL Base == PlainRequest(NoAddress, NoId, NoId)
LOCAL Hits(name, severities) ==
    {[throws |-> FALSE, hits |-> <<Hit(name, s, Plain)>>] : s \in severities}
LOCAL Throws == [throws |-> TRUE, hits |-> <<Hit("thrown", "critical", Plain)>>]
LOCAL Rule(id, enabled, safe, severity) ==
    [id |-> id, enabled |-> enabled, safe |-> safe, matches |-> TRUE,
     severity |-> severity, description |-> Plain]

(* Detections of every severity from all parts of the chain, some of which *)
(* throw, and rules that are disabled, unsafe or without a severity.       *)
MCRules ==
    {<<>>, <<Rule("r1", TRUE, TRUE, "absent"), Rule("r2", TRUE, TRUE, "high")>>,
     <<Rule("r1", FALSE, TRUE, "critical"), Rule("r2", TRUE, FALSE, "critical"),
       Rule("r3", TRUE, TRUE, "high")>>}
MCChains ==
    {[Base EXCEPT !.builtIn = b, !.extra = e, !.rules = r, !.id = i[1],
                  !.sub = i[2]] :
        b \in {<<>>, <<Throws>>} \cup
              {<<h, t>> : h \in Hits("signature", {"critical", "medium"}),
                          t \in {Quiet, Throws}},
        e \in {Quiet, Throws} \cup Hits("extra", {"high", "low"}),
        r \in MCRules,
        i \in {<<NoId, NoId>>, CHOOSE p \in ObjectIds \X ObjectIds : p[1] # p[2]}}

(* One word of every shape, in a string that may be too long, or two, or a *)
(* card among others with digits.                                          *)
LOCAL OneHit == CHOOSE d \in Hits("signature", {"medium"}) : TRUE
LOCAL Words == {Word(s, a) : s \in Shapes, a \in Stands}
LOCAL Numbers == {Word(s, "bare") : s \in {t \in Shapes : Sizes(t) # <<>>}}
MCTexts ==
    {[words |-> <<x>>, oversized |-> o] : x \in Words, o \in BOOLEAN}
    \cup {[words |-> <<x, y>>, oversized |-> FALSE] : x, y \in Words}
    \cup {[words |-> <<x, y, z>>, oversized |-> FALSE] :
             x, z \in Numbers, y \in {Word(s, "bare") : s \in Cards}}
LOCAL OnPath(text, ipMode) ==
    [Base EXCEPT !.builtIn = <<OneHit>>, !.path = text, !.config.ipMode = ipMode]
LOCAL HasAddress(text) == \E w \in Range(text.words) : w.shape \in IpShapes
MCPaths ==
    {OnPath(t, "absent") : t \in MCTexts}
    \cup {OnPath(t, "passthrough") : t \in {u \in MCTexts : HasAddress(u)}}

(* Patterns of a policy that name a field of the event, of its metadata or *)
(* of a matched rule, some of them unsafe.                                 *)
LOCAL Patterns ==
    {{}} \cup {{[keys |-> {k}, safe |-> s]} : s \in BOOLEAN,
               k \in {"path", "metadata", "matchedRules", "id",
                      "detectorDescription"}}
MCConfigs ==
    {[Base EXCEPT !.builtIn = <<OneHit>>, !.addr = a,
                  !.config = [mode |-> m, customKeyPatterns |-> c,
                              allowKeyPatterns |-> l, ipMode |-> "mask"]] :
        a \in Addresses \cup {NoAddress},
        m \in {"absent", "denylist", "allowlist", "local-only"},
        c \in Patterns, l \in Patterns}

MCRequests == MCChains \cup MCPaths \cup MCConfigs

(* Ids that are no caller's own are alike.                                 *)
IdSymmetry == Permutations(ObjectIds \ Subjects)
=============================================================================
