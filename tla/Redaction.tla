----------------------------- MODULE Redaction -----------------------------
(***************************************************************************)
(* RedactionEngine (redaction/engine.ts) and redactValueString             *)
(* (redaction/patterns.ts): the walk over a payload and the passes over a  *)
(* string, as operators.                                                   *)
(*                                                                         *)
(* A payload is a tree of objects, arrays and leaves.  A string is a       *)
(* sequence of words separated by blanks; a word is known by its shape and *)
(* by how it stands there, which is all that the passes tell apart.        *)
(* Whether a number passes the Luhn test is part of its shape; longer      *)
(* numbers that arise from two words do not pass it.                       *)
(***************************************************************************)
EXTENDS Integers, Sequences, SequencesExt, FiniteSets

-----------------------------------------------------------------------------
(* Strings                                                                 *)

(* Credentials are Bearer and Basic headers, JWTs and API keys.  A card    *)
(* has 16 digits, on end or in groups of four; a SIN has nine, on end or   *)
(* in groups of three.  RAMQ and OHIP are health ids, which begin or end   *)
(* with letters.  An IPv4 address may be mapped into IPv6 (::ffff:);       *)
(* "ipv6" is any other, like 2001:db8::1.  A number has three digits and a *)
(* reference six; "text" has none, and is not two letters long.            *)
Cards == {"card", "groupedCard"}
IpShapes == {"ip", "ipv6"}
Sensitive == {"credential", "email", "ramq", "ohip", "sin", "dashedSin"}
             \cup Cards \cup IpShapes
Shapes == Sensitive \cup {"number", "reference", "sql", "text"}

(* A word stands bare, in quotes, or after "=".                            *)
Stands == {"bare", "quoted", "assigned"}

(* What has become of it: a part of it may be masked, the first digits at  *)
(* least.  glued: the separator in front of the word is gone.              *)
WordShape == [shape : Shapes, as : Stands, state : {"whole", "part", "masked"},
              glued : BOOLEAN]

(* A string of at most 20 000 characters, or one whose rest is dropped.    *)
TextShape == [words : Seq(WordShape), oversized : BOOLEAN]

(* A string as it comes.                                                   *)
FreshText ==
    [words : Seq([shape : Shapes, as : Stands, state : {"whole"},
                  glued : {FALSE}]),
     oversized : BOOLEAN]

Word(shape, as) ==
    [shape |-> shape, as |-> as, state |-> "whole", glued |-> FALSE]

Masked(w) == [w EXCEPT !.state = "masked"]
Broken(w) == [w EXCEPT !.state = "part"]

(* Replace the words that a pattern matches; it matches between word       *)
(* boundaries.                                                             *)
MaskAll(words, shapes) ==
    [i \in DOMAIN words |->
        LET w == words[i]
        IN  IF w.shape \in shapes /\ w.state = "whole" /\ ~w.glued
            THEN Masked(w) ELSE w]

(* scrubSql: what is quoted, and the digits that follow "=", up to a dash, *)
(* a colon, a letter or a second dot.                                      *)
ScrubSql(words) ==
    IF \E i \in DOMAIN words : words[i].shape = "sql"
    THEN [i \in DOMAIN words |->
            LET w == words[i]
            IN  IF \/ w.as = "quoted"
                   \/ w.as = "assigned"
                      /\ w.shape \in {"card", "sin", "number", "reference"}
                THEN Masked(w)
                ELSE IF w.as = "assigned" /\ w.shape \in
                          {"groupedCard", "dashedSin", "ohip"} \cup IpShapes
                THEN Broken(w) ELSE w]
    ELSE words

(* Only a blank separates the words i and i + 1.                           *)
Touch(words, i) ==
    /\ {i, i + 1} \subseteq DOMAIN words
    /\ words[i].as # "quoted"
    /\ words[i + 1].as = "bare"

(* The sizes of the groups of digits in a word; of an address, those of    *)
(* the first and the last group.  The digits of an OHIP number, which end  *)
(* in letters, never decide where a match ends.                            *)
Sizes(shape) ==
    CASE shape = "card" -> <<16>>       [] shape = "groupedCard" -> <<4, 4, 4, 4>>
      [] shape = "sin" -> <<9>>         [] shape = "dashedSin" -> <<3, 3, 3>>
      [] shape = "ip" -> <<3, 3>>       [] shape = "ipv6" -> <<4, 1>>
      [] shape = "reference" -> <<6>>   [] shape = "number" -> <<3>>
      [] OTHER -> <<>>

(* Of the groups that a match may begin with: the first one is gone, or    *)
(* glued to what is in front of it.                                        *)
Digits(w) ==
    IF w.state = "masked" THEN <<>>
    ELSE IF w.state = "part" \/ w.glued
    THEN SubSeq(Sizes(w.shape), 2, Len(Sizes(w.shape)))
    ELSE Sizes(w.shape)

(* The groups of digits of a string; joined: a blank or a dash separates   *)
(* the group from the one before.                                          *)
Groups(words) ==
    FlattenSeq([i \in DOMAIN words |-> [k \in DOMAIN Digits(words[i]) |->
        [word |-> i, size |-> Digits(words[i])[k],
         joined |-> IF k = 1 THEN Touch(words, i - 1) /\ Digits(words[i - 1]) # <<>>
                             ELSE words[i].shape \notin IpShapes]]])

(* CARD_RE takes 13 to 19 digits, however grouped, SIN_RE nine in threes.  *)
CardRe == [sizes |-> 1 .. 19, digits |-> 13 .. 19]
SinRe == [sizes |-> {3, 6, 9}, digits |-> {9}]

(* How many digits there are up to the end of a group.                     *)
DigitsUpTo(groups) ==
    LET upTo[g \in DOMAIN groups] ==
            groups[g].size + IF g = 1 THEN 0 ELSE upTo[g - 1]
    IN  upTo

(* Where a match that begins with the group g may end.                     *)
MatchEnds(groups, re, g) ==
    LET upTo == DigitsUpTo(groups)
    IN  {e \in g .. Len(groups) :
            /\ \A k \in g + 1 .. e : groups[k].joined
            /\ \A k \in g .. e : groups[k].size \in re.sizes
            /\ upTo[e] - upTo[g] + groups[g].size \in re.digits}

(* replace(): from left to right, each match as long as possible and none  *)
(* inside another; the last group of those that begin at g or before, or 0.*)
Scan(groups, re) ==
    LET last[g \in DOMAIN groups] ==
            LET earlier == IF g = 1 THEN 0 ELSE last[g - 1]
                ends == MatchEnds(groups, re, g)
            IN  IF earlier >= g \/ ends = {} THEN earlier ELSE Max(ends)
    IN  last

(* The cards that are matched by themselves.  A match over several words,  *)
(* in which they are parts of a longer number, fails the Luhn test; it     *)
(* stays as it is, and is passed over.                                     *)
CardsAmong(words, groups, last) ==
    {i \in DOMAIN words :
        /\ words[i].shape \in Cards /\ words[i].state = "whole"
        /\ \E g \in DOMAIN groups :
              /\ groups[g].word = i /\ last[g] >= g
              /\ g = 1 \/ last[g - 1] < g
              /\ groups[last[g]].word = i}

CardsFound(words) ==
    CardsAmong(words, Groups(words), Scan(Groups(words), CardRe))

(* The blank after the last digit belongs to the match if a word follows.  *)
CutOut(words, found) ==
    [i \in DOMAIN words |->
        IF i \in found THEN Masked(words[i])
        ELSE [words[i] EXCEPT !.glued = Touch(words, i - 1) /\ i - 1 \in found]]

CutCards(words) == CutOut(words, CardsFound(words))

(* Nine digits that SIN_RE finds may be those of several words, or of a    *)
(* part of one, which it breaks.                                           *)
MaskMatched(words, groups, last) ==
    [i \in DOMAIN words |->
        LET own == {g \in DOMAIN groups : groups[g].word = i}
            matched == {g \in own : last[g] >= g}
        IN  IF matched = {} THEN words[i]
            ELSE IF matched = own /\ words[i].shape \notin IpShapes
            THEN Masked(words[i]) ELSE Broken(words[i])]

MaskSins(words) == MaskMatched(words, Groups(words), Scan(Groups(words), SinRe))

(* As Passes, with the first pass that finds something as the last one.    *)
PassesUntilFound(words, ipMode) ==
    LET credentials == MaskAll(words, {"credential"})
        ids == MaskAll(CutCards(MaskAll(ScrubSql(words), {"email"})),
                       {"ramq", "ohip"})
    IN  IF credentials # words THEN credentials
        ELSE MaskAll(MaskSins(ids), IF ipMode = "passthrough" THEN {} ELSE {"ip"})

(* The passes in their order; none of them knows IPv6.                     *)
Passes(words, ipMode) ==
    LET credentials == MaskAll(words, {"credential"})
        scrubbed == ScrubSql(credentials)
        emails == MaskAll(scrubbed, {"email"})
        cards == CutCards(emails)
        ids == MaskAll(cards, {"ramq", "ohip"})
    IN  MaskAll(MaskSins(ids), IF ipMode = "passthrough" THEN {} ELSE {"ip"})

Differ(before, after) ==
    \E i \in DOMAIN before : before[i].state # after[i].state

(* As RedactText, with scrubbed SQL not counting as a change.              *)
RedactTextSilentSql(text, ipMode) ==
    LET words == Passes(text.words, ipMode)
    IN  [text |-> [words |-> words, oversized |-> FALSE],
         redacted |-> text.oversized \/ Differ(ScrubSql(text.words), words)]

(* redactValueString: what is left, and whether it says that it changed    *)
(* something.  The rest of an oversized string is replaced by a mark.      *)
RedactText(text, ipMode) ==
    LET words == Passes(text.words, ipMode)
    IN  [text |-> [words |-> words, oversized |-> FALSE],
         redacted |-> text.oversized \/ Differ(text.words, words)]

-----------------------------------------------------------------------------
(* Payloads                                                                *)

(* A payload is a function from the paths in it to what is there; a step   *)
(* of a path is a key of an object or an index of an array.                *)
Root(node) == [p \in {<<>>} |-> node]

Tree(kind, parts) ==
    [p \in {<<>>} \cup
           UNION {{<<k>> \o q : q \in DOMAIN parts[k]} : k \in DOMAIN parts} |->
        IF p = <<>> THEN [kind |-> kind] ELSE parts[Head(p)][Tail(p)]]

Leaf(text) == Root([kind |-> "leaf", text |-> text])
Object(fields) == Tree("object", fields)
List(items) == Tree("array", items)

(* Anything that is not a string, an array or an object.                   *)
Constant == Root([kind |-> "constant"])

(* "[REDACTED]"                                                            *)
Blank == [kind |-> "blank"]

(* What a payload has at a path.                                           *)
At(value, path) ==
    IF path \in DOMAIN value THEN value[path] ELSE [kind |-> "absent"]

(* The i-th step of a path in a payload is a key.                          *)
IsKey(value, path, i) == value[SubSeq(path, 1, i - 1)].kind = "object"

StructuralKeys ==
    {"projectId", "agentId", "eventType", "severity", "action", "path",
     "sourceIp", "timestamp", "redacted", "matchedRule", "matchedRules",
     "matchedValueFingerprint"}

ContainerKeys == {"metadata"}

(* Keys of ours that DEFAULT_REDACTION_PATTERNS match.                     *)
DefaultDenied == {"password", "matchedValue"}

IpModes == {"hash", "mask", "passthrough"}

(* Constructor: an engine.                                                 *)
Engine(mode, denied, allowed, ipMode) ==
    [mode |-> mode, denied |-> DefaultDenied \cup denied,
     allowed |-> allowed, ipMode |-> ipMode]

(* fromConfig: the patterns of a policy are known by the keys they match;  *)
(* safeRegex leaves out the unsafe ones.                                   *)
SafeKeys(patterns) == UNION {p.keys : p \in {q \in patterns : q.safe}}

FromConfig(cfg) ==
    Engine(IF cfg.mode = "allowlist" THEN "allowlist" ELSE "denylist",
           SafeKeys(cfg.customKeyPatterns), SafeKeys(cfg.allowKeyPatterns),
           IF cfg.ipMode = "absent" THEN "hash" ELSE cfg.ipMode)

ApprovedKey(engine, key) == key \in StructuralKeys \cup engine.allowed

(* As Drops, for every key that is not approved.                           *)
DropsContainers(engine, key, approved) ==
    engine.mode = "allowlist" /\ ~approved

Drops(engine, key, approved) ==
    engine.mode = "allowlist" /\ ~approved /\ key \notin ContainerKeys

Denied(engine, key) == key \in engine.denied

(* walk(), at one path: whether a key on the way to it is approved, and     *)
(* whether the call for the container above it drops this part, blanks it, *)
(* calls itself for it ("walked"), or is not made.                         *)
Visit(engine, value, visit, path) ==
    IF path = <<>> THEN [approved |-> FALSE, fate |-> "walked"]
    ELSE LET above == visit[Front(path)]
             key == IsKey(value, path, Len(path))
             approved == above.approved \/ (key /\ ApprovedKey(engine, Last(path)))
         IN  [approved |-> approved,
              fate |-> IF above.fate # "walked" THEN "unreached"
                       ELSE IF key /\ Drops(engine, Last(path), approved)
                       THEN "dropped"
                       ELSE IF key /\ Denied(engine, Last(path)) THEN "blanked"
                       ELSE "walked"]

Walk(engine, value) ==
    LET visit[path \in DOMAIN value] == Visit(engine, value, visit, path)
    IN  visit

(* redactLeaf: a string that changes.                                      *)
Redactable(engine, node) ==
    node.kind = "leaf" /\ RedactText(node.text, engine.ipMode).redacted

(* What walk() leaves of a part.                                           *)
Redacted(engine, node, fate) ==
    IF fate = "blanked" THEN Blank
    ELSE IF node.kind = "leaf"
    THEN [node EXCEPT !.text = RedactText(node.text, engine.ipMode).text]
    ELSE node

(* redact(): the sanitised value, and the paths of what was replaced.      *)
Redact(engine, value) ==
    LET walk == Walk(engine, value)
        kept == {p \in DOMAIN value : walk[p].fate \in {"walked", "blanked"}}
    IN  [value |-> [p \in kept |-> Redacted(engine, value[p], walk[p].fate)],
         fields |-> {p \in DOMAIN value :
                       \/ walk[p].fate \in {"dropped", "blanked"}
                       \/ walk[p].fate = "walked" /\ Redactable(engine, value[p])}]
=============================================================================
