# A TLA+ model of the RASP agent for Node.js

These modules model `@queno/agent-node`, the agent that a host application loads
to inspect its requests, to report attacks to a collector and to be steered by
it. TLC checks them on small instances, TLAPS proves the main results for
every value of the constants. Paths like `agent.ts` are relative to
`src/src/`.

To run one model: `tlc -config X.cfg MCY` (the table of runs says which Y goes
with which X); to check the proofs of one component: `tlapm Y_proofs.tla`.

1. [The system](#1-the-system)
2. [The modules and the plan](#2-the-modules-and-the-plan)
3. [Conventions](#3-conventions)
4. [The modules one by one](#4-the-modules-one-by-one)
5. [Runs and bounds](#5-runs-and-bounds)
6. [Fairness](#6-fairness)
7. [Proofs](#7-proofs)
8. [What the checks found](#8-what-the-checks-found)
9. [What is not modelled, and what is next](#9-what-is-not-modelled-and-what-is-next)

## 1. The system

The agent is one object, `RaspAgent`, in a single-threaded process. Every
handler runs to its next `await` without interruption; what interleaves are
requests of the host application, intervals, answers of the collector, and
the continuations of promises. The collector, the network and the file system can
fail in any call, and nearly every failure is swallowed: the agent must never
hurt its host.

| Component (source) | State it keeps | Operations | What is hard | What makes it correct |
|---|---|---|---|---|
| Policy distribution (`policy/policy-manager.ts`, `policy/verify.ts`, `agent.ts` 578-725) | current and previous policy; mode, rules, redaction and residency in force; last rejection | announce, fetch, accept, apply, roll back, report | fetches overlap; application fails half-way; replays and forgeries; unsigned mode hints | the configuration is exactly that of the policy reported; only accepted policies change it; versions never go back |
| Heartbeat (`transport/heartbeat.ts`) | interval, edge detectors for kill switch, policy version, mode and target; pending upgrade status | start, stop, beat, setUpgradeStatus | beats overlap, answers are handled in another order, or after stop() | scheduler and agent agree; directives are obeyed in the end; an upgrade is reported once |
| Event buffer (`transport/buffer.ts`) | queue, interval | enqueue, flush, stop | overlapping flushes, timeouts of requests that arrive all the same, shutdown | bounded queue, no duplicates, stop() returns |
| Audit log (`redaction/audit-log.ts`) | descriptor, byte counter, rotation index; the files | write, rotate, close | rename, fstat, open or write fail inside a rotation; the next process | no entry of this process is lost or doubled; order; counter |
| Life cycle (`agent.ts`, `self-protect.ts`, `self-rollback.ts`) | intervals and their handles, `killed` | start, stop, kill switch, recovery, the watchdog's check | answers after stop(); stop() awaits twice; start() again | one watchdog or none; every interval can be cleared |
| Database hooks (`db-hooks/instrument.ts`) | registry of hooks, one-shot guard; the drivers' methods | instrument, verify, record | tracers and other copies of the package wrap, unwrap and replace the same methods; an assignment throws | a query is recorded once; a lost hook is noticed; nobody is accused without a reason |
| API discovery (`api-discovery/`) | a map from endpoint to counters, interval | observe, observeOutcome, drain, flush in batches, stop | a request straddles two windows; flushes overlap; a batch fails | a request is counted once; reports are consistent |
| Transport (`transport/client.ts`, `transport/secure-request.ts`) | per call: promise, timer, how far the answer is | post, get, sendHeartbeat, fetchPolicy, sendEvent | timer, errors and early close race | each call settles, within its time limit, and leaves no timer |
| Request path (`agent.ts` 180-550, `integrations/`) | per request: hooks run, context, detections | beginRequest, inspect, handleDetection, endRequest | three frameworks with different hooks; mode, policy and kill switch change between two hooks | one inspection; the event tells what was done; log and export agree |
| Runtime context, correlation (`runtime-context.ts`, `db-hooks/correlate.ts`) | queries recorded per request | record, correlate | bound of 200 queries, authorization only known at the end | findings only for requests that deserve them |
| Detector chain (`detectors/`, `agent.ts` 388-413) | none | inspect, pickPrimaryDetection | a detector throws | the most severe detection decides |
| BOLA detector (`detectors/bola.ts`) | a window of ids per address | detect, prune | windows do not roll; pruning, or none | no false alarm, no missed burst, bounded memory |
| Redaction (`redaction/engine.ts`, `redaction/patterns.ts`) | none | fromConfig, redact | the passes over a string disturb each other; drops and blanks at every depth | nothing sensitive leaves in one piece, with few exceptions that can be named; the list of redacted fields is exact; the envelope survives unless a policy denies it |
| Pattern detectors, route normaliser, configuration, integrity, encodings | none | pure functions | strings, regular expressions | see section 9 |

How they interact:

```
 host application                           collector
   | requests  (hooks of Express, NestJS, Fastify)   ^   ^   ^
   v                                                 |   |   |
 RequestPath --- handleDetection() --> AuditLog      |   |   |
   |  ^ Inspection   \--> EventBuffer --- POST ------+   |   |
   |  | (detectors, redaction)                           |   |
   |  observe / observeOutcome                           |   |
   +-----------------> Discovery ------ POST batches ----+   |
                                                             |
 Heartbeat <--- answers: kill switch, version, mode, target -+
   | callbacks                                               |
   +--> PolicyDistribution ----- GET /v1/policy -------------+
   +--> Lifecycle (kill switch, recovery)
            | start(), watchdog
            +--> DbHooks <--- tracers and others in the process
```

Callbacks are synchronous calls (scheduler to agent); shared state is the
agent's: `killed`, `currentMode`, `redaction`, `dataResidency`. The transport
below all three channels is `TransportCall`; `Delivery` puts it under the
event buffer, `SelfProtection` puts the life cycle and the hooks together.

## 2. The modules and the plan

In the order of the plan: what the agent obeys comes first, what it must not
lose second, what it costs its host last.

| # | Module | Models | State |
|---|---|---|---|
| 1 | `PolicyRegister` | abstract: what policy distribution promises | done |
| 2 | `PolicyDistribution` | policies, implements 1 | done, proved |
| 3 | `Heartbeat` | the control channel | done, proved |
| 4 | `ControlPlane` | composes 2 and 3 with `INSTANCE`, implements both | done, proved |
| 5 | `LossyChannel` | abstract: at-most-once delivery | done |
| 6 | `EventBuffer` | implements 5 | done, proved |
| 7 | `TransportCall` | how a request ends | done, proved on top of 6 |
| 8 | `Delivery` | composes 6 and 7 with `INSTANCE`, implements 6 | done, proved |
| 9 | `AuditLog` | rotation and restarts | done, proved |
| 10 | `Lifecycle` | intervals, shutdown | done, proved |
| 11 | `DbHooks` | hooked methods and who else changes them | done, proved on top of 10 |
| 12 | `SelfProtection` | composes 10 and 11, implements 10 | done, proved |
| 13 | `Discovery` | windows and batches | done, proved |
| 14 | `RequestPath` | from hook to event | done, proved |
| 15 | `EnumerationWindow` | abstract: windows that open and disappear | done |
| 16 | `Bola` | windows that are pruned, implements 15 | done, proved |
| 17 | `Redaction` | the walk and the passes, as operators | done, proved |
| 18 | `Inspection` | extends 16 and 17: from the detectors to the event | done, proved |
| 19 | `Export` | would compose 14 with 8 and 9 | planned |

`X_proofs` holds the theorems about `X` and what it is composed of;
`Telemetry_proofs` those about the two ways out of the agent, `Delivery` and
`AuditLog`. `MCX` extends `X` and has the sets that a `.cfg` cannot write.

## 3. Conventions

- One action per handler, up to its `await`; what follows an `await` is an
  action of its own. An action includes every call of the handler that changes
  state.
- Names are the source's where TLA+ allows it. A comment on a variable says
  which field it is.
- **Operators whose comment begins with "As X, ..." are not part of the
  model.** Each is a plausible fault of X (a dropped guard, an off-by-one, a
  missing reset). Substituted for X it makes a checked property fail; this
  shows that the property says something about the code.
- Slots (`Slots`, `Beats`, `Fetches`, `Flushes`) bound what runs at
  the same time. When all are in use, the action that needs one is not
  enabled: behaviours with more overlap are cut off, not changed. The theorems hold
  for slot sets of every size.
- Counters that only serve a property saturate at 2 (or at `ReportCap`): "more
  than once" needs no more.
- Properties that state what a comment, a test or the documentation says,
  and that the code does not satisfy, come last in their module, under "claims
  that the code does not keep". Three of them have a run of their own (section
  8).
- What can go wrong only in some deployments is chosen once, in `Init`, and
  never changes: whether there is a trust anchor (`trusted`) or TLS (`tls`),
  which methods of drivers are missing or cannot be assigned to (`frozen`),
  which calls of the file system can fail (`faults`), whether policy fetches can
  fail (`fetchesFail`). So one run covers all deployments, and a property can
  say which of them it is about.

## 4. The modules one by one

### PolicyDistribution, PolicyRegister

`manager` is `PolicyManager`'s current and previous policy, `config` what
`applyPolicy` sets (mode, rules, redaction, residency), each part named by
the policy it came from. A policy is reduced to what decides: version, mode,
whether a pinned key signed it, which call of `applyPolicy` throws on it, and
what its residency lets out. `HandleDirectives` are the callbacks of
one heartbeat answer in their order; `HandleAccepted` and `HandleRejected` are the
callback of a fetch, one synchronous step (verify, accept, apply, and either
roll back or report). The network answers with any policy of `Policies`,
forged ones included.

`ConfigIsPolicyInForce` is the point: the version the agent reports is what
it runs, in all four parts, after any number of half-applied policies.
`ConfigIsAuthentic` speaks of steps: when the agent has a trust anchor, only the answer to a
fetch changes the configuration, only if its policy is signed and not older than the one in force, and
each part that changes comes from that policy or from the one that is restored. So unsigned
mode hints, forgeries and replays change nothing. `PolicyInForceRuns` (proved) is why a rollback cannot fail. `PolicyRegister` says the
same from outside: the agent moves between signed, runnable policies of
non-decreasing version and never back to none.

Left out: `lastValid`, which no code reads. The residency of a policy is one
of three values, as it only meets `policy_rejected` events here.

### Heartbeat

A beat goes from "idle" to "sent" (`beat()` up to its await, which takes and
clears the pending upgrade status) to "answered" (the collector's state at
that time) and is handled later, in any order. `HandleAnswer` is the rest of
`beat()`: the kill switch edge, the policy version, the mode, the target. The
three edge detectors are the hazard: one that disagrees with the agent
misses the next edge (`KillSwitchInStep`, `TargetInStep`). `null` and
`undefined` are different, as in `targetVersion ?? null`.
Left out: `setStatus`, which no code calls; changelog and impact, which only
reach the log.

### ControlPlane

`HandleAnswer(b)` is Heartbeat's action and PolicyDistribution's
`HandleDirectives` in one step, with `killed` shared: `handlePolicyChange` looks at
`killed` as the same answer has just set it. Here a fetch is answered with the
policy the collector announces when the request reaches it, so the liveness property `PolicySettles`
can be stated. An announcement is repeated neither after a fetch that failed nor
after a time in which the agent was killed, so the property excludes both; `PublishesForward` takes from the documentation that the
collector does not go back. `HeartbeatSpec` and `DistributionSpec` say that
the composition implements its parts, so the properties of both hold of it.

### EventBuffer, LossyChannel, TransportCall, Delivery

A flush takes the whole queue in one step and sends each event on its own.
`sending` are requests that have not settled for the agent, `wire` those that
may still reach the collector: after a timeout an event is only in the latter.
`LossyChannel` is the promise: at most once, nothing invented.

`EventBuffer` lets a request settle at some time. `TransportCall` shows which of
timer, body, error and early close settles it, on both paths: `fetch()` with an
`AbortController`, and `secureRequest()` with a socket timeout. What Node does when a
connection closes early is taken from its documented events (external). A
body that trickles for ever is excluded by the fairness.

`Delivery` makes every event of a flush a call: `CallsMade` is the loop in
`flush()`, and `EventBuffer`'s `Settle` happens exactly when the call's promise
does (`Follows`). So that stop() returns is no longer assumed of requests but
follows from timers and connections, over `fetch()`
(`StopTerminatesOverFetch`); over TLS it does not hold. A good status can only
come from a collector that has received the event; a bad one, an error or a
timeout can come before or after it has.

### AuditLog

`disk` has the live file and the rotated ones; `faults` says whether renames and
fstat can fail in this behaviour (writes and openings always can). A call of `write()` is one
step with all that can go wrong inside it as its choices: `Append`,
`RotateAndAppend` (renamed or not, written or not) and `RotateWithoutReopening`. A
file is its size and its set of entries. `Restart` is a crash or an exit at any time:
the files stay, the fields start anew. A `writeSync` that writes part
of a line is taken as all or nothing.

### Lifecycle, DbHooks, SelfProtection

Intervals that can leak (`pruners`, `watchdogs`) are counted beside their handles;
the others are Booleans, as their owners never arm them twice.
`stop()` is three steps, one per `await`. Heartbeat answers keep arriving
after it. Overlapping calls of `stop()` are excluded by `Stop`'s first guard. `tryFallbackBinary` is
not there: `InitSettles` explains why it cannot be reached.

In `DbHooks` a method of a driver is the stack of functions that a call goes
through. `instrumentDatabaseDrivers()` is one step: for every driver it goes
through its methods until an assignment throws (`Reached`), skips what is
missing or marked (`Patchable`), and registers what it has assigned. Others in
the process wrap a method (a tracer; one that copies the properties of what it
wraps, and so the marker; another copy of the package, whose marker is the same
registered symbol), take a wrapper off again together with all that was put on
top of it, or replace the method. A wrapper that does not delegate is a
replacement. `mongoose`, whose method is patched in line, and the four other
drivers differ only in names. `RecordedOnce` is about the wrappers of one method; a query may
still pass two methods that are hooked (`pg`'s `Pool.query` calls `Client.query`), and so be recorded by each.

`SelfProtection` composes them: `start()` instruments before it starts the
watchdog, which checks at once and on its interval. `warned` is the content of
the last warning. `NoFalseAlarm` and `TamperNoticed` are the two sides of
`verifyHookIntegrity()`: a warning names only what somebody has assigned to since, and a
method that has lost the hook is named as long as a watchdog is running.

### Discovery

Counters are sets of requests, so that "counted twice" can be said. A window is
drained in one step; a flush then sends its batches one after the other. A
batch that the sanitiser drops is taken as one that is lost, and the
settling of a request is one step with its reception: nothing in the agent can tell the
difference. `Outcomes` are errors and authentication. Sensitive fields,
schema and response times only grow within a window and are left out.

### RequestPath

`Middleware` is the hook of Express and NestJS; `OnRequest` and `PreHandler`
are Fastify's. `Respond` is the `finish` listener or Fastify's
`onResponse`; a client that goes away first skips it. `HandleDetection` is
the synchronous body of `handleDetection()`: redaction, log line, residency, enqueue. Between two hooks
the control plane may switch the kill switch or apply any policy. Detectors
are one predicate (`Matches`): what matters is where the attack is and whether the
hook can see it. A database query is recorded in the context that
`beginRequest()` bound, up to `MaxQueries`, and `Suspicious` is `correlateBola()`.
Metadata (and with it the `metadataOnly` directive) is left out, but not that
redaction may replace the metadata object ("flattens"), as then the handler throws. `KilledAddsNothing`
speaks of requests and their detections; a fetch in flight when the kill switch is pulled may
still enqueue a `policy_rejected` event.

### Bola, EnumerationWindow

`ipState` is the detector's map, `Detect` its `detect()`; time is discrete, the
prune interval fires on time, and the clock does not go back. `stop()` clears the
interval although inspection goes on, and a detector of an agent that was never started has
none. `EnumerationWindow` is the promise without the map: a window opens with a
request, lasts for `Window`, and leaves nothing behind. `WindowSpec` says that
pruning can never be noticed, whenever it happens or fails to; `MemoryBounded` that it
does bound the map while the interval is armed; `BurstNoticed` what is left of
"rolling": more than twice the threshold in any span of `Window` is flagged. `seen`
is a history variable for the latter.

### Redaction, Inspection

`Redaction` has no state. A payload is a tree of objects, arrays and leaves,
held as a function from the paths in it to what is there; a path is a sequence of keys and
indices, which is what `walk()` carries along as `fieldPath`. `Walk` is `walk()`
seen from the paths: a recursive function that says of each part what the call for the part
above it does about it (`Visit`), so that what was never reached differs from what was dropped.
`Redact` puts together what is left and the list of fields. A string is a sequence of words,
which are known by their shape and by how they stand in it (bare, quoted, after "="), which is what
the expressions of `patterns.ts` tell apart. The shapes are credentials, e-mail addresses, cards and
SINs (each on end or in groups), the two health ids (RAMQ and OHIP), IPv4 and IPv6 addresses, numbers of three and of
six digits, an SQL statement, and text. `Passes` are the passes of `redactValueString()` in their
order, each on what the last one left: a word is whole, partly masked or masked, and it may be
glued to the word in front of it.

What makes the passes disturb each other is that `CARD_RE` and `SIN_RE` look for digits with single blanks or dashes
between them, wherever words begin and end. So these two see a string as the groups of
digits in it (`Groups`): `MatchEnds` says where a match that begins with a group may end, and `Scan`
is `replace()`, from left to right, each match as long as possible and none inside another. A match of
`CARD_RE` that takes more than the card fails the Luhn test and is left as it is
(`CardsFound`), and one that succeeds takes the blank behind it (`CutCards`). `SIN_RE` has no such test and may
break a word by masking some of its groups (`MaskSins`); so may the scrubbing of SQL. No pass knows IPv6.

Taken for granted: words are separated by single blanks; a longer number that arises from several words does
not pass the Luhn test; an IPv4 address ends its first and its last part with three
digits (it may be mapped into IPv6, as `::ffff:`), and an IPv6 address begins with a group of four digits and
ends in one of a single digit (as `2001:db8::1`); text has no digits and is not two letters long (two letters
behind a number could make an OHIP number of it); what replaces a match has no digits that
could be part of another.

`Inspection` is `inspect()` and `handleDetection()` around it: the chain in the order of
`rebuildDetectors()` with the BOLA detector of the state in it, detectors that throw, custom
rules, `pickPrimaryDetection()`, the event, its redaction, and the marks that are set
in its metadata afterwards. What happens to the event then is `RequestPath`'s business. A
request comes with what the stateless detectors make of it: any results of the right
shape (`RequestShape`), in any number. The remote address, which is IPv4 or IPv6 (`AddressWord`), is the event's
`sourceIp` and part of the description of an enumeration. `FreshText` says that a string comes to the first pass as
it was written: no word of it is masked yet.

`NoWholeSecretLeaves` excepts what the code does get wrong (section 8): strings whose
words run together (`RunsTogether`, which names the pairs), and IPv6 addresses, which leave in every mode; and
IPv4 addresses if the policy lets them pass. `FieldsExact` is the claim of the audit
log's `redactedFields` in both directions. `EnvelopeIntact` says that the collector can
route what it gets: structural fields of the event and its metadata stay in either mode unless a
pattern of the policy denies a key above them, and the event is lost in exactly one case, that a pattern
denies `metadata`.

## 5. Runs and bounds

A run is one question. "violation" means that a claim is expected to fail
(section 8).

| Run | Module | Shows | Bounds |
|---|---|---|---|
| PolicyDistribution | MCPolicyDistribution | the configuration is that of the policy in force, and only an accepted policy changes it; implements PolicyRegister | 2 overlapping fetches; 7 policies: equal and increasing versions, every mode, both faults, two forged |
| PolicyFirstFailure (violation) | MCPolicyDistribution | a first policy that fails leaves half of itself | 1 fetch |
| Heartbeat | MCHeartbeat | scheduler and agent agree; an upgrade is reported once; kill switch and target that stay are obeyed | 2 beats, 2 upgrades, 4 answers with every kind of target |
| ControlPlane | MCControlPlane | implements both parts; hints are followed; the agent catches up with the collector's policy | 2 beats, 2 fetches, 2 policies, 3 answers, no upgrades (HeartbeatSpec is proved for any) |
| ControlPlaneRecovery (violation) | MCControlPlane | it does not catch up when the policy was announced while killed | 2 beats, 1 fetch, 1 policy and a kill switch |
| Delivery | MCDelivery | bound; no duplicates, as it implements LossyChannel; fetch() is held to its limit until a good status; queued events are sent; stop() returns over fetch() | 2 events, queue of 2: a full queue, and one event for the timer or for stop(); both transports |
| AuditLog | MCAuditLog | no loss, no doubles and order within a process, whatever fails; the live file is bounded when renames and fstat work | limit 3, lines of 1, 2 and 4 (one over the limit), 4 entries, 4 rotations, 2 processes, all sets of faults |
| AuditLogRestart (violation) | MCAuditLog | a later process overwrites rotated files | same |
| SelfProtection | MCSelfProtection | one watchdog or none; all intervals in reach; hooks are never doubled, lost ones are noticed, no false alarm | 1 beat, 2 starts; 1 driver with 2 methods, missing, frozen or not; 2 assignments by others |
| Discovery | MCDiscovery | requests are counted once, reports consistent, lost batches do not stop a flush, windows are drained | any 2 of 3 requests, of the same or of different endpoints; batches of 1; 2 overlapping flushes |
| Inspection | MCInspection | alarms of enumeration are those of the abstract windows; the most severe detection decides; no whole secret leaves but for the exceptions, the list of fields is exact, the envelope stays unless denied | 1 address that enumerates (`Callers`), events from IPv4, IPv6 and no address, 3 ids of which those that are no caller's own are symmetric, threshold 1, window and period 1, time 4; chains of up to 5 detectors; strings of 1 word, any 2, or a bare card between any two with digits; single patterns in policies of every mode |
| RequestPath | MCRequestPath | inspection, enforcement, log and export agree | 1 request of every shape, 4 directives, 2 queries, fan-out 1 |

Why the bounds are enough. Hazards of overlap need two of a kind (two fetches
answered in the wrong order, two flushes, two beats), and a third adds no new
order between any two. Policies cover each combination that the decisions tell
apart. In the audit log a limit of 3 has lines that fit, that fill the file exactly with others and that
exceed it alone, and 4 entries rotate twice in each of two processes. Requests share
nothing but the control plane's variables, which change freely between their hooks:
one request meets everything that several would, which `RequestPath_proofs` confirms for any number of requests.
Two events show every hazard of the buffer's requests; larger queues are the
theorem's. A hook can be lost by one assignment and hidden by a second, and
`instrumentDatabaseDrivers()` decides method by method, in an order that two methods of a driver
show; with `instrumentDb = FALSE` the same properties pass. Windows of length 1 with a period of 1 and times
up to 4 have requests at their ends, in a gap, and after two windows. The detector compares an id with the caller's
own and with other ids only, so the ids of others are alike (`IdSymmetry`). Redaction and the choice among
detections remember nothing, so `Inspection` tries their inputs on one state
of the agent only (`Fresh`). What becomes of a word depends on its neighbours, and for digits also on what a match
that began further left has taken; strings of two words, and of three around a card, have both, and `SecretsAreMasked` holds
of any length.
Where a theorem covers a property its bound matters no more.

There is no `TypeOK` among the invariants of the runs: type correctness is proved
(`TypeCorrect` or `LogTypeCorrect` for each component, within `BolaInvariance` for `Bola` and
`InspectionInvariance` for the event). `AlarmJustified` of `Bola`, and
`NothingLeftArmed` of `TransportCall`, are proved without a run.

Deadlock is checked except where the system really stops: events, entries,
calls of `start()`, assignments to methods and time are finite in the models.

## 6. Fairness

Runs that check liveness use it, and only where the code or its platform provides it.

- *Intervals fire while armed* (`Tick`, weak): `setInterval`.
- *Settled promises run their continuations* (`HandlePolicy`, `StopReturns`,
  `InitSettles`, weak): the event loop.
- *A collector that can be reached again and again is reached, and so is the
  agent by its answers* (`Answer`, `HandleAnswer`, `AnswerFetch`, strong).
  Strong, as any single beat may be lost (`BeatFails`) and the next one has to be tried;
  "not every beat is lost for ever" is the weakest assumption under which
  a directive can arrive at all.
- *Every request settles* (Discovery, weak). `TransportCall`
  has this for `fetch()` (`FetchSettles`) and refutes it for TLS
  (`TlsSettles`); the liveness of Discovery therefore holds of agents without
  TLS options only. `Delivery` does not assume it.
- *In Delivery* timers fire, and an answer that has begun ends, is cut off or
  falls silent; over TLS a silent socket is destroyed. Nothing is assumed of a collector that has not answered.
- *The watchdog's interval fires* (`WatchdogTick`, weak): `setInterval`.
- *In Inspection* there is none: its only temporal property is a refinement
  without liveness.

Nothing is assumed of `start()`, `stop()`, `setUpgradeStatus()`, operators of the
collector, requests of the application, or failures.

## 7. Proofs

All theorems are about a module's specification, or about its operators, and hold for every value of
the constants that satisfies the `ASSUME`s of the module: the shape of policies, answers, directives and
requests; `NoPolicy`, `Null` and `Undefined` being none of the values they stand beside; bounds
being natural numbers, positive where zero makes no sense; finitely many endpoints; the detector's own
name being a name; callers and IPv6 addresses being addresses. The theorems about `Bola` assume nothing of the numbers of addresses and ids, those
about `Inspection` nothing of the length of strings, chains and rules or of the keys
in a policy's patterns.

| Module | Theorems | The invariant that is inductive |
|---|---|---|
| PolicyDistribution_proofs | TypeCorrect, ConfigFollowsPolicy, RollbackWorks, Authenticity, AntiReplay, ImplementsRegister | `ConfigIsPolicyInForce` needs that whatever a rollback restores was itself applied to the end (`PolicyInForceRuns`), so that applying it again repairs every part that the failed policy had replaced, and that an agent without a trust anchor has no policy (`NoAnchorNoPolicy`), as it follows hints. `ConfigIsAuthentic` speaks of single steps and needs the types only |
| Heartbeat_proofs | TypeCorrect, KillSwitchAgrees, TargetAgrees, UpgradeOnce, AnswersAreObeyed | the checked invariants together; `UpgradeReportedAtMostOnce` is stated so that it is inductive: unsent, pending, carried and reported are exclusive |
| ControlPlane_proofs | FollowsHints, ImplementsHeartbeat, ImplementsDistribution; KeepsAnnouncements, NeverBehindForNothing | what an answer under way can say, and that only the mode of an untrusted agent ever changes. For announcements (`Heard`): nothing the agent was told of is newer than what is published, so a fetch that the collector has yet to answer cannot bring an older policy |
| Telemetry_proofs, Delivery | TypeCorrect, MemoryBound, SentOnce, ImplementsChannel; ImplementsBuffer, DeliveryBoundAndChannel, NoTimerLeft, HeldToBudget, StopIsNeverStuck | `InOnePlace` needs that whatever is anywhere was accepted (`Provenance`), the bound that the queue is finite. For the calls, `CallInv` adds `Timed`: over fetch(), a call that is neither late nor well answered has its timer, which is why the timer can settle it; `InStep`: the buffer waits for an event exactly as long as its call is pending |
| Telemetry_proofs, AuditLog | LogTypeCorrect, CounterCorrect, SizeBound, KeepsOwnEntries, KeepsOrder | files beyond the rotation index have no entries of this process, which is why a rename can overwrite nothing of its own |
| SelfProtection_proofs | TypeCorrect, WatchdogAgrees, Reachable; HookedOnce, WarningsAreJust, ImplementsLifecycle, ProtectionInStep | handles account for what is armed; an agent that was never started hears nothing. For the hooks (`HooksAccount`): before the guard is set no method has the agent's wrapper, afterwards none has two, and a registered method that nobody has assigned to since has it on top |
| Discovery_proofs | TypeCorrect, CountsOnce, BatchSize, Consistency, ForgetsNothing | a request is only under its own endpoint (`Placed`) and in one place (`Unique`), and a flush has a batch while it has anything left |
| RequestPath_proofs | TypeCorrect, CountsOnce, TellsEnforcement, NoFalseSuspicion, Journaled, KilledIsSilent | what the stage of a request says about its counts and detections (`CountsInStage`, `DetectionsInStage`): no hook looked at a new request, and no earlier hook inspected what preHandler inspects, so no event can contradict it; correlation comes last, when the context does not change any more |
| Inspection_proofs, Redaction | WalkOutcome, SecretsAreMasked, RedactedFieldsAreExact, EnvelopeSurvives (with the exceptions of the properties) | none, these are about operators: see below |
| Inspection_proofs, Bola | BolaInvariance, WindowsArePruned, AlarmsAreJustified, BurstsAreNoticed, PruningIsInvisible | `WindowAccounts`: an address' window covers the last requests that were seen from it, so those before it belong to one window more at most, and in each of the two at most `Threshold` ids raised no alarm; `PrunedInTime`: a window is as old as the next pruning allows |
| Inspection_proofs, Inspection | PrimaryIsWorst, PrimaryIsAlwaysMostSevere, SecretsDoNotLeave, FieldsAreExact, EnvelopeStays, ImplementsBola, DetectorOnThePath | `InspectionIInv`: an event was made by `handleDetection()` from a request and a chain in which something matched, so what holds of every such event holds of every state |

Each proof about a specification has the same plan: `InitIInv`, a lemma per action (or group of
actions that share an effect), `NextIInv`, and the theorems by PTL. Implementation theorems map each
step to a step or a stutter of the abstract specification; for `ControlPlane` this means that every
theorem of `Heartbeat_proofs` and `PolicyDistribution_proofs` holds of the agent, for `Inspection`
that those about `Bola` hold of the detector in the chain (`DetectorOnThePath`).

**Proofs about recursive functions.** `Walk`, `PickPrimary`, `DigitsUpTo` and `Scan` are recursive functions, and the
library's `FlattenSeq` is one by a fold. Induction theorems that take an operator cannot be instantiated, so the proofs do
without: first, a function that satisfies the recursive equation is shown to exist, by a
closed form (`Walk`) or one step after the other (`Iteration`, for the others), so the function that is defined
satisfies it; then a claim about it is refuted at its least counterexample, which the
well-founded order of the natural numbers provides (`LeastNumber`).

**From the walk to the event.** `WalkOutcome` is what makes the redaction tractable: the recursive
walk ends at the same parts as `Outcome`, which looks only at the keys above a part: the first
that is dropped or denied decides, and a key is approved if one above it is. From there, each of the three
claims is about single paths. `RedactedFieldsAreExact` needs that a part below one that was dropped or
blanked is gone, that nothing else above it was listed, and that a string tells that it was redacted
exactly when it was changed (`RedactTextTells`): this is why a pass that
changes without telling, scrubbed SQL for instance, would falsify the audit line.
`SecretsAreMasked` needs that each shape comes to its pass in one piece or broken (`PassesWord`), and is matched there
(`PassesMask`). For a card in a string whose words do not run together this is the longest argument
(`CardsAreFound`): a match that begins with the card's first group ends with its last, since one more group
would be too many digits (`CardIsLongest`), and no earlier match reaches into it (`CardIsReached`), since the word in front of it and a group of the card are
too few or too many digits, unless that word is a card, whose match is its own. Nine
digits of a SIN are in a match whatever is around them, as no match of `SIN_RE` can skip them (`SinIsMatched`).
All three hold of any payload and engine; `RawEventPayload` shows that the event of
`handleDetection()` is one, with a description and as many matched rules as there are.
For the choice, `FlattenPlaces` says where each detector's hits are in the list of all
matches, and `PrimaryIsFirstWorst` what one pass over that list keeps.

Some theorems are about properties without a run, as they are what another one follows
from or lie close to it: RollbackWorks (`PolicyInForceRuns`), AntiReplay
(`VersionNeverDecreases`, a consequence of the register), SentOnce
(`InOnePlace`), CounterCorrect (`CounterIsFileSize`), BatchSize (`BatchBounded`),
NoFalseSuspicion (`AuthenticatedIsNotSuspect`), NoTimerLeft
(`NothingLeftArmed`), AlarmsAreJustified (`AlarmJustified`) and the three
implementations of parts, ImplementsBuffer, ImplementsLifecycle and ImplementsBola.

Every invariant and every action property or refinement that a run checks is proved. Only
model-checked is all liveness: `KillSwitchSettles`, `TargetSettles`, `PolicySettles`, `QueueDrains`,
`StopTerminatesOverFetch`, `EveryBatchSent`, `WindowDrains` and `TamperNoticed` (fairness and ENABLED are out of the
prover's reach). For most of them, what they rest on besides fairness is proved:

- *An answer rules until the next one* (`AnswersRule`, AnswersAreObeyed). An answer leaves the agent killed or
  alive, and aimed at a target, as it says, whatever was handled before it, and nothing
  else does. `KillSwitchSettles` and `TargetSettles` add that answers keep coming, so that those given
  earlier run out. By
  ImplementsHeartbeat this also holds of the composed agent.
- *An announcement is kept* (`AnnouncementsAreKept`, KeepsAnnouncements). The agent has a policy
  as new as the last one announced, or a fetch that will bring one, except after a
  fetch that failed or an announcement to a killed agent; without these it always has
  (NeverBehindForNothing). `PolicySettles` adds that fetches end, and `RecoveryIsAutomatic` (section 8)
  fails by the second exception. Both theorems suppose that what the
  collector publishes can be verified and applied (`PublishedRun`); with one that
  cannot, the agent's version stays the older one, or none, until another is announced.
- *stop() is never stuck over fetch()* (`NeverStuckOverFetch`, StopIsNeverStuck). Each call it still waits for is open, and has its
  timer or reads the body of a good answer. `StopTerminatesOverFetch` adds that timers fire and bodies end.
- *What was observed is not forgotten* (`NothingForgotten`, ForgetsNothing). A request stays in the window or with a
  flush until a batch that it is in settles. `EveryBatchSent` and `WindowDrains` add that batches settle.

## 8. What the checks found

Each is a disagreement between the code and what a comment, a test or the documentation
says. Three have a run; `PROJECT.json` quotes both sides.

| Run | What the code does |
|---|---|
| PolicyFirstFailure | a first policy that fails half-way leaves its mode (and rules) in force, with version 0 reported |
| ControlPlaneRecovery | a policy announced while the agent is killed is remembered by the scheduler, dropped by the agent, and never fetched after the recovery |
| AuditLogRestart | the first rotation of a process overwrites `<path>.1` of the one before |

The others are stated in the modules; put one into the `.cfg` of its module, as an
`INVARIANT` or a `PROPERTY`, to see the counterexample (`RejectedOncePerPair` needs `ReportCap = 2`;
those of `Lifecycle` and `TransportCall` a `.cfg` with `SPECIFICATION FairSpec` for these modules alone; those of
`EventBuffer` and `Delivery` are in `Delivery.cfg`, those of `Bola` in `Inspection.cfg`).

| Module: property | What the code does | What it says |
|---|---|---|
| PolicyDistribution: RejectedOncePerPair | remembers only the last rejection, so two that alternate are reported each time (`agent.ts` 651) | "exactly once per unique version+reason pair" (`src/test/policy-rejection.test.ts` 7) |
| EventBuffer: StopAwaitsOpenRequests | stop() does not await requests of earlier flushes (`transport/buffer.ts` 87) | "Safe to await during process exit" (`agent.ts` 342) |
| Lifecycle: StartIsIdempotent | a second start() arms a second watchdog and prune interval and loses the handles of the first (`agent.ts` 192) | "Idempotent" (`agent.ts` 186) |
| Lifecycle: UnreachableIsNoticed | the initialisation raced against a timeout never waits for anything, so it always wins (`agent.ts` 196) | "or the control plane is unreachable, emit upgrade_failed" (`agent.ts` 193) |
| Lifecycle: StoppedIsKilled | stop() leaves the agent inspecting (`agent.ts` 345) | "After stop, killed=true" (`src/test-lab/stress/crash.test.ts` 229) |
| TransportCall: TlsSettles | an answer cut off after its headers never settles (`transport/secure-request.ts` 96) | "rejects on transport / non-2xx / pinning failures" (`transport/secure-request.ts` 57) |
| Delivery: StopTerminatesOverTls | so stop() waits for ever when this happens to its last flush | "Safe to await during process exit" (`agent.ts` 342) |
| TransportCall: BudgetEnforced | the body of a good answer is read without a time limit (`transport/client.ts` 170) | "enforces the `timeoutMs` budget" (`transport/client.ts` 6) |
| RequestPath: WritesInspectedInPreHandler | Fastify requests with a body-bearing method but no body are not inspected (`integrations/fastify.ts` 70) | "body-bearing methods are inspected once in preHandler" (`integrations/fastify.ts` 35) |
| RequestPath: OnlyBlockedExported | exportBlockedOnly looks at the mode and so exports correlation findings that were not blocked (`agent.ts` 527) | "Only export blocked detections" (`policy/types.ts` 59) |
| SelfProtection: StartInstruments | a second call instruments nothing, and a method behind one that cannot be assigned to is left out by the first (`db-hooks/instrument.ts` 128, 115) | "Instrument all detectable database drivers. Safe to call multiple times." (`db-hooks/instrument.ts` 122) |
| Bola: RollingWindow | a window starts with its first request and ends as a whole, so up to twice the threshold passes across its end (`detectors/bola.ts` 80) | "over a rolling WINDOW_MS window" (`detectors/bola.ts` 12) |
| Inspection: NoSecretLeaves | a card next to a short number, a SIN in groups or an address is read as one longer number; a card's match takes the blank behind it, so that a SIN or health id there is not recognised; an IPv6 address, the request's `sourceIp` included, matches no pass (`redaction/patterns.ts` 116, 122, 139) | "string leaves are scanned for sensitive shapes ... and masked" (`redaction/engine.ts` 7) |
| Inspection: ResidencyModesDropFields | every mode but allowlist is a denylist (`redaction/engine.ts` 114) | "they behave like an aggressive allowlist with no approved keys" (`redaction/engine.ts` 111) |
| RequestPath: RedactionIsJournaled | a policy whose patterns redact `metadata` as a whole makes the handler throw: no line, no event (`agent.ts` 478) | "Every redaction action is journaled locally" (README 293) |

Comments that differ from the code without a property of their own: `agent.ts` 105 says that the
first non-null detection wins (the most severe does); `redaction/engine.ts` 34 that
structural keys survive (a policy's custom pattern may redact them); `types.ts` 186 that
`auditLoggedLocally` says whether a field was redacted (it is the setting `auditLog`);
`redaction/patterns.ts` 119 that the version of an OHIP number is optional (the expression
requires it); in allowlist mode `endpoints` of a discovery report and the version and reason of
`policy_rejected` are dropped, as they are not structural.
`transport/heartbeat.ts` 13-15 and 132 and `agent.ts` 547-549 say that the kill
switch stops the loop, drains the buffer and closes the log (it does neither, as the
comment inside `handleKillSwitch` says); the repository's README (lines 18 and 34) says that the
default detector chain is empty, while `createDefaultDetectors()` returns
all built-in detectors; and it says that a killed agent "stops sending telemetry", while
what is queued is still sent.

## 9. What is not modelled, and what is next

Not modelled, and not planned: pattern detectors, the route normaliser and the canonical encoding
(rewriting of strings); signature verification, the secret store and the
debugger probes (cryptography and the runtime); configuration (its values are the
constants); binary integrity (reads files once at boot and warns); fingerprints of
matches (a hash and a class of strings); Prisma's listener; examples, scripts,
benchmarks and the test lab.

What could come next:

1. `Export`: RequestPath with Delivery and AuditLog, from a
   detection to the collector, through shutdown.
2. Two processes that share the path of an audit log, and overlapping calls of
   `stop()`.
3. Dropped fields of discovery reports: Redaction's walk in front of
   Discovery's batches.
