-------------------------------- MODULE Bola --------------------------------
(***************************************************************************)
(* BolaDetector (detectors/bola.ts): a request whose path names another    *)
(* object than its token's subject, and an address that walks through many *)
(* ids.  The second heuristic keeps a window per address, which the agent  *)
(* prunes on an interval (agent.ts) that stop() clears, although           *)
(* inspection goes on.                                                     *)
(*                                                                         *)
(* Time is discrete; the interval fires on time, and the clock does not    *)
(* go back.                                                                *)
(***************************************************************************)
EXTENDS Integers, FiniteSets

CONSTANTS
    Addresses, NoAddress,   \* req.sourceIp, or none
    ObjectIds, NoId,        \* what extractPathId and extractJwtSub return
    Window,                 \* WINDOW_MS
    Threshold,              \* DISTINCT_ID_THRESHOLD
    PrunePeriod,            \* the agent's interval
    Never

ASSUME WindowAssumption == Window \in Nat \ {0} /\ PrunePeriod \in Nat \ {0}
ASSUME ThresholdAssumption == Threshold \in Nat
ASSUME NeverAssumption == Never \notin Nat
ASSUME NoneAssumption == NoAddress \notin Addresses /\ NoId \notin ObjectIds

VARIABLES
    now,       \* Date.now()
    ipState,   \* detector.ipState; an address without state has no ids
    pruneAt,   \* when the agent's interval fires next
    verdict,   \* what the last call of detect() returned
    seen       \* history: what was tracked within the last Window

bolaVars == <<now, ipState, pruneAt, verdict, seen>>

NoState == [start |-> 0, ids |-> {}]

Tracked == [addr : Addresses, id : ObjectIds, at : Nat, flagged : BOOLEAN]

-----------------------------------------------------------------------------

(* trackIpId: the window the request belongs to.                           *)
WindowOf(addr) ==
    IF ipState[addr] = NoState \/ now - ipState[addr].start > Window
    THEN [start |-> now, ids |-> {}] ELSE ipState[addr]

(* As Flags, one id late.                                                  *)
FlagsLate(ids) == Cardinality(ids) > Threshold + 1

(* trackIpId: too many ids in one window.                                  *)
Flags(ids) == Cardinality(ids) > Threshold

(* trackIpId(): record the id, and count.                                  *)
Track(addr, id) ==
    LET w == WindowOf(addr)
        ids == w.ids \cup {id}
    IN  /\ ipState' = [ipState EXCEPT ![addr] = [w EXCEPT !.ids = ids]]
        /\ verdict' = IF Flags(ids) THEN "enumeration" ELSE "none"
        /\ seen' = seen \cup {[addr |-> addr, id |-> id, at |-> now,
                               flagged |-> Flags(ids)]}

(* detect(): a mismatch returns before the request is tracked.             *)
Detect(addr, id, sub) ==
    /\ IF NoId \notin {id, sub} /\ id # sub
       THEN verdict' = "mismatch" /\ UNCHANGED <<ipState, seen>>
       ELSE IF id # NoId /\ addr # NoAddress
       THEN Track(addr, id)
       ELSE verdict' = "none" /\ UNCHANGED <<ipState, seen>>
    /\ UNCHANGED <<now, pruneAt>>

(* As Stale, pruning windows that are still open.                          *)
StaleAtOnce(start) == start < now

(* As Stale, the other way round.                                          *)
StaleNever(start) == start > now

(* prune(): entries older than two windows.                                *)
Stale(start) == start < now - 2 * Window

(* The interval fires and prunes the detector.                             *)
Prune ==
    /\ pruneAt = now
    /\ pruneAt' = now + PrunePeriod
    /\ ipState' = [a \in Addresses |->
                     IF Stale(ipState[a].start) THEN NoState ELSE ipState[a]]
    /\ UNCHANGED <<now, verdict, seen>>

(* stop() clears the interval.                                             *)
Stop ==
    /\ pruneAt # Never
    /\ pruneAt' = Never
    /\ UNCHANGED <<now, ipState, verdict, seen>>

(* Time passes, but not past an armed interval.                            *)
Tick ==
    /\ pruneAt # now
    /\ now' = now + 1
    /\ verdict' = "none"
    /\ seen' = {s \in seen : now' - s.at <= Window}
    /\ UNCHANGED <<ipState, pruneAt>>

-----------------------------------------------------------------------------

(* A new agent, started at once or not at all: inspection does not wait    *)
(* for start().                                                            *)
BolaInit ==
    /\ now = 0
    /\ ipState = [a \in Addresses |-> NoState]
    /\ pruneAt \in {PrunePeriod, Never}
    /\ verdict = "none"
    /\ seen = {}

BolaNext ==
    \/ Prune
    \/ Stop
    \/ Tick
    \/ \E addr \in Addresses \cup {NoAddress},
          id, sub \in ObjectIds \cup {NoId} : Detect(addr, id, sub)

BolaSpec == BolaInit /\ [][BolaNext]_bolaVars

-----------------------------------------------------------------------------
(* Properties                                                              *)

BolaTypeOK ==
    /\ now \in Nat
    /\ ipState \in [Addresses -> [start : Nat, ids : SUBSET ObjectIds]]
    /\ pruneAt \in Nat \cup {Never}
    /\ verdict \in {"none", "mismatch", "enumeration"}
    /\ seen \subseteq Tracked

(* Pruning cannot be noticed: whenever it happens, and whether it happens  *)
(* at all, alarms are raised as if every window were kept while it is open *)
(* and forgotten when it is over.                                          *)
Windows == INSTANCE EnumerationWindow
    WITH Ids <- ObjectIds,
         live <- [a \in Addresses |->
                     IF now - ipState[a].start > Window THEN NoState
                                                        ELSE ipState[a]]
WindowSpec == Windows!Spec

(* The ids seen from an address within the last Window.                    *)
Recent(addr) == {s \in seen : s.addr = addr}
IdsOf(S) == {s.id : s \in S}

(* No false alarm: an enumeration is reported of an address from which     *)
(* more than Threshold ids were seen within the last Window.               *)
AlarmJustified ==
    verdict = "enumeration" =>
        \E a \in Addresses : Cardinality(IdsOf(Recent(a))) > Threshold

(* What is left of the promise to notice enumeration although windows do   *)
(* not roll: whoever asks for more than twice Threshold ids within any     *)
(* span of Window is flagged, wherever its windows begin.                  *)
BurstNoticed ==
    \A a \in Addresses :
        Cardinality(IdsOf(Recent(a))) > 2 * Threshold
            => \E s \in Recent(a) : s.flagged

(* While the interval is armed, nothing is kept for much longer than the   *)
(* two windows that prune() allows.                                        *)
MemoryBounded ==
    pruneAt # Never =>
        \A a \in Addresses :
            ipState[a] # NoState =>
                now - ipState[a].start <= 2 * Window + PrunePeriod

(* A claim that the code does not keep.  bola.ts: "distinct resource IDs   *)
(* seen in the path over a rolling WINDOW_MS window.  More than            *)
(* DISTINCT_ID_THRESHOLD distinct IDs in that window triggers an alert".   *)
RollingWindow ==
    \A s \in seen :
        s.at = now /\ Cardinality(IdsOf(Recent(s.addr))) > Threshold
            => \E t \in Recent(s.addr) : t.flagged
=============================================================================
