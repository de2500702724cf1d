------------------------- MODULE EnumerationWindow -------------------------
(***************************************************************************)
(* What the BOLA detector promises of its second heuristic: per address, a *)
(* window that opens with a request and lasts for Window; a request raises *)
(* the alarm when it makes for more than Threshold different ids in its    *)
(* window.  A window that is over leaves nothing behind.                   *)
(***************************************************************************)
EXTENDS Integers, FiniteSets

CONSTANTS Addresses, Ids, Window, Threshold

VARIABLES now, live, verdict

vars == <<now, live, verdict>>

NoWindow == [start |-> 0, ids |-> {}]

-----------------------------------------------------------------------------

Init ==
    /\ now = 0
    /\ live = [a \in Addresses |-> NoWindow]
    /\ verdict = "none"

(* A request that counts: it opens a window or joins the one that is open. *)
Observe(a, i) ==
    LET w == IF live[a] = NoWindow THEN [start |-> now, ids |-> {i}]
                                   ELSE [live[a] EXCEPT !.ids = @ \cup {i}]
    IN  /\ live' = [live EXCEPT ![a] = w]
        /\ verdict' = IF Cardinality(w.ids) > Threshold THEN "enumeration"
                                                        ELSE "none"
        /\ UNCHANGED now

(* A request that does not count.                                          *)
Ignore ==
    /\ verdict' \in {"none", "mismatch"}
    /\ UNCHANGED <<now, live>>

(* Time passes; windows that are over disappear.                           *)
Pass ==
    /\ now' = now + 1
    /\ live' = [a \in Addresses |->
                  IF now' - live[a].start > Window THEN NoWindow ELSE live[a]]
    /\ verdict' = "none"

Next == Pass \/ Ignore \/ \E a \in Addresses, i \in Ids : Observe(a, i)

Spec == Init /\ [][Next]_vars
=============================================================================
