---------------------------- MODULE LossyChannel ----------------------------
(***************************************************************************)
(* What the event buffer promises the agent and the collector: an event    *)
(* that was accepted reaches the collector at most once, and nothing       *)
(* reaches it that was not accepted.  Events may be lost and reordered.    *)
(***************************************************************************)
EXTENDS Integers

CONSTANT Events

VARIABLES accepted, received

-----------------------------------------------------------------------------

Init ==
    /\ accepted = {}
    /\ received = [e \in Events |-> 0]

Accept(e) ==
    /\ e \notin accepted
    /\ accepted' = accepted \cup {e}
    /\ UNCHANGED received

Deliver(e) ==
    /\ e \in accepted
    /\ received[e] = 0
    /\ received' = [received EXCEPT ![e] = 1]
    /\ UNCHANGED accepted

Next == \E e \in Events : Accept(e) \/ Deliver(e)

Spec == Init /\ [][Next]_<<accepted, received>>
=============================================================================
