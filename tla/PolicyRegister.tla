--------------------------- MODULE PolicyRegister ---------------------------
(***************************************************************************)
(* What policy distribution promises, without how it gets there.           *)
(*                                                                         *)
(* The agent holds at most one policy.  It only ever moves to a policy     *)
(* that carries the pinned trust anchor's signature and that the agent is  *)
(* able to run, never to one with a smaller version number, and once it    *)
(* holds a policy it never goes back to holding none.                      *)
(*                                                                         *)
(* PolicyDistribution implements this specification.                       *)
(***************************************************************************)
EXTENDS Integers

CONSTANTS
    Runnable,      \* the signed policies that the agent can apply completely
    VersionOf(_),  \* the version number of a policy
    NoPolicy       \* no policy has been accepted yet

VARIABLE held

-----------------------------------------------------------------------------

Init == held = NoPolicy

(* The agent moves from the policy it holds to p.                          *)
Adopt(p) ==
    /\ held = NoPolicy \/ VersionOf(p) >= VersionOf(held)
    /\ held' = p

Next == \E p \in Runnable : Adopt(p)

Spec == Init /\ [][Next]_held
=============================================================================
