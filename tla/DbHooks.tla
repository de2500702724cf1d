------------------------------ MODULE DbHooks ------------------------------
(***************************************************************************)
(* The hooks that instrumentDatabaseDrivers() (db-hooks/instrument.ts)     *)
(* installs on the methods of database drivers, and what other actors in   *)
(* the process (tracers that wrap the same methods, test doubles, another  *)
(* copy of this package) do to them before and afterwards.                 *)
(*                                                                         *)
(* A method is the stack of functions that a call goes through, the        *)
(* outermost first.  Only functions that delegate are on top of others:    *)
(* one that does not replaces the stack.                                   *)
(***************************************************************************)
EXTENDS Integers, Sequences, FiniteSets

CONSTANTS
    Drivers,
    Methods,     \* the methods, a prototype and a name in the code
    MethodsOf,   \* those of each driver, in the order they are patched
    MaxAssignments   \* bounds the assignments of others to methods

VARIABLES
    stack,      \* the functions behind each method, none if it is missing
    frozen,     \* the methods that cannot be assigned to, fixed
    done,       \* the one-shot guard
    registry,   \* the methods in hookRegistry
    disturbed,  \* history: of these, what others have assigned to since
    assignments \* those of others so far

hookVars == <<stack, frozen, done, registry, disturbed, assignments>>

(* A copying tracer's wrapper takes over the properties of what it wraps,  *)
(* the marker among them.                                                  *)
Layers == {"driver", "rasp", "otherCopy", "tracer", "copyingTracer", "other"}

-----------------------------------------------------------------------------
(* Instrumentation                                                         *)

(* isPatched().  The marker is a registered symbol: it is the same one for *)
(* every copy of the package.                                              *)
IsPatched(m) == \E i \in DOMAIN stack[m] :
    /\ stack[m][i] \in {"rasp", "otherCopy"}
    /\ \A j \in 1 .. i - 1 : stack[m][j] = "copyingTracer"

(* patchMethod() gets as far as the assignment.                            *)
Patchable(m) == stack[m] # <<>> /\ ~IsPatched(m)

(* The methods that patchMethod() is called for: those of a driver share a *)
(* try block, which the first assignment that throws leaves.               *)
Reached == UNION {{MethodsOf[d][i] : i \in
    {i \in DOMAIN MethodsOf[d] : \A j \in 1 .. i - 1 :
        Patchable(MethodsOf[d][j]) => MethodsOf[d][j] \notin frozen}} :
            d \in Drivers}

(* The methods that are assigned to.                                       *)
Assigned == {m \in Reached : Patchable(m) /\ m \notin frozen}

(* As Recorded, pushing the record before the assignment.                  *)
RecordedFirst == {m \in Reached : Patchable(m)}

(* The methods whose record is pushed.                                     *)
Recorded == Assigned

(* As Instrument, without the one-shot guard.                              *)
InstrumentAgain ==
    /\ done' = TRUE
    /\ stack' = [m \in Methods |-> IF m \in Assigned THEN <<"rasp">> \o stack[m]
                                                     ELSE stack[m]]
    /\ registry' = registry \cup Recorded
    /\ UNCHANGED <<frozen, disturbed, assignments>>

(* instrumentDatabaseDrivers()                                             *)
Instrument ==
    \/ /\ ~done
       /\ done' = TRUE
       /\ stack' = [m \in Methods |-> IF m \in Assigned THEN <<"rasp">> \o stack[m]
                                                        ELSE stack[m]]
       /\ registry' = registry \cup Recorded
       /\ UNCHANGED <<frozen, disturbed, assignments>>
    \/ done /\ UNCHANGED hookVars

(* The function that a call of the method reaches first.                   *)
Current(m) == IF stack[m] = <<>> THEN "none" ELSE stack[m][1]

(* As Tampered, comparing the marker only.                                 *)
TamperedUnmarked == {m \in registry : ~IsPatched(m)}

(* verifyHookIntegrity()                                                   *)
Tampered == {m \in registry : Current(m) # "rasp" \/ ~IsPatched(m)}

-----------------------------------------------------------------------------
(* Other actors in the process                                             *)

(* Somebody else assigns to a method.                                      *)
Assign(m, functions) ==
    /\ m \notin frozen
    /\ assignments < MaxAssignments
    /\ assignments' = assignments + 1
    /\ stack' = [stack EXCEPT ![m] = functions]
    /\ disturbed' = disturbed \cup ({m} \cap registry)
    /\ UNCHANGED <<frozen, done, registry>>

(* A tracer or another copy of the package wraps the method.               *)
Wrap(m) == \E f \in {"tracer", "copyingTracer", "otherCopy"} :
    /\ stack[m] # <<>>
    /\ f = "otherCopy" => ~IsPatched(m)
    /\ Assign(m, <<f>> \o stack[m])

(* A wrapper is taken off, with everything that is on top of it.           *)
Unwrap(m) == \E k \in 2 .. Len(stack[m]) :
    Assign(m, SubSeq(stack[m], k, Len(stack[m])))

(* The method is defined anew or deleted.                                  *)
Replace(m) ==
    /\ stack[m] # <<>>
    /\ \E functions \in {<<"other">>, <<>>} : Assign(m, functions)

(* A driver, or a method of it, is there that was not.                     *)
Appear(m) == stack[m] = <<>> /\ Assign(m, <<"driver">>)

Interference == \E m \in Methods : Wrap(m) \/ Unwrap(m) \/ Replace(m) \/ Appear(m)

-----------------------------------------------------------------------------

Init ==
    /\ frozen \in SUBSET Methods
    /\ stack \in [Methods -> {<<>>, <<"driver">>}]
    /\ done = FALSE
    /\ registry = {}
    /\ disturbed = {}
    /\ assignments = 0

Next == Instrument \/ Interference

Spec == Init /\ [][Next]_hookVars

-----------------------------------------------------------------------------
(* Properties                                                              *)

TypeOK ==
    /\ stack \in [Methods -> Seq(Layers)]
    /\ frozen \in SUBSET Methods
    /\ done \in BOOLEAN
    /\ registry \in SUBSET Methods
    /\ disturbed \in SUBSET Methods
    /\ assignments \in 0 .. MaxAssignments

(* A method records a query once: whatever others put on top of a hook or  *)
(* take off it, and however often instrumentDatabaseDrivers() is called, no*)
(* call of a method goes through two of its wrappers.                      *)
RecordedOnce == \A m \in Methods : \A i, j \in DOMAIN stack[m] :
    stack[m][i] = "rasp" /\ stack[m][j] = "rasp" => i = j

(* The wrapper that was installed is no longer part of the method.         *)
Lost(m) == m \in registry /\ \A i \in DOMAIN stack[m] : stack[m][i] # "rasp"
=============================================================================
