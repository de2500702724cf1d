---------------------------- MODULE TransportCall ----------------------------
(***************************************************************************)
(* The life of one request to the collector: post() and get() of           *)
(* TransportClient (transport/client.ts), over fetch() or, with TLS        *)
(* options, over secureRequest() (transport/secure-request.ts).            *)
(*                                                                         *)
(* Most modules let a request settle at some time.  This one shows when it *)
(* does: which of the timer that post() arms, the timeout of the socket    *)
(* and the events of the connection can settle the promise, at which stage *)
(* of the answer.  Delivery puts it under the event buffer.                *)
(***************************************************************************)
EXTENDS Integers

CONSTANT Calls   \* the calls of post() and get()

VARIABLES
    tls,      \* client.tls is set, fixed by the constructor
    promise,  \* what the caller sees of each call
    timer,    \* the timer of the call's AbortController is armed
    late,     \* timeoutMs have passed since the call was made
    answer    \* what has arrived of the answer

vars == <<tls, promise, timer, late, answer>>

(* The status is "ok" (2xx) or "bad"; the body is complete once it is      *)
(* known to be JSON, empty or garbage; a connection closes after the       *)
(* complete body or early.                                                 *)
Bodies == {"json", "empty", "garbage"}

AnswerShape ==
    [status : {"none", "ok", "bad"}, body : {"partial"} \cup Bodies,
     closed : BOOLEAN]

NoAnswer == [status |-> "none", body |-> "partial", closed |-> FALSE]

Settled(c) == promise[c] \in {"resolved", "rejected"}

(* The exchange of a pending call goes on.                                 *)
Open(c) == promise[c] = "pending" /\ ~answer[c].closed

-----------------------------------------------------------------------------
(* The agent                                                               *)

(* post() or get(), up to its first await, for several calls at once: the  *)
(* timer of the call's AbortController is armed.                           *)
BeginCalls(C) ==
    /\ promise' = [c \in Calls |-> IF c \in C THEN "pending" ELSE promise[c]]
    /\ timer' = [c \in Calls |-> c \in C \/ timer[c]]
    /\ late' = [c \in Calls |-> late[c] /\ c \notin C]
    /\ answer' = [c \in Calls |-> IF c \in C THEN NoAnswer ELSE answer[c]]
    /\ UNCHANGED tls

(* The promise settles, and the finally block clears the timer.            *)
Settle(c, outcome) ==
    /\ promise' = [promise EXCEPT ![c] = outcome]
    /\ timer' = [timer EXCEPT ![c] = FALSE]

(* As ClearsTimer, for every status.                                       *)
ClearsTimerAlways(status) == ~tls

(* Whether the headers clear the timer: with fetch(), `return res.json()`  *)
(* leaves the try block without waiting for the body; the body of a bad    *)
(* answer is awaited inside of it.                                         *)
ClearsTimer(status) == ~tls /\ status = "ok"

(* The status and the headers arrive.                                      *)
Headers(c, status) ==
    /\ Open(c)
    /\ answer[c].status = "none"
    /\ answer' = [answer EXCEPT ![c].status = status]
    /\ timer' = [timer EXCEPT ![c] = @ /\ ~ClearsTimer(status)]
    /\ UNCHANGED <<tls, promise, late>>

(* What becomes of a complete answer.  secureRequest() takes an empty body *)
(* for {}; res.json() rejects it.                                          *)
Outcome(status, body) ==
    IF status = "ok" /\ (body = "json" \/ (body = "empty" /\ tls))
    THEN "resolved" ELSE "rejected"

(* The body is complete.                                                   *)
Ends(c, body) ==
    /\ Open(c)
    /\ answer[c].status # "none"
    /\ answer' = [answer EXCEPT ![c].body = body, ![c].closed = TRUE]
    /\ Settle(c, Outcome(answer[c].status, body))
    /\ UNCHANGED <<tls, late>>

(* The connection fails with an error, or the socket has been silent for   *)
(* timeoutMs and is destroyed, or fetch() itself loses patience.           *)
Fails(c) ==
    /\ Open(c)
    /\ answer' = [answer EXCEPT ![c].closed = TRUE]
    /\ Settle(c, "rejected")
    /\ UNCHANGED <<tls, late>>

(* The collector closes the connection, without an error, before the body  *)
(* is complete.  secureRequest() only listens for "data" and "end" of the  *)
(* answer and for errors of the request: once there is an answer, none of  *)
(* these come.                                                             *)
ClosesEarly(c) ==
    /\ Open(c)
    /\ answer' = [answer EXCEPT ![c].closed = TRUE]
    /\ IF tls /\ answer[c].status # "none"
       THEN UNCHANGED <<promise, timer>>
       ELSE Settle(c, "rejected")
    /\ UNCHANGED <<tls, late>>

(* timeoutMs have passed: the timer, if it is armed, aborts fetch();       *)
(* nothing listens to the signal on the TLS path.                          *)
TimeoutPasses(c) ==
    /\ promise[c] # "none"
    /\ ~late[c]
    /\ late' = [late EXCEPT ![c] = TRUE]
    /\ timer' = [timer EXCEPT ![c] = FALSE]
    /\ IF timer[c] /\ ~tls /\ promise[c] = "pending"
       THEN /\ promise' = [promise EXCEPT ![c] = "rejected"]
            /\ answer' = [answer EXCEPT ![c].closed = TRUE]
       ELSE UNCHANGED <<promise, answer>>
    /\ UNCHANGED tls

-----------------------------------------------------------------------------

Init ==
    /\ tls \in BOOLEAN
    /\ promise = [c \in Calls |-> "none"]
    /\ timer = [c \in Calls |-> FALSE]
    /\ late = [c \in Calls |-> FALSE]
    /\ answer = [c \in Calls |-> NoAnswer]

(* The exchange is over, one way or another.                               *)
ExchangeEnds(c) ==
    Fails(c) \/ ClosesEarly(c) \/ \E body \in Bodies : Ends(c, body)

Next ==
    \/ \E C \in SUBSET Calls : BeginCalls(C)
    \/ \E c \in Calls :
          \/ TimeoutPasses(c)
          \/ ExchangeEnds(c)
          \/ \E status \in {"ok", "bad"} : Headers(c, status)

Spec == Init /\ [][Next]_vars

(***************************************************************************)
(* Fairness.  Time passes.  An answer whose headers have arrived ends, is  *)
(* cut off or falls silent; that a collector sends a body slowly for ever  *)
(* is excluded.  On the TLS path a silent socket is destroyed.  Nothing is *)
(* assumed of a collector that has not answered yet.                       *)
(***************************************************************************)
Fairness == \A c \in Calls :
    /\ WF_vars(TimeoutPasses(c))
    /\ WF_vars(answer[c].status # "none" /\ ExchangeEnds(c))
    /\ WF_vars(tls /\ answer[c].status = "none" /\ Fails(c))

FairSpec == Spec /\ Fairness

-----------------------------------------------------------------------------
(* Properties                                                              *)

TypeOK ==
    /\ tls \in BOOLEAN
    /\ promise \in [Calls -> {"none", "pending", "resolved", "rejected"}]
    /\ timer \in [Calls -> BOOLEAN]
    /\ late \in [Calls -> BOOLEAN]
    /\ answer \in [Calls -> AnswerShape]

(* Whatever settles a call, it leaves no timer behind (the timer would     *)
(* keep the process alive), and a call that is over time has none.         *)
NothingLeftArmed == \A c \in Calls : timer[c] => ~Settled(c) /\ ~late[c]

(* fetch() is held to the time limit until a good status arrives, while an *)
(* error's text is read included.                                          *)
BudgetUntilGoodStatus ==
    \A c \in Calls : ~tls /\ late[c] /\ answer[c].status # "ok" => Settled(c)

(* Every call over fetch() settles: what the fairness of the buffers'      *)
(* modules assumes of a request.                                           *)
FetchSettles ==
    \A c \in Calls : (promise[c] = "pending" /\ ~tls) ~> Settled(c)

(* Two claims that the code does not keep.  secure-request.ts: "Resolves   *)
(* with the parsed JSON body, rejects on transport / non-2xx / pinning     *)
(* failures."                                                              *)
TlsSettles == \A c \in Calls : (promise[c] = "pending" /\ tls) ~> Settled(c)

(* client.ts: "A per-call AbortController enforces the timeoutMs budget."  *)
BudgetEnforced == \A c \in Calls : ~tls /\ late[c] => Settled(c)
=============================================================================
