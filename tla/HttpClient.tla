------------------------------ MODULE HttpClient ------------------------------
(***************************************************************************)
(* One call through AsyncHttpClient: request (the response is read whole)  *)
(* or stream (the response stays open while the caller reads its body),    *)
(* with the retry that the "retry" mapping of the LLM config asks for.     *)
(*                                                                         *)
(* httpx and tenacity are external.  httpx gives an attempt a response or  *)
(* an exception, and drops the connection of a body whose read fails;      *)
(* tenacity repeats a failed attempt until the error is not retryable or   *)
(* the attempts are used up, and raises the last error.                    *)
(***************************************************************************)
EXTENDS Naturals, Sequences, FiniteSets

CONSTANTS
    Statuses,     \* the error statuses the server may answer with
    MaxAttempts   \* bound: the largest configured retry.attempts

ASSUME StatusesAssumption    == Statuses \subseteq 400..599
ASSUME MaxAttemptsAssumption == MaxAttempts \in Nat \ {0}

VARIABLES
    kind,     \* "request" or "stream"
    retry,    \* the "retry" value of the call; attempts 0 is 0 or no attempts at all
    phase,    \* "ready" (to send), "sent", "open", "returned" or "raised"
    errors,   \* the errors of the attempts so far
    sends,    \* how many times the request went out
    held      \* the attempts whose response still holds a connection

vars == <<kind, retry, phase, errors, sends, held>>

Retry == [given : BOOLEAN, attempts : 0..MaxAttempts]

Timeout       == [class |-> "HttpClientTimeoutError",  status |-> 0]
Transport     == [class |-> "httpx.HTTPError",         status |-> 0]
Unsendable    == [class |-> "other",                   status |-> 0]
Answered(s)   == [class |-> "HttpClientResponseError", status |-> s]

Errors == {Timeout, Transport, Unsendable} \union {Answered(s) : s \in Statuses}

\* Mutant: every failed attempt is repeated.
RetryableAll(e) == TRUE

Retryable(e) ==
    \/ e.class \in {"HttpClientTimeoutError", "httpx.HTTPError"}
    \/ e.status \in {408, 409, 429} \union 500..599

\* Mutant: an omitted mapping gets the defaults of an empty one.
LimitDefaults == IF retry.attempts = 0 THEN 3 ELSE retry.attempts

\* How often the request may go out: a mapping without attempts, or with 0,
\* means 3.
Limit ==
    CASE ~retry.given                          -> 1
      [] retry.given /\ retry.attempts = 0     -> 3
      [] retry.given /\ retry.attempts # 0     -> retry.attempts

Init ==
    /\ kind \in {"request", "stream"}
    /\ retry \in Retry
    /\ phase = "ready"
    /\ errors = <<>> /\ sends = 0 /\ held = {}

Send ==
    /\ phase = "ready"
    /\ phase' = "sent" /\ sends' = sends + 1
    /\ UNCHANGED <<kind, retry, errors, held>>

\* Mutant: one attempt too many.
FailedOnceMore(e) ==
    /\ errors' = Append(errors, e)
    /\ phase' = IF Retryable(e) /\ sends <= Limit THEN "ready" ELSE "raised"

\* An attempt ended with e.
Failed(e) ==
    /\ errors' = Append(errors, e)
    /\ phase' = IF Retryable(e) /\ sends < Limit THEN "ready" ELSE "raised"

\* No response: a timeout is wrapped, other exceptions are not.
SendFails ==
    /\ phase = "sent" /\ held = {}
    /\ \E e \in {Timeout, Transport, Unsendable} : Failed(e)
    /\ UNCHANGED <<kind, retry, sends, held>>

Respond ==
    /\ phase = "sent" /\ kind = "request"
    /\ \/ phase' = "returned" /\ UNCHANGED errors
       \/ \E s \in Statuses : Failed(Answered(s))
    /\ UNCHANGED <<kind, retry, sends, held>>

Headers ==
    /\ phase = "sent" /\ kind = "stream" /\ held = {}
    /\ held' = {sends}
    /\ UNCHANGED <<kind, retry, phase, errors, sends>>

Open ==
    /\ phase = "sent" /\ held # {}
    /\ phase' = "open"
    /\ UNCHANGED <<kind, retry, errors, sends, held>>

\* Mutant: the response of a failed attempt is not closed.
ErrorBodyLeft ==
    /\ phase = "sent" /\ held # {}
    /\ \E s \in Statuses : Failed(Answered(s))
    /\ UNCHANGED <<kind, retry, sends, held>>

\* An error status: the body is read and the response closed.  The read has its
\* own failures, whose timeouts nobody wraps.
ErrorBody ==
    /\ phase = "sent" /\ held # {}
    /\ held' = {}
    /\ \E e \in {Transport} \union {Answered(s) : s \in Statuses} : Failed(e)
    /\ UNCHANGED <<kind, retry, sends>>

\* Mutant: a body that breaks is fetched again.
LeaveRetrying ==
    /\ phase = "open"
    /\ held' = {}
    /\ \/ phase' = "returned" /\ UNCHANGED errors
       \/ Failed(Transport)
    /\ UNCHANGED <<kind, retry, sends>>

\* The caller leaves the context, at the end of the body or with an exception
\* that goes past the retry: the response is closed either way.
Leave ==
    /\ phase = "open"
    /\ held' = {}
    /\ \/ phase' = "returned" /\ UNCHANGED errors
       \/ phase' = "raised" /\ errors' = Append(errors, Transport)
    /\ UNCHANGED <<kind, retry, sends>>

Next == Send \/ SendFails \/ Respond \/ Headers \/ Open \/ ErrorBody \/ Leave

Spec == Init /\ [][Next]_vars

------------------------------------------------------------------------------
(* Properties.                                                             *)

\* Type invariant: in particular an attempt holds at most its own connection.
TypeOK ==
    /\ kind \in {"request", "stream"} /\ retry \in Retry
    /\ phase \in {"ready", "sent", "open", "returned", "raised"}
    /\ errors \in Seq(Errors) /\ sends \in Nat
    /\ held \in {{}, {sends}}

\* The upstream sees the request as often as the config says at most; once when
\* "retry" is omitted (docs/usage.md: "If retry is omitted, that upstream LLM
\* call is not retried"), and the default of three times, not without end, when
\* the mapping has no attempts or 0.
SentAsConfigured ==
    /\ ~retry.given => sends <= 1
    /\ retry.given /\ retry.attempts # 0 => sends <= retry.attempts
    /\ retry.given /\ retry.attempts = 0 => sends <= 3

\* Errors that a repetition would not mend.
Hopeless(e) == e.class = "other" \/ e.status \in 400..499 \ {408, 409, 429}

\* A call fails because of a hopeless error, because no attempt is left, or
\* because the body of a stream broke; and what was repeated was not hopeless.
FailsForAReason ==
    /\ \A i \in 1..Len(errors) - 1 : ~Hopeless(errors[i])
    /\ phase = "raised" =>
         \/ Hopeless(errors[Len(errors)])
         \/ Len(errors) = Limit
         \/ kind = "stream" /\ errors[Len(errors)] = Transport

\* A call that ended, and one that waits before it tries again, holds no
\* connection of the pool.
NoConnectionHeld == phase \in {"ready", "returned", "raised"} => held = {}

\* Nothing is sent again once the caller has seen a part of the response: text
\* already relayed to the client never comes twice.
NeverResentOnceOpen ==
    [][(phase \in {"open", "returned"}) => phase' # "ready" /\ sends' = sends]_vars
===============================================================================
