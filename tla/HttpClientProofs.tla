--------------------------- MODULE HttpClientProofs ---------------------------
(***************************************************************************)
(* Proofs about HttpClient, for every set of error statuses and every      *)
(* configured number of attempts.                                          *)
(***************************************************************************)
EXTENDS HttpClient, TLAPS

\* A configured call goes out a positive number of times.
LEMMA LimitType ==
    ASSUME retry \in Retry
    PROVE  Limit \in Nat /\ Limit >= 1
  BY MaxAttemptsAssumption DEF Limit, Retry

LEMMA ErrorsType ==
    {Timeout, Transport, Unsendable} \subseteq Errors
    /\ \A s \in Statuses : Answered(s) \in Errors
  BY DEF Errors

\* A failed attempt ends the call or goes back before the next sending, and
\* then an attempt is left.
LEMMA FailedNext ==
    ASSUME errors \in Seq(Errors), NEW e \in Errors, Failed(e)
    PROVE  /\ errors' \in Seq(Errors)
           /\ phase' \in {"ready", "raised"}
           /\ phase' = "ready" => sends < Limit
  BY DEF Failed

(***************************************************************************)
(* The inductive invariant: before each sending an attempt is left and no  *)
(* connection is held.                                                     *)
(***************************************************************************)
LimitInv == sends <= Limit /\ (phase = "ready" => sends < Limit)

HeldInv == (kind = "request" => held = {}) /\ NoConnectionHeld

CallInv == TypeOK /\ LimitInv /\ HeldInv

LEMMA CallInit == Init => CallInv
  BY LimitType DEF Init, CallInv, TypeOK, LimitInv, HeldInv, NoConnectionHeld

LEMMA CallNext == CallInv /\ [Next]_vars => CallInv'
<1> SUFFICES ASSUME CallInv, [Next]_vars PROVE CallInv'
  OBVIOUS
<1> USE DEF CallInv, TypeOK, LimitInv, HeldInv, NoConnectionHeld
<1>1. Limit \in Nat /\ (retry' = retry => Limit' = Limit)
  BY LimitType DEF Limit
<1>2. CASE Send
  BY <1>1, <1>2 DEF Send
<1>3. CASE SendFails
  BY <1>1, <1>3, FailedNext, ErrorsType DEF SendFails
<1>4. CASE Respond
  <2>1. errors' \in Seq(Errors) /\ phase' \in {"ready", "raised", "returned"}
        /\ (phase' = "ready" => sends < Limit)
    BY <1>4, FailedNext, ErrorsType DEF Respond
  <2> QED
    BY <1>1, <1>4, <2>1 DEF Respond
<1>5. CASE Headers
  BY <1>1, <1>5 DEF Headers
<1>6. CASE Open
  BY <1>1, <1>6 DEF Open
<1>7. CASE ErrorBody
  <2>1. errors' \in Seq(Errors) /\ phase' \in {"ready", "raised"}
        /\ (phase' = "ready" => sends < Limit)
    BY <1>7, FailedNext, ErrorsType DEF ErrorBody
  <2> QED
    BY <1>1, <1>7, <2>1 DEF ErrorBody
<1>8. CASE Leave
  BY <1>1, <1>8, ErrorsType DEF Leave
<1>9. CASE UNCHANGED vars
  BY <1>1, <1>9 DEF vars
<1> QED
  BY <1>2, <1>3, <1>4, <1>5, <1>6, <1>7, <1>8, <1>9 DEF Next

THEOREM CallCorrect == Spec => []CallInv
  BY CallInit, CallNext, PTL DEF Spec

(***************************************************************************)
(* What it gives.                                                          *)
(***************************************************************************)

\* The call's variables keep their types.
THEOREM TypeCorrect == Spec => []TypeOK
<1>1. CallInv => TypeOK
  BY DEF CallInv
<1> QED
  BY <1>1, CallCorrect, PTL

\* No call is sent more often than its retry config allows, nor twice when
\* retry is omitted.
THEOREM SentAsConfiguredCorrect == Spec => []SentAsConfigured
<1>1. CallInv => SentAsConfigured
  BY DEF CallInv, TypeOK, LimitInv, Limit, Retry, SentAsConfigured
<1> QED
  BY <1>1, CallCorrect, PTL

\* A call that ended, or waits to try again, holds no connection.
THEOREM NoConnectionHeldCorrect == Spec => []NoConnectionHeld
<1>1. CallInv => NoConnectionHeld
  BY DEF CallInv, HeldInv
<1> QED
  BY <1>1, CallCorrect, PTL

\* Nothing is sent again once the body is open, or the call has returned.
THEOREM NeverResentCorrect == Spec => NeverResentOnceOpen
<1>1. [Next]_vars => [(phase \in {"open", "returned"}) => phase' # "ready" /\ sends' = sends]_vars
  BY DEF Next, Send, SendFails, Respond, Headers, Open, ErrorBody, Leave, vars
<1> QED
  BY <1>1, PTL DEF Spec, NeverResentOnceOpen
(***************************************************************************)
(* Why a call fails.  Every attempt that is over left one error, and all   *)
(* of them but the last were worth another attempt.                        *)
(***************************************************************************)

\* The retry repeats exactly the errors that are not hopeless.
LEMMA RetryableMeansHope ==
    ASSUME NEW e \in Errors
    PROVE  Retryable(e) <=> ~Hopeless(e)
<1>1. CASE e \in {Timeout, Transport, Unsendable}
  BY <1>1 DEF Timeout, Transport, Unsendable, Retryable, Hopeless
<1>2. CASE \E s \in Statuses : e = Answered(s)
  <2> PICK s \in Statuses : e = Answered(s)
    BY <1>2
  <2>1. s \in 400..599 /\ e.class = "HttpClientResponseError" /\ e.status = s
    BY StatusesAssumption DEF Answered
  <2> QED
    BY <2>1 DEF Retryable, Hopeless
<1> QED
  BY <1>1, <1>2 DEF Errors

ErrorsInv ==
    /\ Len(errors) = IF phase \in {"ready", "raised"} THEN sends ELSE sends - 1
    /\ phase \in {"sent", "open", "returned", "raised"} => sends >= 1
    /\ \A i \in 1..Len(errors) :
         i < Len(errors) \/ phase # "raised" => ~Hopeless(errors[i])

RaisedInv ==
    /\ phase = "open" => kind = "stream"
    /\ phase = "raised" =>
         \/ Hopeless(errors[Len(errors)])
         \/ sends = Limit
         \/ kind = "stream" /\ errors[Len(errors)] = Transport

ReasonInv == CallInv /\ ErrorsInv /\ RaisedInv

\* An attempt that ended with e keeps the account of the errors.
LEMMA FailedKeepsReason ==
    ASSUME ReasonInv, phase = "sent", NEW e \in Errors, Failed(e),
           UNCHANGED <<kind, retry, sends>>
    PROVE  ErrorsInv' /\ RaisedInv'
<1> USE DEF ReasonInv, CallInv, TypeOK, LimitInv
<1>1. Limit' = Limit /\ Limit \in Nat
  BY LimitType DEF Limit
<1>2. /\ Len(errors') = Len(errors) + 1 /\ Len(errors) \in Nat
      /\ errors'[Len(errors')] = e
      /\ \A i \in 1..Len(errors) : errors'[i] = errors[i]
  BY DEF Failed
<1>3. /\ phase' \in {"ready", "raised"}
      /\ phase' = "ready" => ~Hopeless(e)
      /\ phase' = "raised" => Hopeless(e) \/ ~(sends < Limit)
  BY RetryableMeansHope DEF Failed
<1>4. sends >= 1 /\ Len(errors) = sends - 1
      /\ \A i \in 1..Len(errors) : ~Hopeless(errors[i])
  BY DEF ErrorsInv
<1>5. ErrorsInv'
  <2>1. \A i \in 1..Len(errors') :
          i < Len(errors') \/ phase' # "raised" => ~Hopeless(errors'[i])
    <3> SUFFICES ASSUME NEW i \in 1..Len(errors'),
                        i < Len(errors') \/ phase' # "raised"
                 PROVE  ~Hopeless(errors'[i])
      OBVIOUS
    <3>1. CASE i < Len(errors')
      BY <1>2, <1>4, <3>1
    <3>2. CASE i = Len(errors')
      BY <1>2, <1>3, <3>2
    <3> QED
      BY <1>2, <3>1, <3>2
  <2>2. Len(errors') = sends' /\ sends' >= 1
    BY <1>2, <1>4
  <2> QED
    BY <1>3, <2>1, <2>2 DEF ErrorsInv
<1>6. RaisedInv'
  BY <1>1, <1>2, <1>3 DEF RaisedInv
<1> QED
  BY <1>5, <1>6

LEMMA ReasonNext == ReasonInv /\ [Next]_vars => ReasonInv'
<1> SUFFICES ASSUME ReasonInv, [Next]_vars PROVE ErrorsInv' /\ RaisedInv'
  BY CallNext DEF ReasonInv
<1>1. CallInv /\ ErrorsInv /\ RaisedInv
  BY DEF ReasonInv
<1>2. sends \in Nat /\ errors \in Seq(Errors) /\ Len(errors) \in Nat
  BY <1>1 DEF CallInv, TypeOK
<1>3. CASE Send
  BY <1>1, <1>2, <1>3 DEF Send, ErrorsInv, RaisedInv
<1>4. CASE SendFails
  BY <1>4, FailedKeepsReason, ErrorsType DEF SendFails
<1>5. CASE Respond
  <2>1. CASE phase' = "returned" /\ UNCHANGED errors
    BY <1>1, <1>2, <1>5, <2>1 DEF Respond, ErrorsInv, RaisedInv
  <2>2. CASE \E s \in Statuses : Failed(Answered(s))
    BY <1>5, <2>2, FailedKeepsReason, ErrorsType DEF Respond
  <2> QED
    BY <1>5, <2>1, <2>2 DEF Respond
<1>6. CASE Headers
  BY <1>1, <1>6 DEF Headers, ErrorsInv, RaisedInv
<1>7. CASE Open
  BY <1>1, <1>7 DEF Open, ErrorsInv, RaisedInv, CallInv, TypeOK, HeldInv
<1>8. CASE ErrorBody
  BY <1>8, FailedKeepsReason, ErrorsType DEF ErrorBody
<1>9. CASE Leave
  <2>1. CASE phase' = "returned" /\ UNCHANGED errors
    BY <1>1, <1>2, <1>9, <2>1 DEF Leave, ErrorsInv, RaisedInv
  <2>2. CASE phase' = "raised" /\ errors' = Append(errors, Transport)
    <3>1. /\ Len(errors') = Len(errors) + 1
          /\ errors'[Len(errors')] = Transport
          /\ \A i \in 1..Len(errors) : errors'[i] = errors[i]
      BY <1>2, <2>2, ErrorsType
    <3>2. phase = "open" /\ sends' = sends /\ kind' = kind /\ kind = "stream"
      BY <1>1, <1>9 DEF Leave, RaisedInv
    <3> QED
      BY <1>1, <1>2, <2>2, <3>1, <3>2 DEF ErrorsInv, RaisedInv
  <2> QED
    BY <1>9, <2>1, <2>2 DEF Leave
<1>10. CASE UNCHANGED vars
  <2>1. Limit' = Limit
    BY <1>10 DEF vars, Limit
  <2> QED
    BY <1>1, <1>10, <2>1 DEF vars, ErrorsInv, RaisedInv
<1> QED
  BY <1>3, <1>4, <1>5, <1>6, <1>7, <1>8, <1>9, <1>10 DEF Next

\* Only errors that a repetition may mend are repeated, and a call fails with a
\* hopeless error, with its last attempt, or with a broken stream.
THEOREM FailsForAReasonCorrect == Spec => []FailsForAReason
<1>1. Init => ReasonInv
  BY CallInit DEF Init, ReasonInv, ErrorsInv, RaisedInv
<1>2. ReasonInv => FailsForAReason
  <2> SUFFICES ASSUME ReasonInv PROVE FailsForAReason
    OBVIOUS
  <2>1. Len(errors) \in Nat
    BY DEF ReasonInv, CallInv, TypeOK
  <2> QED
    BY <2>1 DEF ReasonInv, ErrorsInv, RaisedInv, FailsForAReason
<1> QED
  BY <1>1, <1>2, ReasonNext, PTL DEF Spec
===============================================================================
