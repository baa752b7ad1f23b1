----------------------------- MODULE WorkerProofs -----------------------------
(***************************************************************************)
(* Proofs about Worker, for every set of workflows, callers, asks and      *)
(* deployments, and every number of requests and pushed documents.         *)
(***************************************************************************)
EXTENDS Worker, InductionFacts

(***************************************************************************)
(* What a step does to the requests.                                       *)
(***************************************************************************)

\* A request is the record of its fields.
Whole(q) ==
    q = [st |-> q.st, ask |-> q.ask, of |-> q.of, stream |-> q.stream, left |-> q.left,
         thread |-> q.thread, since |-> q.since, llm |-> q.llm, status |-> q.status,
         session_id |-> q.session_id]

ShapeInv ==
    /\ request = [r \in Requests |-> request[r]]
    /\ \A r \in Requests : Whole(request[r])

\* A step of r leaves the other requests alone, and what r is about.
StepOf(r) ==
    /\ request' = [s \in Requests |-> request'[s]]
    /\ Whole(request'[r])
    /\ \A s \in Requests : s # r => request'[s] = request[s]
    /\ request'[r].ask = request[r].ask /\ request'[r].of = request[r].of
    /\ request'[r].stream = request[r].stream /\ request'[r].thread = request[r].thread

\* What r was told stays, or it is told now.
Silent(r) ==
    request'[r].status = request[r].status /\ request'[r].session_id = request[r].session_id

Told(r, status) ==
    /\ request'[r].status = status
    /\ request'[r].session_id = Reported(status, request[r].ask, Context(r, request[r].ask))

LEMMA IdleWhole == Whole(Idle)
  BY DEF Whole, Idle

LEMMA Arrived ==
    ASSUME ShapeInv, NEW r \in Requests, NEW ask, NEW of, NEW stream,
           Arrive(r, ask, of, stream)
    PROVE  LET status == Refusal(deployment.auth, ask)  q == request'[r] IN
           /\ request' = [s \in Requests |-> request'[s]] /\ Whole(q)
           /\ \A s \in Requests : s # r => request'[s] = request[s]
           /\ q.ask = ask /\ q.of = of /\ q.stream \in {stream, FALSE} /\ q.left = FALSE
           /\ q.since = None /\ q.llm = None
           /\ status = None => /\ q.st = "accepted" /\ q.status = None
                               /\ q.thread = ThreadId(Context(r, ask))
           /\ status # None => /\ q.st = "done" /\ q.status = status /\ q.thread = None
                               /\ q.session_id = Reported(status, ask, Context(r, ask))
<1> DEFINE status == Refusal(deployment.auth, ask)
           q == IF status = None
                THEN [Idle EXCEPT !.st = "accepted", !.ask = ask, !.of = of,
                                  !.stream = stream, !.thread = ThreadId(Context(r, ask))]
                ELSE [Idle EXCEPT !.st = "done", !.ask = ask, !.of = of, !.status = status,
                                  !.session_id = Reported(status, ask, Context(r, ask))]
<1>1. request' = [request EXCEPT ![r] = q]
  BY DEF Arrive
<1>2. /\ request' = [s \in Requests |-> request'[s]] /\ request'[r] = q
      /\ \A s \in Requests : s # r => request'[s] = request[s]
  BY <1>1 DEF ShapeInv
<1> HIDE DEF status
<1>3. status = None =>
        /\ Whole(q) /\ q.ask = ask /\ q.of = of /\ q.stream = stream /\ q.left = FALSE
        /\ q.since = None /\ q.llm = None /\ q.st = "accepted" /\ q.status = None
        /\ q.thread = ThreadId(Context(r, ask))
  BY DEF Idle, Whole
<1>4. status # None =>
        /\ Whole(q) /\ q.ask = ask /\ q.of = of /\ q.stream = FALSE /\ q.left = FALSE
        /\ q.since = None /\ q.llm = None /\ q.st = "done" /\ q.status = status
        /\ q.thread = None /\ q.session_id = Reported(status, ask, Context(r, ask))
  BY DEF Idle, Whole
<1> QED
  BY <1>2, <1>3, <1>4 DEF status

LEMMA ArrivedAs ==
    ASSUME ShapeInv, NEW r \in Requests, NEW ask, NEW of, NEW stream,
           Arrive(r, ask, of, stream)
    PROVE  /\ request'[r].ask = ask /\ request'[r].of = of
           /\ \A s \in Requests : s # r => request'[s] = request[s]
  BY Arrived, ZenonT(30)

\* One record of the function is replaced.
LEMMA Changed ==
    ASSUME ShapeInv, NEW r \in Requests, NEW q, request' = [request EXCEPT ![r] = q],
           Whole(q), q.ask = request[r].ask, q.of = request[r].of,
           q.stream = request[r].stream, q.thread = request[r].thread
    PROVE  StepOf(r) /\ request'[r] = q
  BY DEF StepOf, ShapeInv

LEMMA Responded ==
    ASSUME ShapeInv, NEW r \in Requests, NEW st, NEW status, Respond(r, st, status)
    PROVE  /\ StepOf(r) /\ Told(r, status)
           /\ request'[r].st = st /\ request'[r].since = request[r].since
           /\ request'[r].llm = request[r].llm /\ request'[r].left = request[r].left
<1>0. Whole(request[r])
  BY DEF ShapeInv
<1> DEFINE id == Reported(status, request[r].ask, Context(r, request[r].ask))
<1>1. PICK q : q = [request[r] EXCEPT !.st = st, !.status = status, !.session_id = id]
  OBVIOUS
<1>2. request' = [request EXCEPT ![r] = q]
  BY <1>1 DEF Respond
<1> HIDE DEF id
<1>3. /\ Whole(q) /\ q.st = st /\ q.ask = request[r].ask
      /\ q.of = request[r].of /\ q.stream = request[r].stream
      /\ q.left = request[r].left /\ q.thread = request[r].thread
      /\ q.since = request[r].since /\ q.llm = request[r].llm
      /\ q.status = status /\ q.session_id = id
  BY <1>0, <1>1 DEF Whole
<1>5. StepOf(r) /\ request'[r] = q
  BY <1>2, <1>3, Changed
<1> QED
  BY <1>3, <1>5 DEF Told, id

\* The steps of a run: it gets its graph, calls the LLM, opens its stream, loses
\* its client, and ends.
LEMMA Served ==
    ASSUME ShapeInv, NEW r \in Requests
    PROVE  /\ GetGraph(r) =>
                /\ StepOf(r) /\ Silent(r)
                /\ request'[r].st = "ready" /\ request'[r].since = conf'[Model(r)]
                /\ request'[r].llm = request[r].llm /\ request'[r].left = request[r].left
           /\ CallLlm(r) =>
                /\ StepOf(r) /\ Silent(r)
                /\ request'[r].st = "running" /\ request'[r].since = request[r].since
                /\ request'[r].llm = Llm(Model(r)) /\ request'[r].left = request[r].left
           /\ Open(r) =>
                /\ StepOf(r) /\ Told(r, 200)
                /\ request'[r].st = "running" /\ request'[r].since = request[r].since
                /\ request'[r].llm = request[r].llm /\ request'[r].left = request[r].left
           /\ Leave(r) =>
                /\ StepOf(r) /\ Silent(r)
                /\ request'[r].st = "running" /\ request'[r].since = request[r].since
                /\ request'[r].llm = request[r].llm /\ request'[r].left = TRUE
<1>2. Whole(request[r])
  BY DEF ShapeInv
<1>3. ASSUME GetGraph(r)
      PROVE  /\ StepOf(r) /\ Silent(r)
             /\ request'[r].st = "ready" /\ request'[r].since = conf'[Model(r)]
             /\ request'[r].llm = request[r].llm /\ request'[r].left = request[r].left
  <2>1. PICK q : q = [request[r] EXCEPT !.st = "ready", !.since = conf'[Model(r)]]
    OBVIOUS
  <2>2. request' = [request EXCEPT ![r] = q]
    BY <1>3, <2>1 DEF GetGraph
  <2>3. /\ Whole(q) /\ q.st = "ready" /\ q.ask = request[r].ask
        /\ q.of = request[r].of /\ q.stream = request[r].stream
        /\ q.left = request[r].left /\ q.thread = request[r].thread
        /\ q.since = conf'[Model(r)] /\ q.llm = request[r].llm
        /\ q.status = request[r].status
        /\ q.session_id = request[r].session_id
    BY <1>2, <2>1 DEF Whole
  <2> QED
    BY <2>2, <2>3, Changed DEF Silent
<1>4. ASSUME CallLlm(r)
      PROVE  /\ StepOf(r) /\ Silent(r)
             /\ request'[r].st = "running" /\ request'[r].since = request[r].since
             /\ request'[r].llm = Llm(Model(r)) /\ request'[r].left = request[r].left
  <2>1. PICK q : q = [request[r] EXCEPT !.st = "running", !.llm = Llm(Model(r))]
    OBVIOUS
  <2>2. request' = [request EXCEPT ![r] = q]
    BY <1>4, <2>1 DEF CallLlm
  <2>3. /\ Whole(q) /\ q.st = "running" /\ q.ask = request[r].ask
        /\ q.of = request[r].of /\ q.stream = request[r].stream
        /\ q.left = request[r].left /\ q.thread = request[r].thread
        /\ q.since = request[r].since /\ q.llm = Llm(Model(r))
        /\ q.status = request[r].status
        /\ q.session_id = request[r].session_id
    BY <1>2, <2>1 DEF Whole
  <2> QED
    BY <2>2, <2>3, Changed DEF Silent
<1>6. ASSUME Leave(r)
      PROVE  /\ StepOf(r) /\ Silent(r)
             /\ request'[r].st = "running" /\ request'[r].since = request[r].since
             /\ request'[r].llm = request[r].llm /\ request'[r].left = TRUE
  <2>1. PICK q : q = [request[r] EXCEPT !.left = TRUE]
    OBVIOUS
  <2>2. request' = [request EXCEPT ![r] = q] /\ request[r].st = "running"
    BY <1>6, <2>1 DEF Leave
  <2>3. /\ Whole(q) /\ q.st = request[r].st /\ q.ask = request[r].ask
        /\ q.of = request[r].of /\ q.stream = request[r].stream
        /\ q.left = TRUE /\ q.thread = request[r].thread
        /\ q.since = request[r].since /\ q.llm = request[r].llm
        /\ q.status = request[r].status
        /\ q.session_id = request[r].session_id
    BY <1>2, <2>1 DEF Whole
  <2> QED
    BY <2>2, <2>3, Changed DEF Silent
<1>7. Open(r) => Respond(r, "running", 200)
  BY DEF Open
<1> QED
  BY <1>3, <1>4, <1>6, <1>7, Responded

LEMMA Ended ==
    ASSUME ShapeInv, NEW r \in Requests, NEW status, End(r, status)
    PROVE  /\ StepOf(r) /\ request'[r].st = "done"
           /\ request[r].left \/ request[r].status = 200 => Silent(r)
           /\ ~(request[r].left \/ request[r].status = 200) => Told(r, status)
           /\ request'[r].since = request[r].since
           /\ request'[r].llm = request[r].llm /\ request'[r].left = request[r].left
<1>0. Whole(request[r])
  BY DEF ShapeInv
<1>1. ASSUME request' = [request EXCEPT ![r].st = "done"]
      PROVE  /\ StepOf(r) /\ Silent(r)
             /\ request'[r].st = "done" /\ request'[r].since = request[r].since
             /\ request'[r].llm = request[r].llm /\ request'[r].left = request[r].left
  <2>1. PICK q : q = [request[r] EXCEPT !.st = "done"]
    OBVIOUS
  <2>2. request' = [request EXCEPT ![r] = q]
    BY <1>1, <2>1
  <2>3. /\ Whole(q) /\ q.st = "done" /\ q.ask = request[r].ask
        /\ q.of = request[r].of /\ q.stream = request[r].stream
        /\ q.left = request[r].left /\ q.thread = request[r].thread
        /\ q.since = request[r].since /\ q.llm = request[r].llm
        /\ q.status = request[r].status
        /\ q.session_id = request[r].session_id
    BY <1>0, <2>1 DEF Whole
  <2> QED
    BY <2>2, <2>3, Changed DEF Silent
<1>2. CASE request[r].left \/ request[r].status = 200
  <2>1. request' = [request EXCEPT ![r].st = "done"]
    BY <1>2 DEF End
  <2> QED
    BY <1>1, <1>2, <2>1
<1>3. CASE ~(request[r].left \/ request[r].status = 200)
  <2>1. Respond(r, "done", status)
    BY <1>3 DEF End
  <2> QED
    BY <1>3, <2>1, Responded
<1> QED
  BY <1>2, <1>3

LEMMA GivenUp ==
    ASSUME ShapeInv, GiveUpDraining
    PROVE  /\ request' = [s \in Requests |-> request'[s]]
           /\ \A r \in Requests :
                 /\ Whole(request'[r]) /\ Silent(r)
                 /\ request'[r].ask = request[r].ask /\ request'[r].of = request[r].of
                 /\ request'[r].stream = request[r].stream
                 /\ request'[r].thread = request[r].thread
                 /\ request'[r].since = request[r].since /\ request'[r].llm = request[r].llm
                 /\ r \notin Owed => request'[r] = request[r]
                 /\ r \in Owed => /\ request'[r].left = TRUE
                                  /\ request'[r].st = IF request[r].stream
                                                      THEN request[r].st ELSE "done"
<1>1. request' = [r \in Requests |->
         IF r \notin Owed THEN request[r]
         ELSE IF request[r].stream THEN [request[r] EXCEPT !.left = TRUE]
         ELSE [request[r] EXCEPT !.st = "done", !.left = TRUE]]
  BY DEF GiveUpDraining
<1>2. request' = [s \in Requests |-> request'[s]]
  BY <1>1
<1>3. ASSUME NEW r \in Requests
      PROVE  /\ Whole(request'[r]) /\ Silent(r)
             /\ request'[r].ask = request[r].ask /\ request'[r].of = request[r].of
             /\ request'[r].stream = request[r].stream
             /\ request'[r].thread = request[r].thread
             /\ request'[r].since = request[r].since /\ request'[r].llm = request[r].llm
             /\ r \notin Owed => request'[r] = request[r]
             /\ r \in Owed => /\ request'[r].left = TRUE
                              /\ request'[r].st = IF request[r].stream
                                                  THEN request[r].st ELSE "done"
  <2>1. Whole(request[r])
    BY DEF ShapeInv
  <2>2. CASE r \notin Owed
    BY <1>1, <2>1, <2>2 DEF Silent
  <2>3. CASE r \in Owed /\ request[r].stream
    <3>1. request'[r] = [request[r] EXCEPT !.left = TRUE]
      BY <1>1, <2>3
    <3> QED
      BY <2>1, <2>3, <3>1 DEF Silent, Whole
  <2>4. CASE r \in Owed /\ ~request[r].stream
    <3>1. request'[r] = [request[r] EXCEPT !.st = "done", !.left = TRUE]
      BY <1>1, <2>4
    <3> QED
      BY <2>1, <2>4, <3>1 DEF Silent, Whole
  <2> QED
    BY <2>2, <2>3, <2>4
<1> QED
  BY <1>2, <1>3

LEMMA DeploymentFixed == [Next]_vars => deployment' = deployment
<1> SUFFICES ASSUME [Next]_vars PROVE deployment' = deployment
  OBVIOUS
<1>1. CASE \/ \E w \in Workflows : Load(w) \/ Refresh(w)
           \/ \E w \in Pushed : Push(w)
  BY <1>1 DEF Load, Refresh, Push
<1>2. CASE LoadFails \/ Start \/ OpenStore \/ SetUp \/ StartFails
  BY <1>2 DEF LoadFails, Start, OpenStore, SetUp, StartFails
<1>3. ASSUME NEW r \in Requests, Ask(r) \/ (\E s \in Requests : Repeat(r, s))
      PROVE  deployment' = deployment
  BY <1>3 DEF Ask, Repeat, Arrive, process
<1>4. ASSUME NEW r \in Requests, Serve(r) \/ Leave(r)
      PROVE  deployment' = deployment
  BY <1>4 DEF Serve, GetGraph, CallLlm, Open, Answer, Fail, Break, End, Leave, process
<1>5. CASE Shutdown \/ GiveUpDraining \/ StopRuntime \/ CloseConfigs \/ CloseHttp
  BY <1>5 DEF Shutdown, GiveUpDraining, StopRuntime, CloseConfigs, CloseHttp, process
<1> QED
  BY <1>1, <1>2, <1>3, <1>4, <1>5 DEF Next, vars

(***************************************************************************)
(* Requests.                                                               *)
(***************************************************************************)

Active(r) == request[r].st \in {"accepted", "ready", "running"}

Refused(r) == Refusal(deployment.auth, request[r].ask)

\* A request is refused at once or has its thread, and what it was told is the
\* session id of that thread.
ReqOK(r) ==
    /\ request[r].st \in {"idle", "accepted", "ready", "running", "done"}
    /\ request[r].st = "idle" =>
         /\ request[r].ask = None /\ request[r].thread = None /\ request[r].of = None
         /\ request[r].since = None /\ request[r].llm = None
         /\ request[r].status = None /\ request[r].left = FALSE
    /\ request[r].left \in BOOLEAN
    /\ request[r].st = "accepted" => request[r].left = FALSE
    /\ request[r].st # "idle" /\ Refused(r) = None =>
         /\ request[r].thread = ThreadId(Context(r, request[r].ask))
         /\ request[r].status # None =>
              request[r].session_id = Context(r, request[r].ask).session_id
         /\ request[r].st = "done" /\ ~request[r].left => request[r].status # None
    /\ request[r].st # "idle" /\ Refused(r) # None =>
         /\ request[r].st = "done" /\ request[r].thread = None
         /\ request[r].status = Refused(r)
         /\ request[r].session_id = request[r].ask.session_id

ReqInv == \A r \in Requests : ReqOK(r)

LEMMA ReqInit == Init => ShapeInv /\ ReqInv
<1> SUFFICES ASSUME Init PROVE ShapeInv /\ ReqInv
  OBVIOUS
<1>1. request = [r \in Requests |-> Idle]
  BY DEF Init
<1>2. ASSUME NEW r \in Requests PROVE ReqOK(r)
  BY <1>1 DEF ReqOK, Idle
<1> QED
  BY <1>1, <1>2, IdleWhole DEF ShapeInv, ReqInv

\* The status of a run that was accepted is not that of a refusal.
LEMMA StatusOfRun ==
    ASSUME ReqInv, NEW r \in Requests, Active(r),
           NEW status \in {200, 500, 502, 504}, Told(r, status)
    PROVE  /\ request'[r].status # None
           /\ request'[r].session_id = Context(r, request[r].ask).session_id
  BY NoneAssumption DEF Told, Reported

LEMMA ReqStep ==
    ASSUME ShapeInv, ReqInv, deployment' = deployment, NEW r \in Requests, StepOf(r),
           ReqOK(r)'
    PROVE  ShapeInv' /\ ReqInv'
<1>1. ShapeInv'
  BY DEF ShapeInv, StepOf
<1>2. \A s \in Requests : s # r => request'[s] = request[s] /\ Refused(s)' = Refused(s)
  BY DEF StepOf, Refused
<1>3. \A s \in Requests : s # r => ReqOK(s)'
  BY <1>2 DEF ReqInv, ReqOK
<1> QED
  BY <1>1, <1>3 DEF ReqInv

LEMMA SilentStep ==
    ASSUME ShapeInv, ReqInv, deployment' = deployment, NEW r \in Requests, StepOf(r),
           Active(r), Silent(r), request'[r].st \in {"ready", "running", "done"},
           request'[r].left \in BOOLEAN,
           request'[r].st = "done" => request'[r].left = TRUE \/ request[r].status = 200
    PROVE  ShapeInv' /\ ReqInv'
<1>1. ReqOK(r) /\ Refused(r) = None /\ Refused(r)' = None
  BY DEF StepOf, Refused, ReqInv, ReqOK, Active
<1>2. ReqOK(r)'
  BY <1>1, NoneAssumption DEF ReqOK, StepOf, Silent, Active
<1> QED
  BY <1>2, ReqStep

LEMMA ToldStep ==
    ASSUME ShapeInv, ReqInv, deployment' = deployment, NEW r \in Requests, StepOf(r),
           Active(r), NEW status \in {200, 500, 502, 504}, Told(r, status),
           request'[r].st \in {"ready", "running", "done"},
           request'[r].left \in BOOLEAN
    PROVE  ShapeInv' /\ ReqInv'
<1>1. ReqOK(r) /\ Refused(r) = None /\ Refused(r)' = None
  BY DEF StepOf, Refused, ReqInv, ReqOK, Active
<1>2. /\ request'[r].status # None
      /\ request'[r].session_id = Context(r, request[r].ask).session_id
  BY StatusOfRun
<1>3. ReqOK(r)'
  BY <1>1, <1>2 DEF ReqOK, StepOf, Active
<1> QED
  BY <1>3, ReqStep

LEMMA ReqNext == ShapeInv /\ ReqInv /\ [Next]_vars => ShapeInv' /\ ReqInv'
<1> SUFFICES ASSUME ShapeInv, ReqInv, [Next]_vars PROVE ShapeInv' /\ ReqInv'
  OBVIOUS
<1>0. deployment' = deployment
  BY DeploymentFixed
<1>1. CASE request' = request
  BY <1>0, <1>1 DEF ShapeInv, ReqInv, ReqOK, Refused
<1>2. ASSUME NEW r \in Requests, NEW ask, NEW of, NEW stream, Arrive(r, ask, of, stream)
      PROVE  ShapeInv' /\ ReqInv'
  <2>1. ShapeInv'
    BY <1>2, Arrived DEF ShapeInv
  <2>2. \A s \in Requests : s # r => request'[s] = request[s] /\ Refused(s)' = Refused(s)
    BY <1>0, <1>2, ArrivedAs DEF Refused
  <2>3. \A s \in Requests : s # r => ReqOK(s)'
    BY <2>2 DEF ReqInv, ReqOK
  <2>4. Refused(r)' = Refusal(deployment.auth, ask) /\ request'[r].ask = ask
    BY <1>0, <1>2, Arrived DEF Refused
  <2>5. ASSUME Refused(r)' = None PROVE ReqOK(r)'
    BY <1>2, <2>4, <2>5, Arrived DEF ReqOK
  <2>6. ASSUME Refused(r)' # None PROVE ReqOK(r)'
    <3>1. Refusal(deployment.auth, ask) \in {400, 401, 422}
      BY <2>4, <2>6 DEF Refusal
    <3>2. request'[r].session_id = Reported(Refusal(deployment.auth, ask), ask, Context(r, ask))
      BY <1>2, <2>4, <2>6, Arrived
    <3>4. request'[r].session_id = ask.session_id
      BY <3>1, <3>2 DEF Reported
    <3> QED
      BY <1>2, <2>4, <2>6, <3>4, Arrived DEF ReqOK
  <2> QED
    BY <2>1, <2>3, <2>5, <2>6 DEF ReqInv
<1>3. ASSUME NEW r \in Requests, Serve(r) \/ Leave(r)
      PROVE  ShapeInv' /\ ReqInv'
  <2>1. CASE GetGraph(r) \/ CallLlm(r) \/ Leave(r)
    <3>1. Active(r)
      BY <2>1 DEF GetGraph, CallLlm, Leave, Active
    <3>2. /\ StepOf(r) /\ Silent(r) /\ request'[r].st \in {"ready", "running"}
          /\ request'[r].left \in {request[r].left, TRUE}
      BY <2>1, Served
    <3>3. request[r].left \in BOOLEAN
      BY DEF ReqInv, ReqOK
    <3>4. /\ request'[r].st \in {"ready", "running", "done"} /\ request'[r].st # "done"
          /\ request'[r].left \in BOOLEAN
      BY <3>2, <3>3
    <3> QED
      BY <1>0, <3>1, <3>2, <3>4, SilentStep
  <2>2. CASE Open(r)
    <3>1. Active(r)
      BY <2>2 DEF Open, Active
    <3>2. /\ StepOf(r) /\ Told(r, 200) /\ request'[r].st = "running"
          /\ request'[r].left = request[r].left
      BY <2>2, Served
    <3>3. request[r].left \in BOOLEAN
      BY DEF ReqInv, ReqOK
    <3>4. request'[r].st \in {"ready", "running", "done"} /\ request'[r].left \in BOOLEAN
      BY <3>2, <3>3
    <3> QED
      BY <1>0, <3>1, <3>2, <3>4, ToldStep
  <2>4. ASSUME NEW status \in {200, 500, 502, 504}, End(r, status), Active(r)
        PROVE  ShapeInv' /\ ReqInv'
    <3>1. /\ StepOf(r) /\ request'[r].st = "done" /\ request'[r].left = request[r].left
          /\ request[r].left \/ request[r].status = 200 => Silent(r)
          /\ ~(request[r].left \/ request[r].status = 200) => Told(r, status)
      BY <2>4, Ended
    <3>2. request[r].left \in BOOLEAN
      BY DEF ReqInv, ReqOK
    <3>3. CASE request[r].left \/ request[r].status = 200
      <4>1. /\ request'[r].left \in BOOLEAN
            /\ request'[r].left = TRUE \/ request[r].status = 200
        BY <3>1, <3>2, <3>3
      <4>2. Silent(r)
        BY <3>1, <3>3
      <4>3. request'[r].st \in {"ready", "running", "done"}
        BY <3>1
      <4> QED
        BY <1>0, <2>4, <3>1, <4>1, <4>2, <4>3, SilentStep, ZenonT(30)
    <3>4. CASE ~(request[r].left \/ request[r].status = 200)
      BY <1>0, <2>4, <3>1, <3>2, <3>4, ToldStep
    <3> QED
      BY <3>3, <3>4
  <2>5. FailureStatus("timeout") \in {200, 500, 502, 504}
        /\ FailureStatus("upstream") \in {200, 500, 502, 504}
        /\ FailureStatus("error") \in {200, 500, 502, 504}
    BY DEF FailureStatus
  <2>6. CASE Answer(r)
    BY <2>4, <2>6 DEF Answer, Active
  <2>7. CASE Fail(r) \/ Break(r)
    BY <2>4, <2>5, <2>7 DEF Fail, Break, Active
  <2> QED
    BY <1>3, <2>1, <2>2, <2>6, <2>7 DEF Serve
<1>4. CASE GiveUpDraining
  <2>1. ShapeInv'
    BY <1>4, GivenUp DEF ShapeInv
  <2>2. ASSUME NEW r \in Requests
        PROVE  ReqOK(r)'
    <3>1. Refused(r)' = Refused(r) /\ ReqOK(r)
      BY <1>0, <1>4, GivenUp DEF Refused, ReqInv
    <3>2. CASE r \notin Owed
      BY <1>4, <3>1, <3>2, GivenUp DEF ReqOK
    <3>3. CASE r \in Owed
      <4>1. request[r].st \in {"ready", "running"}
        BY <1>4, <3>3 DEF Owed, GiveUpDraining
      <4> QED
        BY <1>4, <3>1, <3>3, <4>1, GivenUp DEF ReqOK, Silent
    <3> QED
      BY <3>2, <3>3
  <2> QED
    BY <2>1, <2>2 DEF ReqInv
<1> QED
  BY <1>1, <1>2, <1>3, <1>4 DEF Next, vars, Load, Refresh, Push, LoadFails, Start,
     OpenStore, SetUp, StartFails, Ask, Repeat, Shutdown, StopRuntime, CloseConfigs,
     CloseHttp

LEMMA ReqCorrect == Spec => [](ShapeInv /\ ReqInv)
  BY ReqInit, ReqNext, PTL DEF Spec

(***************************************************************************)
(* Retries.                                                                *)
(***************************************************************************)

\* An ask is the record of its fields, and its headers are texts.
IsAsk(ask) ==
    /\ ask = [valid |-> ask.valid, model |-> ask.model, sys_code |-> ask.sys_code,
              user_id |-> ask.user_id, session_id |-> ask.session_id]
    /\ {ask.sys_code, ask.user_id, ask.session_id} \subseteq Text \union {None}

\* A request that repeats another has its thread.
RetryInv ==
    \A r \in Requests :
        /\ request[r].st # "idle" => IsAsk(request[r].ask)
        /\ request[r].of # None =>
             /\ request[r].of \in Requests /\ request[request[r].of].st = "done"
             /\ request[request[r].of].thread # None =>
                  request[r].thread = request[request[r].of].thread

\* A request keeps what it asks and its thread, and does not begin again.
LEMMA Kept ==
    ASSUME ShapeInv, [Next]_vars, NEW r \in Requests
    PROVE  /\ request[r].st # "idle" =>
                /\ request'[r].ask = request[r].ask /\ request'[r].of = request[r].of
                /\ request'[r].thread = request[r].thread /\ request'[r].st # "idle"
                /\ request'[r].since # request[r].since => request[r].st = "accepted"
           /\ request[r].st = "done" => request'[r] = request[r]
           /\ request[r].st = "idle" =>
                \/ request'[r] = request[r]
                \/ \E ask \in Asks, stream \in BOOLEAN : Arrive(r, ask, None, stream)
                \/ \E s \in Requests : Repeat(r, s)
<1>1. CASE request' = request
  BY <1>1
<1>2. ASSUME NEW s \in Requests, NEW ask, NEW of, NEW stream, Arrive(s, ask, of, stream)
      PROVE  request[s].st = "idle" /\ (s # r => request'[r] = request[r])
  <2>1. request[s].st = "idle"
    BY <1>2 DEF Arrive
  <2> QED
    BY <1>2, <2>1, ArrivedAs
<1>3. CASE \E s \in Requests : Ask(s) \/ (\E q \in Requests : Repeat(s, q))
  <2>1. PICK s \in Requests : Ask(s) \/ (\E q \in Requests : Repeat(s, q))
    BY <1>3
  <2>2. request[s].st = "idle" /\ (s # r => request'[r] = request[r])
    BY <1>2, <2>1 DEF Ask, Repeat
  <2> QED
    BY <2>1, <2>2 DEF Ask
<1>4. ASSUME NEW s \in Requests, Serve(s) \/ Leave(s)
      PROVE  /\ StepOf(s) /\ Active(s) /\ request'[s].st # "idle"
             /\ request'[s].since # request[s].since => request[s].st = "accepted"
  <2>1. CASE GetGraph(s)
    <3>1. request[s].st = "accepted"
      BY <2>1 DEF GetGraph
    <3> QED
      BY <2>1, <3>1, Served DEF Active
  <2>2. CASE CallLlm(s) \/ Open(s) \/ Leave(s)
    <3>1. Active(s)
      BY <2>2 DEF CallLlm, Open, Leave, Active
    <3> QED
      BY <2>2, <3>1, Served
  <2>3. CASE Answer(s) \/ Fail(s) \/ Break(s)
    <3>1. Active(s) /\ \E status : End(s, status)
      BY <2>3 DEF Answer, Fail, Break, Active
    <3> QED
      BY <3>1, Ended
  <2> QED
    BY <1>4, <2>1, <2>2, <2>3 DEF Serve
<1>5. CASE \E s \in Requests : Serve(s) \/ Leave(s)
  BY <1>4, <1>5 DEF StepOf, Active
<1>6. CASE GiveUpDraining
  BY <1>6, GivenUp DEF Owed
<1> QED
  BY <1>1, <1>3, <1>5, <1>6 DEF Next, vars, Load, Refresh, Push, LoadFails, Start,
     OpenStore, SetUp, StartFails, Shutdown, StopRuntime, CloseConfigs, CloseHttp

LEMMA RetryInit == Init => RetryInv
<1> SUFFICES ASSUME Init, NEW r \in Requests PROVE request[r].st = "idle" /\ request[r].of = None
  BY DEF RetryInv
<1> QED
  BY DEF Init, Idle

\* The repeated request asks for the thread of the first.
LEMMA RepeatsThread ==
    ASSUME ShapeInv, ReqInv, RetryInv, NEW r \in Requests, NEW s \in Requests, Repeat(r, s)
    PROVE  /\ request'[r].of = s /\ IsAsk(request'[r].ask)
           /\ request[s].st = "done" /\ request[s].thread # None =>
                request'[r].thread = request[s].thread
<1> DEFINE a == request[s].ask
           x == request[s].session_id
           b == [a EXCEPT !.session_id = x]
<1>1. /\ request[s].st = "done" /\ ~request[s].left
      /\ Arrive(r, b, s, request[s].stream)
  BY DEF Repeat
<1>2. IsAsk(a)
  BY <1>1 DEF RetryInv
<1>3. x \in Text \union {None}
  <2>1. CASE Refused(s) = None
    <3>1. x = OrElse(a.session_id, Uuid[s])
      BY <1>1, <2>1 DEF ReqInv, ReqOK, Context
    <3> HIDE DEF a, x
    <3> QED
      BY <1>2, <3>1, UuidAssumption DEF IsAsk, OrElse
  <2>2. CASE Refused(s) # None
    <3>1. x = a.session_id
      BY <1>1, <2>2 DEF ReqInv, ReqOK
    <3> HIDE DEF a, x
    <3> QED
      BY <1>2, <3>1 DEF IsAsk
  <2> QED
    BY <2>1, <2>2
<1>5. /\ b.valid = a.valid /\ b.model = a.model /\ b.sys_code = a.sys_code
      /\ b.user_id = a.user_id /\ b.session_id = x /\ IsAsk(b)
  <2> HIDE DEF a, x
  <2> QED
    BY <1>2, <1>3 DEF IsAsk
<1>4. ASSUME request[s].thread # None
      PROVE  request'[r].thread = request[s].thread
  <2>1. /\ Refused(s) = None /\ request[s].thread = ThreadId(Context(s, a))
        /\ x = OrElse(a.session_id, Uuid[s])
    BY <1>1, <1>4 DEF ReqInv, ReqOK, Context
  <2>2. x # None
    BY <2>1, UuidAssumption, NoneAssumption DEF OrElse
  <2> HIDE DEF a, x, b
  <2>3. Refusal(deployment.auth, b) = Refusal(deployment.auth, a)
    BY <1>5 DEF Refusal, Unauthorized
  <2>4. Refusal(deployment.auth, b) = None
    BY <2>1, <2>3 DEF Refused, a
  <2>5. request'[r].thread = ThreadId(Context(r, b))
    BY <1>1, <2>4, Arrived
  <2> QED
    BY <1>5, <2>1, <2>2, <2>5 DEF Context, OrElse
<1> HIDE DEF a, x, b
<1>6. request'[r].of = s /\ request'[r].ask = b
  BY <1>1, ArrivedAs
<1> QED
  BY <1>1, <1>4, <1>5, <1>6

LEMMA RetryNext == ShapeInv /\ ReqInv /\ RetryInv /\ [Next]_vars => RetryInv'
<1> SUFFICES ASSUME ShapeInv, ReqInv, RetryInv, [Next]_vars, NEW r \in Requests
             PROVE  /\ request'[r].st # "idle" => IsAsk(request'[r].ask)
                    /\ request'[r].of # None =>
                         /\ request'[r].of \in Requests /\ request'[request'[r].of].st = "done"
                         /\ request'[request'[r].of].thread # None =>
                              request'[r].thread = request'[request'[r].of].thread
  BY DEF RetryInv
<1>1. CASE request[r].st # "idle"
  BY <1>1, Kept DEF RetryInv
<1>2. CASE request'[r] = request[r]
  BY <1>2, Kept DEF RetryInv
<1>3. ASSUME NEW ask \in Asks, NEW stream, Arrive(r, ask, None, stream)
      PROVE  IsAsk(request'[r].ask) /\ request'[r].of = None
  BY <1>3, ArrivedAs, AsksAssumption DEF IsAsk
<1>4. ASSUME NEW s \in Requests, Repeat(r, s), request[r].st = "idle"
      PROVE  /\ IsAsk(request'[r].ask) /\ request'[r].of = s /\ request'[s] = request[s]
             /\ request[s].st = "done"
             /\ request[s].thread # None => request'[r].thread = request[s].thread
  <2>1. request[s].st = "done"
    BY <1>4 DEF Repeat
  <2> QED
    BY <1>4, <2>1, RepeatsThread, Kept
<1> QED
  BY <1>1, <1>2, <1>3, <1>4, Kept

\* A request that is sent again under the session id its answer named goes on on
\* the thread of the first one, whatever that answer was.
THEOREM RetryKeepsThreadCorrect == Spec => []RetryKeepsThread
<1>1. RetryInv => RetryKeepsThread
  BY DEF RetryInv, RetryKeepsThread
<1>2. Spec => []RetryInv
  BY ReqCorrect, RetryInit, RetryNext, PTL DEF Spec
<1> QED
  BY <1>1, <1>2, PTL

(***************************************************************************)
(* Threads.                                                                *)
(***************************************************************************)

\* Two texts whose heads are of one length are equal in their heads and tails.
SameHeads(g, h, t, u) == Len(g) = Len(h) /\ g \o t = h \o u => g = h /\ t = u

LEMMA SameLengthHeads ==
    ASSUME NEW M
    PROVE  \A g, h, t, u \in Seq(M) : SameHeads(g, h, t, u)
<1> SUFFICES ASSUME NEW g \in Seq(M), NEW h \in Seq(M), NEW t \in Seq(M), NEW u \in Seq(M),
                    Len(g) = Len(h), g \o t = h \o u
             PROVE  g = h /\ t = u
  BY DEF SameHeads
<1> DEFINE a == g \o t
           b == h \o u
<1>1. /\ a \in Seq(M) /\ Len(a) = Len(g) + Len(t)
      /\ \A i \in 1..(Len(g) + Len(t)) : a[i] = IF i <= Len(g) THEN g[i] ELSE t[i - Len(g)]
  BY ConcatProperties
<1>2. /\ b \in Seq(M) /\ Len(b) = Len(h) + Len(u)
      /\ \A i \in 1..(Len(h) + Len(u)) : b[i] = IF i <= Len(h) THEN h[i] ELSE u[i - Len(h)]
  BY ConcatProperties
<1>3. a = b
  OBVIOUS
<1> HIDE DEF a, b
<1>4. Len(g) \in Nat /\ Len(h) \in Nat /\ Len(t) \in Nat /\ Len(u) \in Nat
  OBVIOUS
<1>5. Len(t) = Len(u)
  BY <1>1, <1>2, <1>3, <1>4
<1>6. \A i \in 1..Len(g) : g[i] = h[i]
  <2> TAKE i \in 1..Len(g)
  <2>1. i \in 1..(Len(g) + Len(t)) /\ i \in 1..(Len(h) + Len(u)) /\ i <= Len(g) /\ i <= Len(h)
    BY <1>4
  <2> QED
    BY <1>1, <1>2, <1>3, <2>1
<1>7. \A i \in 1..Len(t) : t[i] = u[i]
  <2> TAKE i \in 1..Len(t)
  <2>1. /\ Len(g) + i \in 1..(Len(g) + Len(t)) /\ ~(Len(g) + i <= Len(g))
        /\ (Len(g) + i) - Len(g) = i
    BY <1>4
  <2>2. a[Len(g) + i] = t[i]
    BY <1>1, <2>1
  <2>3. b[Len(g) + i] = u[i]
    BY <1>2, <1>5, <2>1
  <2> QED
    BY <1>3, <2>2, <2>3
<1>8. g = h
  BY <1>6, SeqEqual
<1>9. t = u
  BY <1>5, <1>7, SeqEqual
<1> QED
  BY <1>8, <1>9

\* What stands before the first mark of a text, and what after it.
Free(s, one) == \A i \in 1..Len(s) : s[i] # one[1]

SameFields(s, u, one, t, v) ==
    Free(s, one) /\ Free(u, one) /\ s \o (one \o t) = u \o (one \o v) => s = u /\ t = v

LEMMA Separated ==
    ASSUME NEW M, NEW one \in Seq(M), Len(one) = 1
    PROVE  \A s, u, t, v \in Seq(M) : SameFields(s, u, one, t, v)
<1> SUFFICES ASSUME NEW s \in Seq(M), NEW u \in Seq(M), NEW t \in Seq(M), NEW v \in Seq(M),
                    Free(s, one), Free(u, one), s \o (one \o t) = u \o (one \o v)
             PROVE  s = u /\ t = v
  BY DEF SameFields
<1> DEFINE mark == one[1]
           a == one \o t
           b == one \o v
           x == s \o a
           y == u \o b
<1>0. Len(one) = 1
  OBVIOUS
<1>1. /\ Len(one) = 1 /\ one[1] = mark
      /\ \A i \in 1..Len(s) : s[i] # mark
      /\ \A i \in 1..Len(u) : u[i] # mark
  BY DEF Free
<1>2. /\ a \in Seq(M) /\ Len(a) = 1 + Len(t)
      /\ \A i \in 1..(1 + Len(t)) : a[i] = IF i <= 1 THEN one[i] ELSE t[i - 1]
  <2>1. /\ one \o t \in Seq(M) /\ Len(one \o t) = Len(one) + Len(t)
        /\ \A i \in 1..(Len(one) + Len(t)) :
              (one \o t)[i] = IF i <= Len(one) THEN one[i] ELSE t[i - Len(one)]
    BY ConcatProperties
  <2> QED
    BY <1>0, <2>1
<1>3. /\ b \in Seq(M) /\ Len(b) = 1 + Len(v)
      /\ \A i \in 1..(1 + Len(v)) : b[i] = IF i <= 1 THEN one[i] ELSE v[i - 1]
  <2>1. /\ one \o v \in Seq(M) /\ Len(one \o v) = Len(one) + Len(v)
        /\ \A i \in 1..(Len(one) + Len(v)) :
              (one \o v)[i] = IF i <= Len(one) THEN one[i] ELSE v[i - Len(one)]
    BY ConcatProperties
  <2> QED
    BY <1>0, <2>1
<1>4. Len(s) \in Nat /\ Len(t) \in Nat /\ Len(u) \in Nat /\ Len(v) \in Nat
  OBVIOUS
<1>5. Len(a) > 0 /\ a[1] = mark /\ Len(b) > 0 /\ b[1] = mark /\ Len(a) \in Nat /\ Len(b) \in Nat
  BY <1>1, <1>2, <1>3, <1>4
<1>6. x = y
  OBVIOUS
<1> HIDE DEF mark, a, b
<1>7. \A i \in 1..(Len(s) + Len(a)) : x[i] = IF i <= Len(s) THEN s[i] ELSE a[i - Len(s)]
  BY <1>2, ConcatProperties
<1>8. \A i \in 1..(Len(u) + Len(b)) : y[i] = IF i <= Len(u) THEN u[i] ELSE b[i - Len(u)]
  BY <1>3, ConcatProperties
<1> HIDE DEF x, y
<1>9. x[Len(s) + 1] = mark /\ y[Len(u) + 1] = mark
  <2>1. /\ Len(s) + 1 \in 1..(Len(s) + Len(a)) /\ ~(Len(s) + 1 <= Len(s))
        /\ (Len(s) + 1) - Len(s) = 1
    BY <1>4, <1>5
  <2>2. /\ Len(u) + 1 \in 1..(Len(u) + Len(b)) /\ ~(Len(u) + 1 <= Len(u))
        /\ (Len(u) + 1) - Len(u) = 1
    BY <1>4, <1>5
  <2> QED
    BY <1>5, <1>7, <1>8, <2>1, <2>2
<1>10. Len(s) = Len(u)
  <2>1. ASSUME Len(s) < Len(u) PROVE FALSE
    <3>1. /\ Len(s) + 1 \in 1..(Len(u) + Len(b)) /\ Len(s) + 1 <= Len(u)
          /\ Len(s) + 1 \in 1..Len(u)
      BY <1>4, <1>5, <2>1
    <3>2. y[Len(s) + 1] = u[Len(s) + 1]
      BY <1>8, <3>1
    <3> QED
      BY <1>1, <1>6, <1>9, <3>1, <3>2
  <2>2. ASSUME Len(u) < Len(s) PROVE FALSE
    <3>1. /\ Len(u) + 1 \in 1..(Len(s) + Len(a)) /\ Len(u) + 1 <= Len(s)
          /\ Len(u) + 1 \in 1..Len(s)
      BY <1>4, <1>5, <2>2
    <3>2. x[Len(u) + 1] = s[Len(u) + 1]
      BY <1>7, <3>1
    <3> QED
      BY <1>1, <1>6, <1>9, <3>1, <3>2
  <2> QED
    BY <1>4, <2>1, <2>2
<1>11. s = u /\ a = b
  <2>1. SameHeads(s, u, a, b)
    BY <1>2, <1>3, SameLengthHeads
  <2> QED
    BY <1>6, <1>10, <2>1 DEF SameHeads, x, y
<1>12. t = v
  <2>1. SameHeads(one, one, t, v)
    BY SameLengthHeads
  <2> QED
    BY <1>11, <2>1 DEF SameHeads, a, b
<1> QED
  BY <1>11, <1>12

LEMMA Triple ==
    ASSUME NEW M, NEW a \in M, NEW b \in M, NEW c \in M
    PROVE  <<a, b, c>> \in Seq(M) /\ Len(<<a, b, c>>) = 3 /\ <<a, b, c>>[2] = b
  OBVIOUS

LEMMA Single ==
    ASSUME NEW M, NEW a \in M
    PROVE  <<a>> \in Seq(M) /\ Len(<<a>>) = 1 /\ <<a>>[1] = a
  OBVIOUS

\* The pieces of a thread that are not the caller's.
WorkflowField(w) == <<"workflow=", w, "|sys_code=">>
UserMark == <<"|user_id=">>
SessionMark == <<"|session_id=">>

LEMMA MarksAreTexts ==
    /\ \A w \in Pieces : WorkflowField(w) \in Text /\ Len(WorkflowField(w)) = 3 /\ WorkflowField(w)[2] = w
    /\ UserMark \in Text /\ Len(UserMark) = 1 /\ UserMark[1] = "|user_id="
    /\ SessionMark \in Text /\ Len(SessionMark) = 1 /\ SessionMark[1] = "|session_id="
    /\ <<"default-system">> \in Text /\ <<"-">> \in Text
<1>1. /\ "workflow=" \in Pieces /\ "|sys_code=" \in Pieces /\ "|user_id=" \in Pieces
      /\ "|session_id=" \in Pieces /\ "default-system" \in Pieces /\ "-" \in Pieces
  BY PiecesAssumption
<1>2. \A w \in Pieces : WorkflowField(w) \in Text /\ Len(WorkflowField(w)) = 3 /\ WorkflowField(w)[2] = w
  BY <1>1, Triple DEF WorkflowField, Text
<1>3. /\ UserMark \in Text /\ Len(UserMark) = 1 /\ UserMark[1] = "|user_id="
      /\ SessionMark \in Text /\ Len(SessionMark) = 1 /\ SessionMark[1] = "|session_id="
      /\ <<"default-system">> \in Text /\ <<"-">> \in Text
  BY <1>1, Single DEF UserMark, SessionMark, Text
<1> QED
  BY <1>2, <1>3

\* A thread regrouped, so that its fields come off one after the other.
Joined(head, first, one, second, two, third) ==
    head \o first \o one \o second \o two \o third

Nested(f, x, one, y, two, z) ==
    /\ two \o z \in Text /\ y \o (two \o z) \in Text
    /\ x \o (one \o (y \o (two \o z))) \in Text
    /\ Joined(f, x, one, y, two, z) = f \o (x \o (one \o (y \o (two \o z))))

LEMMA Regrouped ==
    \A f, x, one, y, two, z \in Text : Nested(f, x, one, y, two, z)
<1> DEFINE M == Pieces
<1> SUFFICES ASSUME NEW f \in Seq(M), NEW x \in Seq(M), NEW one \in Seq(M),
                    NEW y \in Seq(M), NEW two \in Seq(M), NEW z \in Seq(M)
             PROVE  /\ two \o z \in Seq(M) /\ y \o (two \o z) \in Seq(M)
                    /\ x \o (one \o (y \o (two \o z))) \in Seq(M)
                    /\ Joined(f, x, one, y, two, z) = f \o (x \o (one \o (y \o (two \o z))))
  BY DEF Nested, Text
<1> HIDE DEF M
<1>1. /\ two \o z \in Seq(M) /\ f \o x \in Seq(M)
  BY ConcatProperties
<1>2. y \o (two \o z) \in Seq(M) /\ (f \o x) \o one \in Seq(M)
  BY <1>1, ConcatProperties
<1>3. one \o (y \o (two \o z)) \in Seq(M) /\ ((f \o x) \o one) \o y \in Seq(M)
  BY <1>2, ConcatProperties
<1>4. x \o (one \o (y \o (two \o z))) \in Seq(M)
  BY <1>3, ConcatProperties
<1>5. /\ Associates(((f \o x) \o one) \o y, two, z)
      /\ Associates((f \o x) \o one, y, two \o z)
      /\ Associates(f \o x, one, y \o (two \o z))
      /\ Associates(f, x, one \o (y \o (two \o z)))
  BY <1>1, <1>2, <1>3, ConcatAssociates
<1> QED
  BY <1>1, <1>2, <1>3, <1>4, <1>5 DEF Joined, Associates

\* The fields of a thread, from the thread.
Thread(w, sys, user, session) == Joined(WorkflowField(w), sys, UserMark, user, SessionMark, session)

SameThread(w, sys, user, session, w2, sys2, user2, session2) ==
    /\ Free(sys, UserMark) /\ Free(sys2, UserMark)
    /\ Free(user, SessionMark) /\ Free(user2, SessionMark)
    /\ Thread(w, sys, user, session) = Thread(w2, sys2, user2, session2)
    => w = w2 /\ sys = sys2 /\ user = user2 /\ session = session2

LEMMA ThreadFields ==
    \A w, w2 \in Pieces : \A sys, user, session, sys2, user2, session2 \in Text :
        SameThread(w, sys, user, session, w2, sys2, user2, session2)
<1> TAKE w, w2 \in Pieces
<1> TAKE sys, user, session, sys2, user2, session2 \in Text
<1> SUFFICES ASSUME Free(sys, UserMark), Free(sys2, UserMark),
                    Free(user, SessionMark), Free(user2, SessionMark),
                    Thread(w, sys, user, session) = Thread(w2, sys2, user2, session2)
             PROVE  w = w2 /\ sys = sys2 /\ user = user2 /\ session = session2
  BY DEF SameThread
<1> DEFINE g == WorkflowField(w)
           h == WorkflowField(w2)
           c == SessionMark \o session
           d == SessionMark \o session2
           e == UserMark \o (user \o c)
           k == UserMark \o (user2 \o d)
<1>1. /\ g \in Text /\ Len(g) = 3 /\ g[2] = w /\ h \in Text /\ Len(h) = 3 /\ h[2] = w2
      /\ UserMark \in Text /\ Len(UserMark) = 1 /\ SessionMark \in Text /\ Len(SessionMark) = 1
  BY MarksAreTexts
<1> HIDE DEF g, h
<1>2. /\ c \in Text /\ user \o c \in Text /\ sys \o e \in Text
      /\ d \in Text /\ user2 \o d \in Text /\ sys2 \o k \in Text
      /\ g \o (sys \o e) = h \o (sys2 \o k)
  <2>1. /\ Nested(g, sys, UserMark, user, SessionMark, session)
        /\ Nested(h, sys2, UserMark, user2, SessionMark, session2)
    BY <1>1, Regrouped
  <2>2. Joined(g, sys, UserMark, user, SessionMark, session)
          = Joined(h, sys2, UserMark, user2, SessionMark, session2)
    BY DEF Thread, g, h
  <2> QED
    BY <2>1, <2>2 DEF Nested
<1> HIDE DEF c, d, e, k
<1>3. g = h /\ sys \o e = sys2 \o k
  <2>1. SameHeads(g, h, sys \o e, sys2 \o k)
    BY <1>1, <1>2, SameLengthHeads DEF Text
  <2> QED
    BY <1>1, <1>2, <2>1 DEF SameHeads
<1>4. sys = sys2 /\ user \o c = user2 \o d
  <2>1. SameFields(sys, sys2, UserMark, user \o c, user2 \o d)
    BY <1>1, <1>2, Separated DEF Text
  <2> QED
    BY <1>3, <2>1 DEF SameFields, e, k
<1>5. user = user2 /\ session = session2
  <2>1. SameFields(user, user2, SessionMark, session, session2)
    BY <1>1, Separated DEF Text
  <2> QED
    BY <1>4, <2>1 DEF SameFields, c, d
<1> QED
  BY <1>1, <1>3, <1>4, <1>5

\* The thread of a request, from what it asks.
LEMMA ThreadShape ==
    ASSUME ReqInv, RetryInv, NEW r \in Requests, request[r].st # "idle", Refused(r) = None
    PROVE  LET a == request[r].ask  x == OrElse(a.session_id, Uuid[r]) IN
           /\ a.model \in Pieces /\ SysCode(a) \in Text /\ UserId(a) \in Text /\ x \in Text
           /\ request[r].thread = Thread(a.model, SysCode(a), UserId(a), x)
<1> DEFINE a == request[r].ask
           x == OrElse(a.session_id, Uuid[r])
<1>1. request[r].thread = ThreadId(Context(r, a)) /\ a.model \in Workflows
  BY NoneAssumption DEF ReqInv, ReqOK, Refused, Refusal
<1>2. {a.sys_code, a.user_id, a.session_id} \subseteq Text \union {None}
  BY DEF RetryInv, IsAsk
<1>3. <<"default-system">> \in Text /\ <<"-">> \in Text /\ Uuid[r] \in Text
  BY UuidAssumption, MarksAreTexts
<1> HIDE DEF a
<1>4. SysCode(a) \in Text /\ UserId(a) \in Text /\ x \in Text
  BY <1>2, <1>3 DEF SysCode, UserId, OrElse
<1>5. request[r].thread = Thread(a.model, SysCode(a), UserId(a), x)
  BY <1>1 DEF ThreadId, Context, SysCode, UserId, Thread, Joined, WorkflowField, UserMark, SessionMark
<1> QED
  BY <1>1, <1>4, <1>5, PiecesAssumption DEF a

LEMMA ThreadIsText ==
    ASSUME ReqInv, RetryInv, NEW r \in Requests, request[r].st # "idle", Refused(r) = None
    PROVE  request[r].thread \in Text
<1> DEFINE a == request[r].ask
           x == OrElse(a.session_id, Uuid[r])
<1>1. /\ a.model \in Pieces /\ SysCode(a) \in Text /\ UserId(a) \in Text /\ x \in Text
      /\ request[r].thread = Thread(a.model, SysCode(a), UserId(a), x)
  BY ThreadShape
<1> HIDE DEF a, x
<1>2. ASSUME NEW s \in Text, NEW t \in Text PROVE s \o t \in Text
  BY ConcatProperties DEF Text
<1>3. WorkflowField(a.model) \in Text /\ UserMark \in Text /\ SessionMark \in Text
  BY <1>1, MarksAreTexts
<1>4. WorkflowField(a.model) \o SysCode(a) \o UserMark \o UserId(a) \in Text
  BY <1>1, <1>2, <1>3
<1> QED
  BY <1>1, <1>2, <1>3, <1>4 DEF Thread, Joined

\* The thread of a request is the thread of its caller's session on its workflow,
\* and of no other caller or session whose values can be told apart.
THEOREM OwnThreadCorrect == Spec => []OwnThread
<1>1. ReqInv /\ RetryInv => OwnThread
  <2> SUFFICES ASSUME ReqInv, RetryInv, NEW r \in Requests, NEW s \in Requests,
                      request[r].thread # None, request[s].thread # None
               PROVE  /\ Session(r) = Session(s) => request[r].thread = request[s].thread
                      /\ /\ Separable(request[r].ask) /\ Separable(request[s].ask)
                         /\ request[r].thread = request[s].thread
                         => Session(r) = Session(s)
    BY DEF OwnThread
  <2> DEFINE a == request[r].ask
             b == request[s].ask
             x == OrElse(a.session_id, Uuid[r])
             y == OrElse(b.session_id, Uuid[s])
  <2>1. /\ request[r].st # "idle" /\ Refused(r) = None
        /\ request[s].st # "idle" /\ Refused(s) = None
    BY DEF ReqInv, ReqOK
  <2>2. /\ a.model \in Pieces /\ SysCode(a) \in Text /\ UserId(a) \in Text /\ x \in Text
        /\ request[r].thread = Thread(a.model, SysCode(a), UserId(a), x)
    BY <2>1, ThreadShape
  <2>3. /\ b.model \in Pieces /\ SysCode(b) \in Text /\ UserId(b) \in Text /\ y \in Text
        /\ request[s].thread = Thread(b.model, SysCode(b), UserId(b), y)
    BY <2>1, ThreadShape
  <2>4. \A q \in Requests : LET ask == request[q].ask IN
          /\ Session(q).model = ask.model /\ Session(q).sys_code = SysCode(ask)
          /\ Session(q).user_id = UserId(ask)
          /\ Session(q).session_id = OrElse(ask.session_id, Uuid[q])
    BY DEF Session
  <2>5. /\ Session(r).model = a.model /\ Session(r).sys_code = SysCode(a)
        /\ Session(r).user_id = UserId(a) /\ Session(r).session_id = x
    BY <2>4
  <2>6. /\ Session(s).model = b.model /\ Session(s).sys_code = SysCode(b)
        /\ Session(s).user_id = UserId(b) /\ Session(s).session_id = y
    BY <2>4
  <2>7. /\ Session(r) = [model |-> a.model, sys_code |-> SysCode(a), user_id |-> UserId(a),
                         session_id |-> x]
        /\ Session(s) = [model |-> b.model, sys_code |-> SysCode(b), user_id |-> UserId(b),
                         session_id |-> y]
    BY DEF Session
  <2> HIDE DEF a, b, x, y
  <2>8. Session(r) = Session(s) => request[r].thread = request[s].thread
    <3> SUFFICES ASSUME Session(r) = Session(s)
                 PROVE  request[r].thread = request[s].thread
      OBVIOUS
    <3>1. a.model = b.model /\ SysCode(a) = SysCode(b) /\ UserId(a) = UserId(b) /\ x = y
      BY <2>5, <2>6
    <3> QED
      BY <2>2, <2>3, <3>1
  <2>9. ASSUME Separable(a), Separable(b), request[r].thread = request[s].thread
        PROVE  Session(r) = Session(s)
    <3>1. /\ Free(SysCode(a), UserMark) /\ Free(UserId(a), SessionMark)
          /\ Free(SysCode(b), UserMark) /\ Free(UserId(b), SessionMark)
      BY <2>2, <2>3, <2>9, MarksAreTexts DEF Separable, ToSet, Free, Text
    <3>2. SameThread(a.model, SysCode(a), UserId(a), x, b.model, SysCode(b), UserId(b), y)
      BY <2>2, <2>3, ThreadFields
    <3>3. a.model = b.model /\ SysCode(a) = SysCode(b) /\ UserId(a) = UserId(b) /\ x = y
      BY <2>2, <2>3, <2>9, <3>1, <3>2 DEF SameThread
    <3> QED
      BY <2>7, <3>3
  <2> QED
    BY <2>8, <2>9 DEF a, b
<1>2. Spec => []RetryInv
  BY ReqCorrect, RetryInit, RetryNext, PTL DEF Spec
<1> QED
  BY <1>1, <1>2, ReqCorrect, PTL

(***************************************************************************)
(* The life of the process.                                                *)
(***************************************************************************)

Early == {"loading", "starting", "setup", "failed"}
Late  == {"closing configs", "closing http", "stopped", "broken"}

\* No request comes before the process serves, and nobody waits for an answer when
\* it closes what it opened.
StageInv ==
    /\ phase \in Early \union Late \union {"serving", "draining"}
    /\ phase \in Early => \A r \in Requests : request[r].st = "idle"
    /\ phase \in Late => Owed = {}

\* What is open is one of the three, or a watch of a provider that is kept.
OpenInv ==
    /\ open \subseteq {"root", "http", "saver"} \union registry
    /\ phase \in {"closing configs", "closing http", "stopped"} => "saver" \notin open
    /\ phase \in {"closing http", "stopped"} => open \subseteq {"http"}
    /\ phase = "stopped" => open = {}

\* What a step on the requests does to the rest.
LEMMA OnRequests ==
    ASSUME NEW r \in Requests
    PROVE  /\ Ask(r) \/ (\E s \in Requests : Repeat(r, s)) =>
                phase = "serving" /\ UNCHANGED <<process, open, config, graphs>>
           /\ GetGraph(r) /\ graphs[Model(r)] # "none" =>
                UNCHANGED <<process, open, config, graphs>>
           /\ GetGraph(r) /\ graphs[Model(r)] = "none" =>
                /\ Provide(Model(r)) /\ UNCHANGED process
                /\ graphs' = [graphs EXCEPT ![Model(r)] = IF handle THEN "saving" ELSE "bare"]
           /\ GetGraph(r) => request[r].st = "accepted"
           /\ CallLlm(r) \/ Open(r) \/ Leave(r) \/ Answer(r) \/ Fail(r) \/ Break(r) =>
                UNCHANGED <<process, open, config, graphs>>
           /\ GiveUpDraining => UNCHANGED <<process, open, config, graphs>>
<1>1. Ask(r) \/ (\E s \in Requests : Repeat(r, s)) =>
         phase = "serving" /\ UNCHANGED <<process, open, config, graphs>>
  BY DEF Ask, Repeat, Arrive
<1>2. GetGraph(r) =>
        /\ request[r].st = "accepted" /\ UNCHANGED process
        /\ IF graphs[Model(r)] # "none" THEN UNCHANGED <<open, config, graphs>>
           ELSE /\ Provide(Model(r))
                /\ graphs' = [graphs EXCEPT ![Model(r)] = IF handle THEN "saving" ELSE "bare"]
  BY DEF GetGraph
<1>3. CallLlm(r) \/ Open(r) \/ Leave(r) => UNCHANGED <<process, open, config, graphs>>
  BY DEF CallLlm, Open, Leave
<1>4. Answer(r) \/ Fail(r) \/ Break(r) => UNCHANGED <<process, open, config, graphs>>
  BY DEF Answer, Fail, Break, End
<1>5. GiveUpDraining => UNCHANGED <<process, open, config, graphs>>
  BY DEF GiveUpDraining
<1> QED
  BY <1>1, <1>2, <1>3, <1>4, <1>5

\* Unless the process serves, nobody comes to wait for an answer.
LEMMA OwedShrinks ==
    ASSUME ShapeInv, ReqInv, [Next]_vars, phase # "serving"
    PROVE  /\ Owed' \subseteq Owed
           /\ \A r \in Requests : request[r].st = "idle" => request'[r].st = "idle"
<1> SUFFICES ASSUME NEW r \in Requests
             PROVE  /\ request[r].st = "idle" => request'[r].st = "idle"
                    /\ r \in Owed' => r \in Owed
  BY DEF Owed
<1>1. CASE request[r].st = "idle"
  <2>1. \A ask \in Asks, stream \in BOOLEAN : ~Arrive(r, ask, None, stream)
    BY DEF Arrive
  <2>2. \A s \in Requests : ~Repeat(r, s)
    BY DEF Repeat, Arrive
  <2>3. request'[r] = request[r]
    BY <1>1, <2>1, <2>2, Kept
  <2> QED
    BY <1>1, <2>3 DEF Owed
<1>2. CASE request[r].st = "done"
  BY <1>2, Kept DEF Owed
<1>3. CASE Active(r) /\ request[r].left = FALSE
  BY <1>3 DEF Active, Owed
<1>4. CASE Active(r) /\ request[r].left = TRUE
  <2>1. ASSUME NEW s \in Requests, Serve(s) \/ Leave(s)
        PROVE  request'[r].left = TRUE
    <3>1. CASE GetGraph(s) \/ CallLlm(s) \/ Open(s) \/ Leave(s)
      <4>1. StepOf(s) /\ request'[s].left \in {request[s].left, TRUE}
        BY <3>1, Served
      <4> QED
        BY <1>4, <4>1 DEF StepOf
    <3>2. CASE Answer(s) \/ Fail(s) \/ Break(s)
      <4>1. \E status : End(s, status)
        BY <3>2 DEF Answer, Fail, Break
      <4>2. StepOf(s) /\ request'[s].left = request[s].left
        BY <4>1, Ended
      <4> QED
        BY <1>4, <4>2 DEF StepOf
    <3> QED
      BY <2>1, <3>1, <3>2 DEF Serve
  <2>2. ASSUME GiveUpDraining PROVE request'[r].left = TRUE
    BY <1>4, <2>2, GivenUp DEF Owed
  <2>3. ASSUME NEW s \in Requests, Ask(s) \/ (\E q \in Requests : Repeat(s, q))
        PROVE  FALSE
    BY <2>3, OnRequests
  <2>4. request'[r].left = TRUE \/ request' = request
    BY <2>1, <2>2, <2>3 DEF Next, vars, Load, Refresh, Push, LoadFails, Start,
       OpenStore, SetUp, StartFails, Shutdown, StopRuntime, CloseConfigs, CloseHttp
  <2> QED
    BY <1>4, <2>4 DEF Owed, Active
<1> QED
  BY <1>1, <1>2, <1>3, <1>4 DEF ReqInv, ReqOK, Active

LEMMA StageInit == Init => StageInv /\ OpenInv
<1> SUFFICES ASSUME Init PROVE StageInv /\ OpenInv
  OBVIOUS
<1>1. /\ phase = "loading" /\ open = {"http", "root"}
      /\ \A r \in Requests : request[r].st = "idle"
  BY DEF Init, Idle
<1> QED
  BY <1>1 DEF StageInv, OpenInv, Early, Late

LEMMA StageNext == ShapeInv /\ ReqInv /\ StageInv /\ [Next]_vars => StageInv'
<1> SUFFICES ASSUME ShapeInv, ReqInv, StageInv, [Next]_vars PROVE StageInv'
  OBVIOUS
<1>1. CASE request' = request
  <2>1. Owed' = Owed
    BY <1>1 DEF Owed
  <2>2. CASE phase' = phase
    BY <1>1, <2>1, <2>2 DEF StageInv
  <2>3. CASE LoadFails \/ Start \/ OpenStore \/ SetUp \/ StartFails
    BY <1>1, <2>1, <2>3 DEF LoadFails, Start, OpenStore, SetUp, StartFails, StageInv, Early, Late
  <2>4. CASE Shutdown \/ StopRuntime \/ CloseConfigs \/ CloseHttp
    BY <1>1, <2>1, <2>4 DEF Shutdown, StopRuntime, CloseConfigs, CloseHttp, StageInv, Early, Late
  <2>5. ASSUME NEW r \in Requests,
               Ask(r) \/ (\E s \in Requests : Repeat(r, s)) \/ Serve(r) \/ Leave(r)
                 \/ GiveUpDraining
        PROVE  phase' = phase
    BY <2>5, OnRequests DEF Serve, process
  <2>6. GiveUpDraining => phase' = phase
    BY DEF GiveUpDraining, process
  <2> QED
    BY <2>2, <2>3, <2>4, <2>5, <2>6 DEF Next, vars, Load, Refresh, Push
<1>2. CASE request' # request
  <2>1. phase' = phase
    <3>1. ASSUME NEW r \in Requests,
                 Ask(r) \/ (\E s \in Requests : Repeat(r, s)) \/ Serve(r) \/ Leave(r)
          PROVE  phase' = phase
      BY <3>1, OnRequests DEF Serve, process
    <3>2. GiveUpDraining => phase' = phase
      BY DEF GiveUpDraining, process
    <3> QED
      BY <1>2, <3>1, <3>2 DEF Next, vars, Load, Refresh, Push, LoadFails, Start,
         OpenStore, SetUp, StartFails, Shutdown, StopRuntime, CloseConfigs, CloseHttp
  <2> QED
    BY <2>1, OwedShrinks DEF StageInv, Early, Late
<1> QED
  BY <1>1, <1>2

\* A provider that is made is kept, and so is the watch it may have.
LEMMA Provided ==
    ASSUME NEW w, Provide(w)
    PROVE  /\ open \subseteq open' /\ open' \subseteq open \union registry'
           /\ registry' = registry \union {w}
  BY DEF Provide, Opened, config

LEMMA OpenNext == ShapeInv /\ ReqInv /\ StageInv /\ OpenInv /\ [Next]_vars => OpenInv'
<1> SUFFICES ASSUME ShapeInv, ReqInv, StageInv, OpenInv, [Next]_vars PROVE OpenInv'
  OBVIOUS
<1>1. CASE UNCHANGED <<open, registry, phase>>
  BY <1>1 DEF OpenInv
<1>2. ASSUME NEW w, Load(w)
      PROVE  OpenInv'
  BY <1>2 DEF Load, Opened, OpenInv
<1>3. CASE LoadFails \/ Start \/ SetUp \/ StartFails \/ OpenStore \/ Shutdown
  BY <1>3 DEF LoadFails, Start, SetUp, StartFails, OpenStore, Shutdown, config, OpenInv
<1>4. CASE StopRuntime \/ CloseConfigs \/ CloseHttp
  BY <1>4 DEF StopRuntime, CloseConfigs, CloseHttp, config, OpenInv
<1>5. ASSUME NEW r \in Requests, GetGraph(r)
      PROVE  OpenInv'
  <2>1. CASE graphs[Model(r)] # "none"
    BY <1>1, <1>5, <2>1, OnRequests DEF config, process
  <2>2. CASE graphs[Model(r)] = "none"
    <3>1. r \in Owed
      BY <1>5, OnRequests DEF Owed, ReqInv, ReqOK
    <3>2. phase \notin Late /\ phase' = phase
      BY <1>5, <2>2, <3>1, OnRequests DEF StageInv, process
    <3>3. Provide(Model(r))
      BY <1>5, <2>2, OnRequests
    <3> QED
      BY <3>2, <3>3, Provided DEF OpenInv, Late
  <2> QED
    BY <2>1, <2>2
<1>6. ASSUME NEW r \in Requests,
             \/ Ask(r) \/ (\E s \in Requests : Repeat(r, s))
             \/ CallLlm(r) \/ Open(r) \/ Leave(r) \/ Answer(r) \/ Fail(r) \/ Break(r)
      PROVE  OpenInv'
  BY <1>1, <1>6, OnRequests DEF config, process
<1>7. CASE GiveUpDraining
  BY <1>1, <1>7 DEF GiveUpDraining, config, process
<1>8. CASE \E w \in Workflows : Refresh(w) \/ Push(w)
  BY <1>1, <1>8 DEF Refresh, Push
<1>9. CASE UNCHANGED vars
  BY <1>1, <1>9 DEF vars, config
<1> QED
  BY <1>2, <1>3, <1>4, <1>5, <1>6, <1>7, <1>8, <1>9, PushedAssumption DEF Next, Serve

LEMMA LifeCorrect == Spec => [](StageInv /\ OpenInv)
<1>1. ShapeInv /\ ReqInv /\ StageInv /\ OpenInv /\ [Next]_vars => StageInv' /\ OpenInv'
  BY StageNext, OpenNext
<1> QED
  BY <1>1, ReqCorrect, StageInit, PTL DEF Spec

\* When the process has stopped, everything it opened is closed, the watches of
\* providers that requests made included.
THEOREM AllClosedCorrect == Spec => []AllClosed
<1>1. OpenInv => AllClosed
  BY DEF OpenInv, AllClosed
<1> QED
  BY <1>1, LifeCorrect, PTL

(***************************************************************************)
(* The store and the graphs.                                               *)
(***************************************************************************)

\* While the process serves, its store is open and its graphs use it.
StoreInv ==
    /\ phase = "setup" =>
         deployment.backend = "mysql" /\ "saver" \in open /\ handle = FALSE
    /\ phase \in {"serving", "draining"} =>
         /\ handle = (deployment.backend # "null")
         /\ deployment.backend \in Stores => "saver" \in open
    /\ graphs \in [Workflows -> {"none", "bare", "saving"}]
    /\ \A w \in Workflows : graphs[w] # "none" =>
         graphs[w] = IF deployment.backend = "null" THEN "bare" ELSE "saving"
    /\ \A r \in Requests : request[r].st \in {"ready", "running"} =>
         Model(r) \in Workflows /\ graphs[Model(r)] # "none"

LEMMA StoreInit == Init => StoreInv
<1> SUFFICES ASSUME Init PROVE StoreInv
  OBVIOUS
<1>1. /\ phase = "loading" /\ graphs = [w \in Workflows |-> "none"]
      /\ \A r \in Requests : request[r].st = "idle"
  BY DEF Init, Idle
<1> QED
  BY <1>1 DEF StoreInv

LEMMA AcceptedModel ==
    ASSUME ReqInv, NEW r \in Requests, Active(r)
    PROVE  Model(r) \in Workflows
<1>1. Refused(r) = None
  BY DEF ReqInv, ReqOK, Active
<1> QED
  BY <1>1, NoneAssumption DEF Refused, Refusal, Model

\* A step of a run that has its graph, or whose graph there is, leaves it.
LEMMA RunningStays ==
    ASSUME ShapeInv, ReqInv, [Next]_vars, NEW r \in Requests,
           request'[r].st \in {"ready", "running"}
    PROVE  /\ request'[r].ask = request[r].ask
           /\ request[r].st \in {"ready", "running"} \/ GetGraph(r)
<1>1. CASE request' = request
  BY <1>1
<1>2. ASSUME NEW s \in Requests, NEW ask, NEW of, NEW stream, Arrive(s, ask, of, stream)
      PROVE  request'[r] = request[r]
  BY <1>2, Arrived
<1>3. ASSUME NEW s \in Requests, Serve(s) \/ Leave(s)
      PROVE  /\ request'[r].ask = request[r].ask
             /\ request[r].st \in {"ready", "running"} \/ GetGraph(r)
  <2>1. CASE GetGraph(s)
    BY <2>1, Served DEF StepOf
  <2>2. CASE CallLlm(s) \/ Open(s) \/ Leave(s)
    <3>1. request[s].st \in {"ready", "running"}
      BY <2>2 DEF CallLlm, Open, Leave
    <3> QED
      BY <2>2, <3>1, Served DEF StepOf
  <2>3. CASE Answer(s) \/ Fail(s) \/ Break(s)
    <3>1. \E status : End(s, status)
      BY <2>3 DEF Answer, Fail, Break
    <3>2. StepOf(s) /\ request'[s].st = "done"
      BY <3>1, Ended
    <3> QED
      BY <3>2 DEF StepOf
  <2> QED
    BY <1>3, <2>1, <2>2, <2>3 DEF Serve
<1>4. CASE GiveUpDraining
  <2>1. request[r].st # "accepted"
    BY <1>4 DEF GiveUpDraining
  <2> QED
    BY <1>4, <2>1, GivenUp DEF Owed
<1>5. CASE \E s \in Requests : Ask(s) \/ (\E q \in Requests : Repeat(s, q))
  BY <1>2, <1>5 DEF Ask, Repeat
<1> QED
  BY <1>1, <1>3, <1>4, <1>5 DEF Next, vars, Load, Refresh, Push, LoadFails, Start,
     OpenStore, SetUp, StartFails, Shutdown, StopRuntime, CloseConfigs, CloseHttp

LEMMA StoreNext ==
    ShapeInv /\ ReqInv /\ StageInv /\ StoreInv /\ [Next]_vars => StoreInv'
<1> SUFFICES ASSUME ShapeInv, ReqInv, StageInv, StoreInv, [Next]_vars PROVE StoreInv'
  OBVIOUS
<1> DEFINE Graphed(r) == request[r].st \in {"ready", "running"} =>
                           Model(r) \in Workflows /\ graphs[Model(r)] # "none"
<1>0. deployment' = deployment
  BY DeploymentFixed
<1>1. ASSUME \A w \in Workflows : graphs[w] # "none" => graphs'[w] # "none",
             \A r \in Requests : GetGraph(r) => graphs'[Model(r)] # "none"
      PROVE  \A r \in Requests : Graphed(r)'
  <2> SUFFICES ASSUME NEW r \in Requests, request'[r].st \in {"ready", "running"}
               PROVE  Model(r)' \in Workflows /\ graphs'[Model(r)'] # "none"
    OBVIOUS
  <2>1. Model(r)' = Model(r)
    BY RunningStays DEF Model
  <2>2. CASE request[r].st \in {"ready", "running"}
    BY <1>1, <2>1, <2>2 DEF StoreInv
  <2>3. CASE GetGraph(r)
    <3>1. Active(r)
      BY <2>3, OnRequests DEF Active
    <3> QED
      BY <1>1, <2>1, <2>3, <3>1, AcceptedModel
  <2> QED
    BY <2>2, <2>3, RunningStays
<1>2. ASSUME UNCHANGED <<phase, handle, graphs>>, open \subseteq open',
             \A r \in Requests : GetGraph(r) => graphs[Model(r)] # "none"
      PROVE  StoreInv'
  BY <1>0, <1>1, <1>2 DEF StoreInv
<1>3. ASSUME NEW r \in Requests, GetGraph(r), graphs[Model(r)] = "none"
      PROVE  StoreInv'
  <2>1. /\ Provide(Model(r)) /\ UNCHANGED process /\ request[r].st = "accepted"
        /\ graphs' = [graphs EXCEPT ![Model(r)] = IF handle THEN "saving" ELSE "bare"]
    BY <1>3, OnRequests
  <2>2. Model(r) \in Workflows /\ r \in Owed
    BY <2>1, AcceptedModel DEF Active, Owed, ReqInv, ReqOK
  <2>3. phase \in {"serving", "draining"}
    BY <2>1, <2>2 DEF StageInv
  <2>4. handle = (deployment.backend # "null")
    BY <2>3 DEF StoreInv
  <2>5. open \subseteq open'
    BY <2>1, Provided
  <2> DEFINE g == IF handle THEN "saving" ELSE "bare"
  <2>6. g = IF deployment.backend = "null" THEN "bare" ELSE "saving"
    BY <2>4
  <2> HIDE DEF g
  <2>7. /\ graphs' \in [Workflows -> {"none", "bare", "saving"}]
        /\ \A w \in Workflows : graphs'[w] = IF w = Model(r) THEN g ELSE graphs[w]
    BY <2>1, <2>2, <2>6 DEF StoreInv, g
  <2>8. ASSUME NEW s \in Requests, GetGraph(s)
        PROVE  graphs'[Model(s)] # "none"
    <3>1. request[s].st = "accepted" /\ request'[s].st = "ready" /\ StepOf(r)
      BY <1>3, <2>8, OnRequests, Served
    <3>2. s = r
      BY <3>1 DEF StepOf
    <3> QED
      BY <2>2, <2>6, <2>7, <3>2
  <2> QED
    BY <1>0, <1>1, <2>1, <2>5, <2>6, <2>7, <2>8 DEF StoreInv, process
<1>4. ASSUME NEW r \in Requests, GetGraph(r)
      PROVE  StoreInv'
  <2>1. CASE graphs[Model(r)] = "none"
    BY <1>3, <1>4, <2>1
  <2>2. CASE graphs[Model(r)] # "none"
    <3>1. UNCHANGED <<process, open, config, graphs>>
      BY <1>4, <2>2, OnRequests
    <3>2. ASSUME NEW s \in Requests, GetGraph(s)
          PROVE  graphs[Model(s)] # "none"
      <4>1. request[s].st = "accepted" /\ request'[s].st = "ready" /\ StepOf(r)
        BY <1>4, <3>2, OnRequests, Served
      <4>2. s = r
        BY <4>1 DEF StepOf
      <4> QED
        BY <2>2, <4>2
    <3> QED
      BY <1>2, <3>1, <3>2 DEF process
  <2> QED
    BY <2>1, <2>2
<1>5. CASE \E r \in Requests : GetGraph(r)
  BY <1>4, <1>5
<1>6. CASE ~\E r \in Requests : GetGraph(r)
  <2>1. ASSUME UNCHANGED <<phase, handle, graphs>>, open \subseteq open'
        PROVE  StoreInv'
    BY <1>2, <1>6, <2>1
  <2>2. CASE \E r \in Requests : Ask(r) \/ (\E s \in Requests : Repeat(r, s))
    BY <2>1, <2>2, OnRequests DEF process
  <2>3. CASE \E r \in Requests : CallLlm(r) \/ Open(r) \/ Leave(r) \/ Answer(r) \/ Fail(r)
                                   \/ Break(r)
    BY <2>1, <2>3, OnRequests DEF process
  <2>4. CASE GiveUpDraining
    BY <2>1, <2>4 DEF GiveUpDraining, process
  <2>5. CASE \E w \in Workflows : Load(w) \/ Refresh(w) \/ Push(w)
    BY <2>1, <2>5 DEF Load, Refresh, Push, Opened
  <2>6. CASE UNCHANGED vars
    BY <2>1, <2>6 DEF vars
  <2>7. ASSUME request' = request, graphs' = graphs,
               phase' = "setup" =>
                 deployment.backend = "mysql" /\ "saver" \in open' /\ handle' = FALSE,
               phase' \in {"serving", "draining"} =>
                 /\ handle' = (deployment.backend # "null")
                 /\ deployment.backend \in Stores => "saver" \in open'
        PROVE  StoreInv'
    BY <1>0, <2>7 DEF StoreInv, Model
  <2>8. CASE LoadFails \/ Start \/ StartFails \/ StopRuntime \/ CloseConfigs \/ CloseHttp
    <3>1. /\ request' = request /\ graphs' = graphs
          /\ phase' \notin {"setup", "serving", "draining"}
      BY <2>8 DEF LoadFails, Start, StartFails, StopRuntime, CloseConfigs, CloseHttp
    <3> QED
      BY <2>7, <3>1
  <2>9. CASE OpenStore
    BY <2>7, <2>9 DEF OpenStore, Stores
  <2>10. CASE SetUp \/ Shutdown
    BY <2>7, <2>10 DEF SetUp, Shutdown, StoreInv
  <2> QED
    BY <1>6, <2>2, <2>3, <2>4, <2>5, <2>6, <2>8, <2>9, <2>10, PushedAssumption DEF Next, Serve
<1> QED
  BY <1>5, <1>6

LEMMA StoreCorrect == Spec => []StoreInv
  BY ReqCorrect, LifeCorrect, StoreInit, StoreNext, PTL DEF Spec

\* Whoever waits for an answer has it saved in the store of the deployment: no
\* graph was built before the store was set up, and it is closed after the last
\* answer.
THEOREM RunsOnOpenStoreCorrect == Spec => []RunsOnOpenStore
<1>1. StageInv /\ StoreInv => RunsOnOpenStore
  <2> SUFFICES ASSUME StageInv, StoreInv, NEW r \in Owed, request[r].st # "accepted",
                      deployment.backend # "null"
               PROVE  /\ graphs[Model(r)] = "saving"
                      /\ deployment.backend \in Stores => "saver" \in open
    BY DEF RunsOnOpenStore
  <2>1. r \in Requests /\ request[r].st \in {"ready", "running"}
    BY DEF Owed
  <2>2. phase \in {"serving", "draining"}
    BY <2>1 DEF StageInv
  <2> QED
    BY <2>1, <2>2 DEF StoreInv
<1> QED
  BY <1>1, LifeCorrect, StoreCorrect, PTL

(***************************************************************************)
(* Callers.                                                                *)
(***************************************************************************)

\* A graph was built for a request that was let in.
BuiltInv ==
    \A w \in Workflows : graphs[w] # "none" =>
        \E r \in Requests : request[r].st # "idle" /\ Refused(r) = None /\ Model(r) = w

LEMMA BuiltInit == Init => BuiltInv
  BY DEF Init, BuiltInv

LEMMA BuiltNext ==
    ShapeInv /\ ReqInv /\ StoreInv /\ BuiltInv /\ [Next]_vars => BuiltInv'
<1> SUFFICES ASSUME ShapeInv, ReqInv, StoreInv, BuiltInv, [Next]_vars,
                    NEW w \in Workflows, graphs'[w] # "none"
             PROVE  \E r \in Requests :
                       request'[r].st # "idle" /\ Refused(r)' = None /\ Model(r)' = w
  BY DEF BuiltInv
<1>1. SUFFICES ASSUME NEW r \in Requests, request[r].st # "idle", Refused(r) = None,
                      Model(r) = w
               PROVE  \E s \in Requests :
                         request'[s].st # "idle" /\ Refused(s)' = None /\ Model(s)' = w
  <2>1. CASE graphs[w] # "none"
    BY <2>1 DEF BuiltInv
  <2>2. ASSUME graphs[w] = "none" PROVE \E r \in Requests : GetGraph(r) /\ Model(r) = w
    <3>1. graphs' # graphs
      BY <2>2
    <3>2. ASSUME NEW r \in Requests, GetGraph(r)
          PROVE  Model(r) = w
      BY <2>2, <3>1, <3>2, OnRequests DEF StoreInv
    <3>3. \E r \in Requests : GetGraph(r)
      BY <3>1, OnRequests DEF Next, vars, Serve, Load, Refresh, Push, LoadFails, Start, OpenStore,
         SetUp, StartFails, Shutdown, GiveUpDraining, StopRuntime, CloseConfigs, CloseHttp
    <3> QED
      BY <3>2, <3>3
  <2>3. ASSUME NEW r \in Requests, GetGraph(r)
        PROVE  request[r].st # "idle" /\ Refused(r) = None
    <3>1. request[r].st = "accepted"
      BY <2>3, OnRequests
    <3> QED
      BY <3>1 DEF ReqInv, ReqOK
  <2> QED
    BY <2>1, <2>2, <2>3
<1>2. request'[r].ask = request[r].ask /\ request'[r].st # "idle"
  BY <1>1, Kept
<1> QED
  BY <1>1, <1>2, DeploymentFixed DEF Refused, Model

\* A caller who is not allowed is refused for that, whatever model it asks for, and
\* whoever has a graph built was let in.
THEOREM CallersFirstCorrect == Spec => []CallersFirst
<1>1. ReqInv /\ RetryInv /\ BuiltInv => CallersFirst
  <2> SUFFICES ASSUME ReqInv, RetryInv, BuiltInv PROVE CallersFirst
    OBVIOUS
  <2>1. ASSUME NEW r \in Requests, request[r].ask # None, request[r].ask.valid,
               Unauthorized(deployment.auth, request[r].ask)
        PROVE  request[r].status = 401
    <3>1. Refused(r) = 401 /\ request[r].st # "idle"
      BY <2>1 DEF Refused, Refusal, ReqInv, ReqOK
    <3> QED
      BY <3>1, NoneAssumption DEF ReqInv, ReqOK
  <2>2. ASSUME NEW w \in Workflows, graphs[w] # "none"
        PROVE  \E r \in Requests : request[r].thread # None /\ Model(r) = w
    <3>1. PICK r \in Requests : request[r].st # "idle" /\ Refused(r) = None /\ Model(r) = w
      BY <2>2 DEF BuiltInv
    <3>2. request[r].thread # None
      BY <3>1, ThreadIsText, NoneAssumption
    <3> QED
      BY <3>1, <3>2
  <2> QED
    BY <2>1, <2>2 DEF CallersFirst
<1>2. Spec => []BuiltInv
  BY ReqCorrect, StoreCorrect, BuiltInit, BuiltNext, PTL DEF Spec
<1>3. Spec => []RetryInv
  BY ReqCorrect, RetryInit, RetryNext, PTL DEF Spec
<1> QED
  BY <1>1, <1>2, <1>3, ReqCorrect, PTL

(***************************************************************************)
(* Config documents.                                                       *)
(***************************************************************************)

\* A provider holds a document that was published.
DocInv ==
    /\ registry \subseteq Workflows
    /\ documents \in [Workflows -> Seq(BOOLEAN)]
    /\ \A w \in Workflows : Len(documents[w]) <= MaxPushes
    /\ conf \in [Workflows -> Nat]
    /\ \A w \in Workflows : conf[w] <= Len(documents[w])

LEMMA DocInit == Init => DocInv
<1> SUFFICES ASSUME Init PROVE DocInv
  OBVIOUS
<1>1. /\ registry = {} /\ documents = [w \in Workflows |-> <<>>]
      /\ conf = [w \in Workflows |-> 0]
  BY DEF Init
<1> QED
  BY <1>1, BoundsAssumption DEF DocInv

LEMMA OpenedDoc ==
    ASSUME DocInv, NEW w \in Workflows, Opened(w)
    PROVE  /\ conf' \in [Workflows -> Nat]
           /\ \A v \in Workflows : conf'[v] <= Len(documents[v])
           /\ \A v \in Workflows : v # w => conf'[v] = conf[v]
<1>1. \E x \in {0, Len(documents[w])} : conf' = [conf EXCEPT ![w] = x]
  BY DEF Opened
<1>2. PICK x \in {0, Len(documents[w])} : conf' = [conf EXCEPT ![w] = x]
  BY <1>1
<1>3. x \in Nat /\ x <= Len(documents[w])
  BY DEF DocInv
<1> QED
  BY <1>2, <1>3 DEF DocInv

\* What a step does to the documents: none is lost, and the provider of a
\* workflow whose graph was built never goes back.
LEMMA DocNext ==
    ASSUME ShapeInv, ReqInv, StageInv, StoreInv, BuiltInv, DocInv, [Next]_vars
    PROVE  /\ DocInv'
           /\ \A w \in Workflows :
                 /\ Len(documents[w]) <= Len(documents'[w])
                 /\ \A i \in 1..Len(documents[w]) : documents'[w][i] = documents[w][i]
                 /\ graphs[w] # "none" => conf[w] <= conf'[w]
<1> USE DEF config
<1>1. CASE UNCHANGED config
  BY <1>1 DEF DocInv
<1>2. ASSUME NEW w \in Workflows, Opened(w), documents' = documents,
             registry' \subseteq registry \union {w}, graphs[w] = "none"
      PROVE  /\ DocInv'
             /\ \A v \in Workflows :
                   /\ Len(documents[v]) <= Len(documents'[v])
                   /\ \A i \in 1..Len(documents[v]) : documents'[v][i] = documents[v][i]
                   /\ graphs[v] # "none" => conf[v] <= conf'[v]
  BY <1>2, OpenedDoc DEF DocInv
<1>3. ASSUME NEW w \in Workflows, Load(w)
      PROVE  Opened(w) /\ documents' = documents
             /\ registry' \subseteq registry \union {w} /\ graphs[w] = "none"
  <2>1. \A r \in Requests : request[r].st = "idle"
    BY <1>3 DEF Load, StageInv, Early
  <2>2. graphs[w] = "none"
    BY <2>1 DEF BuiltInv
  <2> QED
    BY <1>3, <2>2 DEF Load
<1>4. ASSUME NEW r \in Requests, GetGraph(r), graphs[Model(r)] = "none"
      PROVE  /\ Model(r) \in Workflows
             /\ \/ UNCHANGED config
                \/ Opened(Model(r)) /\ documents' = documents
                   /\ registry' \subseteq registry \union {Model(r)}
  <2>1. Provide(Model(r)) /\ Active(r)
    BY <1>4, OnRequests DEF Active
  <2> QED
    BY <2>1, AcceptedModel DEF Provide
<1>5. CASE \E r \in Requests : GetGraph(r)
  <2>1. PICK r \in Requests : GetGraph(r)
    BY <1>5
  <2>2. CASE graphs[Model(r)] = "none"
    BY <1>1, <1>2, <1>4, <2>1, <2>2
  <2>3. CASE graphs[Model(r)] # "none"
    BY <1>1, <2>1, <2>3, OnRequests
  <2> QED
    BY <2>2, <2>3
<1>6. CASE \E w \in Workflows : Push(w)
  <2>1. PICK w \in Workflows : Push(w)
    BY <1>6
  <2>2. PICK llm \in BOOLEAN : documents' = [documents EXCEPT ![w] = Append(documents[w], llm)]
    BY <2>1 DEF Push
  <2>3. /\ Append(documents[w], llm) \in Seq(BOOLEAN)
        /\ Len(Append(documents[w], llm)) = Len(documents[w]) + 1
        /\ \A i \in 1..Len(documents[w]) : Append(documents[w], llm)[i] = documents[w][i]
    BY DEF DocInv
  <2>4. Len(documents[w]) < MaxPushes /\ registry' = registry /\ conf' = conf
    BY <2>1 DEF Push
  <2>5. \A v \in Workflows : documents'[v] = IF v = w THEN Append(documents[w], llm)
                                                      ELSE documents[v]
    BY <2>2 DEF DocInv
  <2>6. \A v \in Workflows : Len(documents[v]) \in Nat
    BY DEF DocInv
  <2>7. MaxPushes \in Nat
    BY BoundsAssumption
  <2>8. documents' \in [Workflows -> Seq(BOOLEAN)]
    BY <2>2, <2>3 DEF DocInv
  <2>9. DocInv'
    BY <2>3, <2>4, <2>5, <2>6, <2>7, <2>8 DEF DocInv
  <2> QED
    BY <2>3, <2>4, <2>5, <2>6, <2>9 DEF DocInv
<1>7. CASE \E w \in Workflows : Refresh(w)
  <2>1. PICK w \in Workflows : Refresh(w)
    BY <1>7
  <2>2. /\ conf' = [conf EXCEPT ![w] = Len(documents[w])] /\ conf[w] < Len(documents[w])
        /\ UNCHANGED <<registry, documents>>
    BY <2>1 DEF Refresh
  <2>3. \A v \in Workflows : Len(documents[v]) \in Nat
    BY DEF DocInv
  <2> QED
    BY <2>2, <2>3 DEF DocInv
<1>8. CASE CloseConfigs
  <2>1. registry' = {} /\ documents' = documents /\ conf' = conf
    BY <1>8 DEF CloseConfigs
  <2>2. \A v \in Workflows : Len(documents[v]) \in Nat
    BY DEF DocInv
  <2> QED
    BY <2>1, <2>2 DEF DocInv
<1>9. CASE \E w \in Workflows : Load(w)
  BY <1>2, <1>3, <1>9
<1>10. CASE \/ \E r \in Requests : Ask(r) \/ (\E s \in Requests : Repeat(r, s))
            \/ \E r \in Requests : CallLlm(r) \/ Open(r) \/ Leave(r) \/ Answer(r) \/ Fail(r)
                                    \/ Break(r)
            \/ GiveUpDraining
  <2>1. UNCHANGED config
    BY <1>10, OnRequests DEF GiveUpDraining
  <2> QED
    BY <1>1, <2>1
<1>11. CASE \/ LoadFails \/ Start \/ OpenStore \/ SetUp \/ StartFails
            \/ Shutdown \/ StopRuntime \/ CloseHttp \/ UNCHANGED vars
  <2>1. UNCHANGED config
    BY <1>11 DEF LoadFails, Start, OpenStore, SetUp, StartFails, Shutdown, StopRuntime,
                 CloseHttp, vars
  <2> QED
    BY <1>1, <2>1
<1>12. \A w \in Pushed : w \in Workflows
  BY PushedAssumption
<1> HIDE DEF config
<1> QED
  BY <1>5, <1>6, <1>7, <1>8, <1>9, <1>10, <1>11, <1>12 DEF Next, Serve

LEMMA DocCorrect == Spec => []DocInv
<1>1. ShapeInv /\ ReqInv /\ StageInv /\ StoreInv /\ BuiltInv /\ DocInv /\ [Next]_vars => DocInv'
  BY DocNext
<1>2. Spec => []BuiltInv
  BY ReqCorrect, StoreCorrect, BuiltInit, BuiltNext, PTL DEF Spec
<1> QED
  BY <1>1, <1>2, ReqCorrect, LifeCorrect, StoreCorrect, DocInit, PTL DEF Spec

\* A run notes the document it begins with and the one its LLM comes from once.
LEMMA NotedOnce ==
    ASSUME ShapeInv, [Next]_vars, NEW r \in Requests
    PROVE  \/ GetGraph(r)
           \/ CallLlm(r)
           \/ request'[r].st \in {"accepted", "done"} /\ request'[r].llm = None
              /\ request'[r].since = None
           \/ /\ request'[r].since = request[r].since /\ request'[r].llm = request[r].llm
              /\ request'[r].ask = request[r].ask
              /\ request'[r].st = request[r].st \/ request'[r].st \in {"running", "done"}
              /\ request'[r].st = "running" => request[r].st = "running"
<1> DEFINE Same == /\ request'[r].since = request[r].since /\ request'[r].llm = request[r].llm
                   /\ request'[r].ask = request[r].ask
                   /\ request'[r].st = request[r].st \/ request'[r].st \in {"running", "done"}
                   /\ request'[r].st = "running" => request[r].st = "running"
           Arriving == request'[r].st \in {"accepted", "done"} /\ request'[r].llm = None
                       /\ request'[r].since = None
<1>1. CASE request' = request
  BY <1>1
<1>2. ASSUME NEW s \in Requests, NEW ask, NEW of, NEW stream, Arrive(s, ask, of, stream)
      PROVE  Same \/ Arriving
  BY <1>2, Arrived
<1>3. ASSUME NEW s \in Requests, Serve(s) \/ Leave(s)
      PROVE  GetGraph(r) \/ CallLlm(r) \/ Same
  <2>1. CASE GetGraph(s) \/ CallLlm(s)
    BY <2>1, Served DEF StepOf
  <2>2. CASE Open(s) \/ Leave(s)
    <3>1. request[s].st = "running"
      BY <2>2 DEF Open, Leave
    <3>2. /\ StepOf(s) /\ request'[s].st = "running"
          /\ request'[s].since = request[s].since /\ request'[s].llm = request[s].llm
      BY <2>2, Served
    <3> QED
      BY <3>1, <3>2 DEF StepOf
  <2>3. CASE Answer(s) \/ Fail(s) \/ Break(s)
    <3>1. \E status : End(s, status)
      BY <2>3 DEF Answer, Fail, Break
    <3> QED
      BY <3>1, Ended DEF StepOf
  <2> QED
    BY <1>3, <2>1, <2>2, <2>3 DEF Serve
<1>4. CASE GiveUpDraining
  BY <1>4, GivenUp
<1>5. CASE \E s \in Requests : Ask(s) \/ (\E q \in Requests : Repeat(s, q))
  BY <1>2, <1>5 DEF Ask, Repeat
<1> QED
  BY <1>1, <1>3, <1>4, <1>5 DEF Next, vars, Load, Refresh, Push, LoadFails, Start,
     OpenStore, SetUp, StartFails, Shutdown, StopRuntime, CloseConfigs, CloseHttp

\* The document a run began with is one its provider has had, and so is the one
\* it uses.
FreshOK(r) ==
    /\ request[r].st \in {"idle", "accepted", "ready"} => request[r].llm = None
    /\ request[r].st \in {"ready", "running"} =>
         request[r].since \in Nat /\ request[r].since <= conf[Model(r)]
    /\ request[r].llm # None =>
         /\ Model(r) \in Workflows /\ request[r].since \in Nat /\ request[r].llm \in Nat
         /\ \/ request[r].llm >= request[r].since
            \/ /\ request[r].llm = 0
               /\ \E v \in request[r].since..Len(documents[Model(r)]) :
                     ~documents[Model(r)][v]

FreshInv == \A r \in Requests : FreshOK(r)

LEMMA FreshInit == Init => FreshInv
<1> SUFFICES ASSUME Init, NEW r \in Requests PROVE FreshOK(r)
  BY DEF FreshInv
<1>1. request[r].st = "idle" /\ request[r].llm = None
  BY DEF Init, Idle
<1> QED
  BY <1>1 DEF FreshOK

LEMMA FreshNext ==
    ShapeInv /\ ReqInv /\ StageInv /\ StoreInv /\ BuiltInv /\ DocInv /\ FreshInv /\ [Next]_vars
    => FreshInv'
<1> SUFFICES ASSUME ShapeInv, ReqInv, StageInv, StoreInv, BuiltInv, DocInv, FreshInv,
                    [Next]_vars, NEW r \in Requests
             PROVE  FreshOK(r)'
  BY DEF FreshInv
<1>1. FreshOK(r) /\ DocInv'
  BY DocNext DEF FreshInv
<1>2. \A w \in Workflows :
         /\ Len(documents[w]) \in Nat /\ Len(documents'[w]) \in Nat
         /\ Len(documents[w]) <= Len(documents'[w])
         /\ \A i \in 1..Len(documents[w]) : documents'[w][i] = documents[w][i]
         /\ graphs[w] # "none" => conf[w] <= conf'[w]
         /\ conf[w] \in Nat /\ conf'[w] \in Nat
         /\ conf[w] <= Len(documents[w]) /\ conf'[w] <= Len(documents'[w])
  BY <1>1, DocNext DEF DocInv
<1>3. CASE GetGraph(r)
  <2>1. /\ request'[r].ask = request[r].ask /\ request'[r].st = "ready"
        /\ request'[r].since = conf'[Model(r)] /\ request'[r].llm = request[r].llm
    BY <1>3, Served DEF StepOf
  <2>2. request[r].st = "accepted" /\ Model(r) \in Workflows
    BY <1>3, AcceptedModel DEF GetGraph, Active
  <2> QED
    BY <1>1, <1>2, <2>1, <2>2 DEF FreshOK, Model
<1>4. CASE CallLlm(r)
  <2>1. /\ request'[r].ask = request[r].ask /\ request'[r].st = "running"
        /\ request'[r].since = request[r].since /\ request'[r].llm = Llm(Model(r))
    BY <1>4, Served DEF StepOf
  <2>2. request[r].st = "ready" /\ UNCHANGED config
    BY <1>4 DEF CallLlm
  <2>3. Model(r) \in Workflows
    BY <2>2, AcceptedModel DEF Active
  <2>4. documents' = documents /\ conf' = conf
    BY <2>2 DEF config
  <2>5. request[r].since \in Nat /\ request[r].since <= conf[Model(r)]
    BY <1>1, <2>2 DEF FreshOK
  <2>6. \/ Llm(Model(r)) = conf[Model(r)]
        \/ Llm(Model(r)) = 0 /\ conf[Model(r)] = 0
        \/ Llm(Model(r)) = 0 /\ conf[Model(r)] > 0 /\ ~documents[Model(r)][conf[Model(r)]]
    BY <1>2, <2>3 DEF Llm
  <2>7. /\ request'[r].llm \in Nat
        /\ \/ request'[r].llm >= request[r].since
           \/ /\ request'[r].llm = 0
              /\ conf[Model(r)] \in request[r].since..Len(documents[Model(r)])
              /\ ~documents[Model(r)][conf[Model(r)]]
    BY <1>2, <2>1, <2>3, <2>5, <2>6
  <2> QED
    BY <2>1, <2>3, <2>4, <2>5, <2>7 DEF FreshOK, Model
<1>5. CASE request'[r].st \in {"accepted", "done"} /\ request'[r].llm = None
  BY <1>5 DEF FreshOK
<1>6. CASE /\ request'[r].since = request[r].since /\ request'[r].llm = request[r].llm
           /\ request'[r].ask = request[r].ask
           /\ request'[r].st = request[r].st \/ request'[r].st \in {"running", "done"}
           /\ request'[r].st = "running" => request[r].st = "running"
  <2>1. request'[r].st \in {"idle", "accepted", "ready"} => request'[r].llm = None
    BY <1>1, <1>6 DEF FreshOK
  <2>2. ASSUME request'[r].st \in {"ready", "running"}
        PROVE  request'[r].since \in Nat /\ request'[r].since <= conf'[Model(r)]
    <3>1. request[r].st \in {"ready", "running"}
      BY <1>6, <2>2
    <3>2. Model(r) \in Workflows /\ graphs[Model(r)] # "none"
      BY <3>1 DEF StoreInv
    <3> QED
      BY <1>1, <1>2, <1>6, <3>1, <3>2 DEF FreshOK
  <2>3. ASSUME request'[r].llm # None
        PROVE  /\ Model(r) \in Workflows /\ request'[r].since \in Nat /\ request'[r].llm \in Nat
               /\ \/ request'[r].llm >= request'[r].since
                  \/ /\ request'[r].llm = 0
                     /\ \E v \in request'[r].since..Len(documents'[Model(r)]) :
                           ~documents'[Model(r)][v]
    <3>1. FreshOK(r) /\ request[r].llm # None
      BY <1>1, <1>6, <2>3
    <3>2. CASE request[r].llm >= request[r].since
      BY <1>6, <3>1, <3>2 DEF FreshOK
    <3>3. CASE ~(request[r].llm >= request[r].since)
      <4>1. /\ request[r].llm = 0 /\ request[r].since \in Nat /\ Model(r) \in Workflows
            /\ \E v \in request[r].since..Len(documents[Model(r)]) : ~documents[Model(r)][v]
        BY <3>1, <3>3 DEF FreshOK
      <4>2. PICK v \in request[r].since..Len(documents[Model(r)]) : ~documents[Model(r)][v]
        BY <4>1
      <4>3. request[r].since >= 1
        BY <3>3, <4>1
      <4>4. v \in 1..Len(documents[Model(r)])
        BY <1>2, <4>1, <4>2, <4>3
      <4>5. ~documents'[Model(r)][v] /\ v \in request[r].since..Len(documents'[Model(r)])
        BY <1>2, <4>1, <4>2, <4>4
      <4> QED
        BY <1>6, <3>1, <4>1, <4>5 DEF FreshOK
    <3> QED
      BY <3>2, <3>3
  <2> QED
    BY <1>6, <2>1, <2>2, <2>3 DEF FreshOK, Model
<1> QED
  BY <1>3, <1>4, <1>5, <1>6, NotedOnce

\* A run that begins after a document is there is not answered with an older
\* one: once a graph is built its provider only moves forward, and the local
\* file is used only because a document between has no LLM.
THEOREM FreshConfigCorrect == Spec => []FreshConfig
<1>1. FreshInv => FreshConfig
  BY DEF FreshInv, FreshOK, FreshConfig
<1>2. Spec => []BuiltInv
  BY ReqCorrect, StoreCorrect, BuiltInit, BuiltNext, PTL DEF Spec
<1>3. Spec => []FreshInv
  BY <1>2, ReqCorrect, LifeCorrect, StoreCorrect, DocCorrect, FreshInit, FreshNext, PTL DEF Spec
<1> QED
  BY <1>1, <1>3, PTL

\* Without a name of the deployment's own, a workflow's document has the
\* workflow's name.
THEOREM OwnDocumentCorrect == Spec => []OwnDocument
<1>1. OwnDocument
  BY DEF OwnDocument, DataId, Names
<1> QED
  BY <1>1, PTL

(***************************************************************************)
(* Types.                                                                  *)
(***************************************************************************)

\* The handle is there only while its store is open.
HandleInv ==
    /\ deployment \in Deployments
    /\ handle \in BOOLEAN
    /\ handle /\ deployment.backend \in Stores => "saver" \in open
    /\ phase \in {"closing configs", "closing http", "stopped"} => handle = FALSE

LEMMA HandleInit == Init => HandleInv
  BY DEF Init, HandleInv

LEMMA HandleNext == StoreInv /\ HandleInv /\ [Next]_vars => HandleInv'
<1> SUFFICES ASSUME StoreInv, HandleInv, [Next]_vars PROVE HandleInv'
  OBVIOUS
<1>0. deployment' = deployment
  BY DeploymentFixed
<1>1. CASE UNCHANGED <<phase, handle>> /\ open \subseteq open'
  BY <1>0, <1>1 DEF HandleInv
<1>2. CASE \/ \E w \in Workflows : Load(w) \/ Refresh(w) \/ Push(w)
           \/ \E r \in Requests : Ask(r) \/ (\E s \in Requests : Repeat(r, s)) \/ Serve(r)
                                   \/ Leave(r)
           \/ GiveUpDraining
           \/ UNCHANGED vars
  <2>1. UNCHANGED <<phase, handle>> /\ open \subseteq open'
    BY <1>2, OnRequests, Provided
       DEF Load, Opened, Refresh, Push, Serve, process, vars, GiveUpDraining
  <2> QED
    BY <1>1, <2>1
<1>3. CASE LoadFails \/ Start \/ StartFails \/ Shutdown
  <2>1. UNCHANGED <<open, handle>>
        /\ phase' \notin {"closing configs", "closing http", "stopped"}
    BY <1>3 DEF LoadFails, Start, StartFails, Shutdown
  <2> QED
    BY <1>0, <2>1 DEF HandleInv
<1>4. CASE OpenStore
  BY <1>0, <1>4 DEF OpenStore, HandleInv, Stores
<1>5. CASE SetUp
  BY <1>0, <1>5 DEF SetUp, HandleInv, StoreInv
<1>6. CASE StopRuntime \/ CloseConfigs \/ CloseHttp
  <2>1. \/ handle' = FALSE
        \/ phase' = "broken" /\ UNCHANGED <<open, handle>>
    BY <1>6 DEF StopRuntime, CloseConfigs, CloseHttp, HandleInv
  <2>2. CASE handle' = FALSE
    BY <1>0, <2>2 DEF HandleInv
  <2>3. CASE phase' = "broken" /\ UNCHANGED <<open, handle>>
    <3>1. phase' \notin {"closing configs", "closing http", "stopped"}
      BY <2>3
    <3> QED
      BY <1>0, <2>3, <3>1 DEF HandleInv
  <2> QED
    BY <2>1, <2>2, <2>3
<1>7. \A w \in Pushed : w \in Workflows
  BY PushedAssumption
<1> QED
  BY <1>2, <1>3, <1>4, <1>5, <1>6, <1>7 DEF Next

Statuses == {None, 200, 400, 401, 422, 500, 502, 504}

Marks == 0..MaxPushes \union {None}

TypedInv ==
    \A r \in Requests :
        /\ request[r].stream \in BOOLEAN
        /\ request[r].status \in Statuses
        /\ request[r].since \in Marks /\ request[r].llm \in Marks

LEMMA TypedInit == Init => TypedInv
<1> SUFFICES ASSUME Init, NEW r \in Requests
             PROVE  /\ request[r].stream \in BOOLEAN
                    /\ request[r].status \in Statuses
                    /\ request[r].since \in Marks /\ request[r].llm \in Marks
  BY DEF TypedInv
<1>1. /\ request[r].stream = FALSE /\ request[r].status = None
      /\ request[r].since = None /\ request[r].llm = None
  BY DEF Init, Idle
<1>2. None \in Statuses
  BY DEF Statuses
<1>3. None \in Marks
  BY DEF Marks
<1> QED
  BY <1>1, <1>2, <1>3

LEMMA StatusTyped ==
    ASSUME ShapeInv, TypedInv, [Next]_vars, NEW r \in Requests
    PROVE  request'[r].stream \in BOOLEAN /\ request'[r].status \in Statuses
<1>0. request[r].stream \in BOOLEAN /\ request[r].status \in Statuses
  BY DEF TypedInv
<1>1. CASE request' = request
  BY <1>0, <1>1
<1>2. ASSUME NEW s \in Requests, NEW ask, NEW of, NEW stream \in BOOLEAN,
             Arrive(s, ask, of, stream)
      PROVE  request'[r].stream \in BOOLEAN /\ request'[r].status \in Statuses
  <2> DEFINE status == Refusal(deployment.auth, ask)
  <2>1. status \in {400, 401, 422, None}
    BY DEF Refusal
  <2>5. /\ request'[s].stream \in {stream, FALSE}
        /\ status = None => request'[s].status = None
        /\ status # None => request'[s].status = status
        /\ s # r => request'[r] = request[r]
    BY <1>2, Arrived
  <2> HIDE DEF status
  <2>2. request'[s].stream \in BOOLEAN
    BY <2>5
  <2>3. request'[s].status \in {400, 401, 422, None}
    BY <2>1, <2>5
  <2>4. s # r => request'[r] = request[r]
    BY <2>5
  <2> QED
    BY <1>0, <2>2, <2>3, <2>4 DEF Statuses
<1>3. ASSUME NEW s \in Requests, Serve(s) \/ Leave(s)
      PROVE  request'[r].stream \in BOOLEAN /\ request'[r].status \in Statuses
  <2>1. CASE GetGraph(s) \/ CallLlm(s) \/ Leave(s)
    BY <1>0, <2>1, Served DEF StepOf, Silent
  <2>2. CASE Open(s)
    <3>1. StepOf(s) /\ request'[s].status = 200
      BY <2>2, Served DEF Told
    <3>2. request'[s].stream = request[s].stream /\ (s # r => request'[r] = request[r])
      BY <3>1 DEF StepOf
    <3> QED
      BY <1>0, <3>1, <3>2 DEF Statuses
  <2>3. CASE Answer(s) \/ Fail(s) \/ Break(s)
    <3>1. \E status \in {200, 500, 502, 504} : End(s, status)
      BY <2>3 DEF Answer, Fail, Break, FailureStatus
    <3> QED
      BY <1>0, <3>1, Ended DEF StepOf, Silent, Told, Statuses
  <2> QED
    BY <1>3, <2>1, <2>2, <2>3 DEF Serve
<1>4. CASE GiveUpDraining
  BY <1>0, <1>4, GivenUp DEF Silent
<1>5. CASE \E s \in Requests : Ask(s) \/ (\E q \in Requests : Repeat(s, q))
  <2>1. \E s \in Requests, stream \in BOOLEAN : \E ask, of : Arrive(s, ask, of, stream)
    BY <1>5 DEF Ask, Repeat, TypedInv
  <2> QED
    BY <1>2, <2>1
<1> QED
  BY <1>1, <1>3, <1>4, <1>5 DEF Next, vars, Load, Refresh, Push, LoadFails, Start,
     OpenStore, SetUp, StartFails, Shutdown, StopRuntime, CloseConfigs, CloseHttp

LEMMA TypedNext ==
    ShapeInv /\ ReqInv /\ DocInv /\ DocInv' /\ TypedInv /\ [Next]_vars => TypedInv'
<1> SUFFICES ASSUME ShapeInv, ReqInv, DocInv, DocInv', TypedInv, [Next]_vars,
                    NEW r \in Requests
             PROVE  request'[r].since \in Marks /\ request'[r].llm \in Marks
  BY StatusTyped DEF TypedInv
<1>0. request[r].since \in Marks /\ request[r].llm \in Marks
  BY DEF TypedInv
<1>1. \A w \in Workflows : conf[w] \in Marks /\ conf'[w] \in Marks
  <2> SUFFICES ASSUME NEW w \in Workflows PROVE conf[w] \in Marks /\ conf'[w] \in Marks
    OBVIOUS
  <2>1. /\ conf[w] \in Nat /\ conf'[w] \in Nat /\ MaxPushes \in Nat
        /\ Len(documents[w]) \in Nat /\ Len(documents'[w]) \in Nat
        /\ Len(documents[w]) <= MaxPushes /\ Len(documents'[w]) <= MaxPushes
        /\ conf[w] <= Len(documents[w]) /\ conf'[w] <= Len(documents'[w])
    BY BoundsAssumption DEF DocInv
  <2> QED
    BY <2>1 DEF Marks
<1>2. 0 \in Marks /\ None \in Marks
  BY BoundsAssumption DEF Marks
<1>3. CASE GetGraph(r)
  <2>1. Model(r) \in Workflows
    BY <1>3, AcceptedModel DEF GetGraph, Active
  <2> QED
    BY <1>0, <1>1, <1>3, <2>1, Served
<1>4. CASE CallLlm(r)
  <2>1. Model(r) \in Workflows
    BY <1>4, AcceptedModel DEF CallLlm, Active
  <2>2. Llm(Model(r)) \in Marks
    BY <1>1, <1>2, <2>1 DEF Llm
  <2> QED
    BY <1>0, <1>4, <2>2, Served
<1> QED
  BY <1>0, <1>2, <1>3, <1>4, NotedOnce

\* The variables keep their types, and there is a checkpointer handle only while
\* its store is open.
THEOREM TypeOKCorrect == Spec => []TypeOK
<1>1. ReqInv /\ RetryInv /\ StageInv /\ OpenInv /\ StoreInv /\ DocInv /\ HandleInv /\ TypedInv
      => TypeOK
  <2> SUFFICES ASSUME ReqInv, RetryInv, StageInv, OpenInv, StoreInv, DocInv, HandleInv, TypedInv
               PROVE  TypeOK
    OBVIOUS
  <2>1. conf \in [Workflows -> 0..MaxPushes]
    <3>1. ASSUME NEW w \in Workflows PROVE conf[w] \in 0..MaxPushes
      <4>1. /\ conf[w] \in Nat /\ MaxPushes \in Nat /\ Len(documents[w]) \in Nat
            /\ conf[w] <= Len(documents[w]) /\ Len(documents[w]) <= MaxPushes
        BY BoundsAssumption DEF DocInv
      <4> QED
        BY <4>1
    <3> QED
      BY <3>1 DEF DocInv
  <2>2. phase \in Early \union Late \union {"serving", "draining"}
    BY DEF StageInv
  <2>3. open \subseteq {"root", "saver", "http"} \union Workflows
    BY DEF OpenInv, DocInv
  <2>4. ASSUME NEW r \in Requests
        PROVE  /\ request[r].st \in {"idle", "accepted", "ready", "running", "done"}
               /\ request[r].of \in Requests \union {None}
               /\ request[r].stream \in BOOLEAN /\ request[r].left \in BOOLEAN
               /\ {request[r].since, request[r].llm} \subseteq 0..MaxPushes \union {None}
               /\ request[r].status \in {None, 200, 400, 401, 422, 500, 502, 504}
    BY DEF ReqInv, ReqOK, RetryInv, TypedInv, Statuses, Marks
  <2> QED
    BY <2>1, <2>2, <2>3, <2>4 DEF TypeOK, HandleInv, StoreInv, DocInv, Early, Late
<1>2. Spec => []RetryInv
  BY ReqCorrect, RetryInit, RetryNext, PTL DEF Spec
<1>3. Spec => []HandleInv
  BY StoreCorrect, HandleInit, HandleNext, PTL DEF Spec
<1>4. Spec => []TypedInv
  BY ReqCorrect, DocCorrect, TypedInit, TypedNext, PTL DEF Spec
<1> QED
  BY <1>1, <1>2, <1>3, <1>4, ReqCorrect, LifeCorrect, StoreCorrect, DocCorrect, PTL
===============================================================================
