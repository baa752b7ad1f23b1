---------------------------- MODULE RequestContext ----------------------------
(***************************************************************************)
(* How a request to /v1/chat/completions becomes a run: who may call, which *)
(* workflow the model names, and the thread on which the run is kept.      *)
(*                                                                         *)
(* The value of a header is the sequence of its pieces: the marks that     *)
(* thread_id joins its fields with, where the value holds them, and the    *)
(* stretches between them.  A header that is missing or blank is None.     *)
(***************************************************************************)
EXTENDS Naturals, Sequences, SequencesExt

CONSTANTS
    Workflows,   \* the workflows of the registry
    SysCodes,    \* api.auth.sys_codes
    Uuid,        \* the session id that is made up for each request
    Pieces,      \* what a text is made of: the marks, names and stretches between
    None

Text == Seq(Pieces)

ASSUME NoneAssumption == None \notin {200, 400, 401, 422, 500, 502, 504} /\ None \notin Text
ASSUME PiecesAssumption ==
    Workflows \union {"workflow=", "|sys_code=", "|user_id=", "|session_id=",
                      "default-system", "-"} \subseteq Pieces

OrElse(value, default) == IF value = None THEN default ELSE value

Unauthorized(auth, ask) == auth /\ ask.sys_code \notin SysCodes

\* Mutant: the route is resolved before the caller is checked.
RefusalRouteFirst(auth, ask) ==
    CASE ~ask.valid -> 422
      [] ask.valid /\ ask.model \notin Workflows -> 400
      [] ask.valid /\ ask.model \in Workflows /\ Unauthorized(auth, ask) -> 401
      [] OTHER -> None

\* The status of a request that never becomes a run: its body is validated, then
\* the caller is checked, then the model.
Refusal(auth, ask) ==
    CASE ~ask.valid -> 422
      [] ask.valid /\ Unauthorized(auth, ask) -> 401
      [] ask.valid /\ ~Unauthorized(auth, ask) /\ ask.model \notin Workflows -> 400
      [] OTHER -> None

Context(r, ask) ==
    [workflow |-> ask.model,
     sys_code |-> OrElse(ask.sys_code, <<"default-system">>),
     user_id |-> ask.user_id,
     session_id |-> OrElse(ask.session_id, Uuid[r])]

\* Mutant: the thread of a session, whoever's it is.
ThreadIdSession(ctx) == ctx.session_id

\* The values are joined as they are, the marks they hold included.
ThreadId(ctx) ==
    <<"workflow=", ctx.workflow, "|sys_code=">> \o ctx.sys_code \o
    <<"|user_id=">> \o OrElse(ctx.user_id, <<"-">>) \o <<"|session_id=">> \o ctx.session_id

\* The status of a run that failed before anything was sent.
FailureStatus(outcome) ==
    CASE outcome = "timeout"  -> 504
      [] outcome = "upstream" -> 502
      [] outcome = "error"    -> 500

\* Mutant: the answer to a failure repeats the session id of the request.
ReportedAsAsked(status, ask, ctx) ==
    IF status = 200 THEN ctx.session_id ELSE ask.session_id

\* The session id an answer names: the one of the run, if there was to be one.
Reported(status, ask, ctx) ==
    IF status \in {400, 401, 422} THEN ask.session_id ELSE ctx.session_id
===============================================================================
