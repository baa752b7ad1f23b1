-------------------------------- MODULE Worker --------------------------------
(***************************************************************************)
(* One worker process: build_container loads the root config, opens the    *)
(* HTTP client and loads a config provider per configured workflow; the    *)
(* lifespan opens the checkpointer; requests are checked, routed and run   *)
(* on graphs that are built on demand and kept; the lifespan closes        *)
(* everything when the server has drained its connections.                 *)
(*                                                                         *)
(* dynamic_config (external): a provider holds the document it loaded and, *)
(* while it watches it, the newer ones that are pushed; with no settings,  *)
(* or no Nacos to reach, it holds its local file.  uvicorn (external):     *)
(* before the lifespan ends it waits for the responses it owes, up to a    *)
(* time; runs whose client has left are not among them.                    *)
(***************************************************************************)
EXTENDS RequestContext, FiniteSetsExt

INSTANCE WorkflowConfig

CONSTANTS
    MaxRequests,   \* bound: the requests to this process
    MaxPushes,     \* bound: the documents pushed for a workflow
    Pushed,        \* bound: the workflows whose documents are pushed
    Conversations, \* the workflows that keep their messages
    Asks,          \* what clients send
    Deployments    \* the configurations of the process

Requests == 1..MaxRequests

ASSUME BoundsAssumption == {MaxRequests, MaxPushes} \subseteq Nat
ASSUME PushedAssumption == Pushed \subseteq Workflows /\ Conversations \subseteq Workflows
ASSUME UuidAssumption == Uuid \in [Requests -> Text]
ASSUME AsksAssumption ==
    \A ask \in Asks :
        /\ ask = [valid |-> ask.valid, model |-> ask.model, sys_code |-> ask.sys_code,
                  user_id |-> ask.user_id, session_id |-> ask.session_id]
        /\ {ask.sys_code, ask.user_id, ask.session_id} \subseteq Text \union {None}

VARIABLES
    deployment,
    phase,
    open,      \* what is to be closed: watches, the checkpointer, the HTTP client
    registry,  \* _providers: the workflows that have a config provider
    documents, \* has each document pushed for a workflow an llm section?
    conf,      \* the document a provider holds; 0 is the local file
    handle,    \* is there a checkpointer handle?
    graphs,    \* _graph_cache: "none", "bare" or "saving" (compiled with a saver)
    request

config  == <<registry, documents, conf>>
vars    == <<deployment, phase, open, config, handle, graphs, request>>

Stores   == {"redis", "mysql", "mongodb"}

Idle == [st |-> "idle", ask |-> None, of |-> None, stream |-> FALSE, left |-> FALSE,
         thread |-> None, since |-> None, llm |-> None, status |-> None,
         session_id |-> None]

Init ==
    /\ deployment \in Deployments
    /\ phase = "loading"
    /\ open = {"http", "root"}
    /\ registry = {} /\ documents = [w \in Workflows |-> <<>>]
    /\ conf = [w \in Workflows |-> 0]
    /\ handle = FALSE
    /\ graphs = [w \in Workflows |-> "none"]
    /\ request = [r \in Requests |-> Idle]

------------------------------------------------------------------------------
(* Config providers.                                                       *)

\* The provider of w loads its document and watches it, or its local file.
Opened(w) ==
    LET watch == IF Settings(deployment.config, w) # None
                 THEN {w} \intersect deployment.reachable ELSE {}
    IN  /\ open' = open \union watch
        /\ conf' = [conf EXCEPT ![w] = IF watch = {} THEN 0 ELSE Len(documents[w])]

\* Mutant: the provider is handed out and not kept.
ProvideUnkept(w) ==
    IF w \in registry THEN UNCHANGED <<open, config>>
    ELSE Opened(w) /\ UNCHANGED <<registry, documents>>

\* get_provider: the one there is, or a new one.
Provide(w) ==
    IF w \in registry THEN UNCHANGED <<open, config>>
    ELSE Opened(w) /\ registry' = registry \union {w} /\ UNCHANGED documents

Items == DOMAIN deployment.config.items

\* refresh_all, one provider after the other.
Load(w) ==
    /\ phase = "loading" /\ w \in Items \ registry
    /\ Opened(w) /\ registry' = registry \union {w}
    /\ UNCHANGED <<deployment, phase, documents, handle, graphs, request>>

\* A config that cannot be loaded ends the process before it serves.
LoadFails ==
    /\ phase = "loading"
    /\ phase' = "failed"
    /\ UNCHANGED <<deployment, open, config, handle, graphs, request>>

\* Someone publishes a document for w, with or without an llm section.
Push(w) ==
    /\ Len(documents[w]) < MaxPushes
    /\ \E llm \in BOOLEAN : documents' = [documents EXCEPT ![w] = Append(@, llm)]
    /\ UNCHANGED <<deployment, phase, open, registry, conf, handle, graphs, request>>

\* The watch brings the latest document.
Refresh(w) ==
    /\ w \in open /\ conf[w] < Len(documents[w])
    /\ conf' = [conf EXCEPT ![w] = Len(documents[w])]
    /\ UNCHANGED <<deployment, phase, open, registry, documents, handle, graphs, request>>

------------------------------------------------------------------------------
(* Start.                                                                  *)

Start ==
    /\ phase = "loading" /\ Items \subseteq registry
    /\ phase' = "starting"
    /\ UNCHANGED <<deployment, open, config, handle, graphs, request>>

\* Mutant: the process serves before its store is set up.
OpenStoreEager ==
    /\ phase = "starting" /\ deployment.backend \in Stores \union {"null", "memory"}
    /\ open' = IF deployment.backend \in Stores THEN open \union {"saver"} ELSE open
    /\ phase' = "serving"
    /\ handle' = (deployment.backend \notin {"null", "mysql"})
    /\ UNCHANGED <<deployment, config, graphs, request>>

\* build_checkpointer; the memory saver has nothing to close.
OpenStore ==
    /\ phase = "starting" /\ deployment.backend \in Stores \union {"null", "memory"}
    /\ open' = IF deployment.backend \in Stores THEN open \union {"saver"} ELSE open
    /\ phase' = IF deployment.backend = "mysql" THEN "setup" ELSE "serving"
    /\ handle' = (deployment.backend \notin {"null", "mysql"})
    /\ UNCHANGED <<deployment, config, graphs, request>>

SetUp ==
    /\ phase = "setup"
    /\ phase' = "serving" /\ handle' = TRUE
    /\ UNCHANGED <<deployment, open, config, graphs, request>>

\* An unknown backend, a setting that is missing, a store that is out of reach
\* or cannot be set up: the process ends and closes nothing.
StartFails ==
    /\ phase \in {"starting", "setup"} /\ deployment.backend \notin {"null", "memory"}
    /\ phase' = "failed"
    /\ UNCHANGED <<deployment, open, config, handle, graphs, request>>

------------------------------------------------------------------------------
(* Requests.                                                               *)

process == <<deployment, phase, handle>>

\* The lifespan or the server's loop has not ended.
Alive == phase \in {"serving", "draining", "closing configs", "closing http"}

Model(r) == request[r].ask.model

\* The request is refused, or gets its context and waits for its graph.
Arrive(r, ask, of, stream) ==
    LET status == Refusal(deployment.auth, ask)
    IN  /\ phase = "serving"
        /\ request[r].st = "idle" /\ \A s \in 1..(r - 1) : request[s].st # "idle"
        /\ request' = [request EXCEPT ![r] =
             IF status = None
             THEN [Idle EXCEPT !.st = "accepted", !.ask = ask, !.of = of,
                               !.stream = stream, !.thread = ThreadId(Context(r, ask))]
             ELSE [Idle EXCEPT !.st = "done", !.ask = ask, !.of = of, !.status = status,
                               !.session_id = Reported(status, ask, Context(r, ask))]]
        /\ UNCHANGED <<process, open, config, graphs>>

Ask(r) == \E ask \in Asks, stream \in BOOLEAN : Arrive(r, ask, None, stream)

\* A client sends its request again, under the session id it was told.
Repeat(r, s) ==
    /\ s < r /\ request[s].st = "done" /\ ~request[s].left
    /\ Arrive(r, [request[s].ask EXCEPT !.session_id = request[s].session_id], s,
              request[s].stream)

\* The status and the session id reach the client, before the run ends if st is
\* not "done".
Respond(r, st, status) ==
    request' = [request EXCEPT
        ![r].st = st, ![r].status = status,
        ![r].session_id = Reported(status, request[r].ask, Context(r, request[r].ask))]

\* _get_graph, which keeps what it builds: the first thing a run does.
GetGraph(r) ==
    LET w == Model(r)
    IN  /\ Alive /\ request[r].st = "accepted"
        /\ IF graphs[w] # "none" THEN UNCHANGED <<open, config, graphs>>
           ELSE /\ Provide(w)
                /\ graphs' = [graphs EXCEPT ![w] = IF handle THEN "saving" ELSE "bare"]
        /\ request' = [request EXCEPT ![r].st = "ready", ![r].since = conf'[w]]
        /\ UNCHANGED process

\* Mutant: resolve_workflow_llm remembers its result.
LlmRemembered(w) ==
    LET earlier == {r \in Requests : request[r].llm # None /\ Model(r) = w}
    IN  IF earlier # {} THEN request[Min(earlier)].llm
        ELSE IF conf[w] > 0 /\ documents[w][conf[w]] THEN conf[w] ELSE 0

\* The document whose llm section a run uses: the provider's, or the local file
\* when that has none.
Llm(w) == IF conf[w] > 0 /\ documents[w][conf[w]] THEN conf[w] ELSE 0

\* A conversation reads its history, and every graph with a saver uses it.
StateRead(w) ==
    /\ w \in Conversations => graphs[w] = "saving"
    /\ graphs[w] = "saving" /\ deployment.backend \in Stores => "saver" \in open

\* The graph loads its state and its node resolves its LLM.
CallLlm(r) ==
    /\ Alive /\ request[r].st = "ready"
    /\ StateRead(Model(r)) /\ (Llm(Model(r)) = 0 => deployment.local_llm)
    /\ request' = [request EXCEPT ![r].st = "running", ![r].llm = Llm(Model(r))]
    /\ UNCHANGED <<process, open, config, graphs>>

\* The first chunk of a stream decides its status.
Open(r) ==
    /\ Alive /\ request[r].st = "running"
    /\ request[r].stream /\ ~request[r].left /\ request[r].status = None
    /\ Respond(r, "running", 200)
    /\ UNCHANGED <<process, open, config, graphs>>

\* The client of a stream leaves and its run goes on.
Leave(r) ==
    /\ Alive /\ request[r].st = "running" /\ request[r].status = 200
    /\ ~request[r].left
    /\ request' = [request EXCEPT ![r].left = TRUE]
    /\ UNCHANGED <<process, open, config, graphs>>

\* The run ends; what it would answer is decided unless its stream is open.
End(r, status) ==
    /\ IF request[r].left \/ request[r].status = 200
       THEN request' = [request EXCEPT ![r].st = "done"]
       ELSE Respond(r, "done", status)
    /\ UNCHANGED <<process, open, config, graphs>>

Answer(r) ==
    /\ Alive /\ request[r].st = "running" /\ StateRead(Model(r))
    /\ End(r, 200)

\* The LLM call, or saving the state, fails.
Fail(r) ==
    /\ Alive /\ request[r].st = "running"
    /\ \E outcome \in {"timeout", "upstream", "error"} : End(r, FailureStatus(outcome))

\* No graph, because its provider cannot be loaded, no history or no LLM.
Break(r) ==
    /\ Alive
    /\ \/ request[r].st = "accepted" /\ graphs[Model(r)] = "none"
          /\ Model(r) \notin registry
       \/ request[r].st = "ready" /\ ~StateRead(Model(r))
       \/ request[r].st = "ready" /\ Llm(Model(r)) = 0 /\ ~deployment.local_llm
    /\ End(r, FailureStatus("error"))

------------------------------------------------------------------------------
(* Shutdown.                                                               *)

\* The server gets its signal and takes no more requests.
Shutdown ==
    /\ phase = "serving"
    /\ phase' = "draining"
    /\ UNCHANGED <<deployment, open, config, handle, graphs, request>>

Owed == {r \in Requests : request[r].st \in {"accepted", "ready", "running"}
                            /\ ~request[r].left}

\* The server waits no longer: calls are cancelled, the runs of streams go on.
\* asyncio: the loop has taken the first step of every run that was created.
GiveUpDraining ==
    /\ phase = "draining" /\ Owed # {}
    /\ \A r \in Requests : request[r].st # "accepted"
    /\ request' = [r \in Requests |->
         IF r \notin Owed THEN request[r]
         ELSE IF request[r].stream THEN [request[r] EXCEPT !.left = TRUE]
         ELSE [request[r] EXCEPT !.st = "done", !.left = TRUE]]
    /\ UNCHANGED <<process, open, config, graphs>>

\* Mutant: the handle of the closed store is kept.
StopRuntimeKeepsHandle ==
    /\ phase = "draining" /\ Owed = {}
    /\ phase' = "closing configs" /\ open' = open \ {"saver"}
    /\ UNCHANGED <<deployment, config, handle, graphs, request>>

\* WorkflowRuntime.stop: closes the checkpointer, and may raise.
StopRuntime ==
    /\ phase = "draining" /\ Owed = {}
    /\ \/ phase' = "closing configs" /\ open' = open \ {"saver"} /\ handle' = FALSE
       \/ /\ "saver" \in open
          /\ phase' = "broken" /\ UNCHANGED <<open, handle>>
    /\ UNCHANGED <<deployment, config, graphs, request>>

\* Mutant: the pullers of the watches are joined without a limit.
CloseConfigsJoining ==
    /\ phase = "closing configs" /\ deployment.stuck = "none"
    /\ phase' = "closing http"
    /\ open' = open \ (registry \union {"root"}) /\ registry' = {}
    /\ UNCHANGED <<deployment, documents, conf, handle, graphs, request>>

\* The registry's providers, the root's, and the traces that are left; nothing
\* here raises.  A puller is waited for a limited time, a callback without a limit.
CloseConfigs ==
    /\ phase = "closing configs" /\ deployment.stuck # "callback"
    /\ phase' = "closing http"
    /\ open' = open \ (registry \union {"root"}) /\ registry' = {}
    /\ UNCHANGED <<deployment, documents, conf, handle, graphs, request>>

CloseHttp ==
    /\ phase = "closing http"
    /\ phase' = "stopped" /\ open' = open \ {"http"}
    /\ UNCHANGED <<deployment, config, handle, graphs, request>>

Serve(r) == GetGraph(r) \/ CallLlm(r) \/ Open(r) \/ Answer(r) \/ Fail(r) \/ Break(r)

Next ==
    \/ \E w \in Workflows : Load(w) \/ Refresh(w)
    \/ \E w \in Pushed : Push(w)
    \/ LoadFails \/ Start \/ OpenStore \/ SetUp \/ StartFails
    \/ \E r \in Requests :
         Ask(r) \/ (\E s \in Requests : Repeat(r, s)) \/ Serve(r) \/ Leave(r)
    \/ Shutdown \/ GiveUpDraining \/ StopRuntime \/ CloseConfigs \/ CloseHttp

Spec == Init /\ [][Next]_vars

\* Calls end while their client waits; nothing is assumed of runs whose client
\* has left.
FairSpec ==
    /\ Spec
    /\ WF_vars(StopRuntime \/ CloseConfigs \/ CloseHttp)
    /\ \A r \in Requests : WF_vars(~request[r].left /\ Serve(r))

------------------------------------------------------------------------------
(* Properties.                                                             *)

\* Type invariant of the process and its requests; a checkpointer handle means a
\* store that is open.
TypeOK ==
    /\ deployment \in Deployments
    /\ phase \in {"loading", "starting", "setup", "serving", "draining",
                  "closing configs", "closing http", "stopped", "broken", "failed"}
    /\ registry \subseteq Workflows
    /\ open \subseteq {"root", "saver", "http"} \union Workflows
    /\ documents \in [Workflows -> Seq(BOOLEAN)]
    /\ conf \in [Workflows -> 0..MaxPushes]
    /\ handle \in BOOLEAN
    /\ handle /\ deployment.backend \in Stores => "saver" \in open
    /\ graphs \in [Workflows -> {"none", "bare", "saving"}]
    /\ \A r \in Requests :
         /\ request[r].st \in {"idle", "accepted", "ready", "running", "done"}
         /\ request[r].of \in Requests \union {None}
         /\ request[r].stream \in BOOLEAN /\ request[r].left \in BOOLEAN
         /\ {request[r].since, request[r].llm} \subseteq 0..MaxPushes \union {None}
         /\ request[r].status \in {None, 200, 400, 401, 422, 500, 502, 504}

\* What was opened, also on demand, is closed when the process has stopped.
AllClosed == phase = "stopped" => open = {}

\* A caller who is not allowed is told so, whatever model its valid body names, and
\* a graph is built only when a request for it was accepted.  CHANGELOG.md: "returning 401
\* invalid_sys_code for missing or unauthorized callers".
CallersFirst ==
    /\ \A r \in Requests :
         request[r].ask # None /\ request[r].ask.valid
            /\ Unauthorized(deployment.auth, request[r].ask)
         => request[r].status = 401
    /\ \A w \in Workflows : graphs[w] # "none" =>
         \E r \in Requests : request[r].thread # None /\ Model(r) = w

SysCode(ask) == OrElse(ask.sys_code, <<"default-system">>)
UserId(ask)  == OrElse(ask.user_id, <<"-">>)

\* Whose session a request is in, and which.
Session(r) ==
    LET ask == request[r].ask
    IN  [model |-> ask.model, sys_code |-> SysCode(ask), user_id |-> UserId(ask),
         session_id |-> OrElse(ask.session_id, Uuid[r])]

\* Where the sys_code and the user id end can be read from the thread: neither holds
\* the mark of the field that follows it.
Separable(ask) ==
    "|user_id=" \notin ToSet(SysCode(ask)) /\ "|session_id=" \notin ToSet(UserId(ask))

\* One session of one caller on one workflow has one thread; and no other has it,
\* unless a sys_code holds the mark of the user id, or a user id that of the session
\* id, which the code does not look for.  CHANGELOG.md: "isolate persisted state by workflow + sys_code +
\* user-id + session-id".
OwnThread ==
    \A r, s \in {q \in Requests : request[q].thread # None} :
        /\ Session(r) = Session(s) => request[r].thread = request[s].thread
        /\ Separable(request[r].ask) /\ Separable(request[s].ask)
              /\ request[r].thread = request[s].thread
           => Session(r) = Session(s)

\* A request that is sent again under the session id its answer named, whatever
\* the answer was, goes on on the thread of the first one.
RetryKeepsThread ==
    \A r \in Requests : request[r].of # None /\ request[request[r].of].thread # None =>
        request[r].thread = request[request[r].of].thread

\* The graph of a request somebody waits for saves in the store of the deployment,
\* which is open until the last of them is answered.
RunsOnOpenStore ==
    \A r \in Owed : request[r].st # "accepted" /\ deployment.backend # "null" =>
        /\ graphs[Model(r)] = "saving"
        /\ deployment.backend \in Stores => "saver" \in open

\* A run uses the documents its provider had when it began, or newer ones, and the
\* local file only in place of one without an llm section.  docs/design.md: "once
\* config changes are refreshed, subsequent reads see the updated values".
FreshConfig ==
    \A r \in Requests : request[r].llm # None =>
        \/ request[r].llm >= request[r].since
        \/ /\ request[r].llm = 0
           /\ \E v \in request[r].since..Len(documents[Model(r)]) : ~documents[Model(r)][v]

\* No two workflows watch one document unless the deployment names it for one of
\* them.  docs/design.md: "each workflow gets isolated config".
OwnDocument ==
    LET cfg == deployment.config
        Named(w) == Names(Item(cfg, w), "data_id") \/ Names(cfg.defaults, "data_id_template")
    IN  \A v, w \in open \intersect Workflows :
          v # w /\ DataId(cfg, v) = DataId(cfg, w) => Named(v) \/ Named(w)

\* A shutdown comes to its end although runs without a client, or the puller of a
\* watch, do not; a callback of a watch has to return.
ShutdownEnds ==
    phase = "draining" /\ deployment.stuck # "callback" ~> phase \in {"stopped", "broken"}
===============================================================================
