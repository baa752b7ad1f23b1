# Verification of langgraph-agent-starter

TLA+ modules about the parts of this repository whose behaviour depends on the
order in which things happen: how a chat completion is streamed, how a request
becomes a turn of a persisted conversation on one of several workers, how a draft
is reviewed by a human, how the upstream LLM is called, and how a worker process
gets its configuration, serves and stops. TLC checks them on small instances;
TLAPS proves every safety property, action property and refinement that a passing
run checks for every value of the constants; only liveness is left to TLC.

Paths below are relative to the repository; `runtime.py` is
`src/infrastructure/persistence/runtime.py`, `gateway.py` is
`src/infrastructure/llm/gateway.py`, `client.py` is
`src/infrastructure/http/client.py`.

## The system

A FastAPI service with one interesting endpoint, `POST /v1/chat/completions`. A
request names a workflow (`model`), which is a LangGraph graph with a
checkpointer; the runtime invokes the graph, whose nodes call an LLM through a
gateway that also forwards what the LLM streams to the HTTP client. gunicorn
starts several such processes.

| component | state | operations | talks to | hard behaviour | what makes it correct |
|---|---|---|---|---|---|
| Router (`app/api/routers/openai.py`) | none; the response's status | resolve the context, first chunk, stream, JSON answers and errors | chat service, runtime generator | the status is fixed by the first chunk; a client may leave | an error status only before the first chunk; a stream always has one |
| Runtime, streaming (`stream`) | queue, `passthrough_mode`, terminal events held back, a task | poll loop, closing chunks | the task (queue), the router (generator) | two tasks of one event loop; cancelled polls; late errors; events of several data lines | nothing lost or reordered but terminal events; the end comes after the run's |
| Runtime, runs (`run_once`) | none of its own | history merge and reuse, fresh run, resume, interrupt | LangGraph, checkpointer | read, await, write on a shared thread | a replay adds nothing; the answer is the question's |
| Gateway (`gateway.py`) | lines of the event being read, the first error | mock and OpenAI-compatible streaming | HTTP client, stream writer (context variable) | error chunks and [DONE] inside a stream | forwarded first, read second; an error fails the run |
| HTTP client (`client.py`) | connection pool | `request`, `stream`, retry, `aclose` | httpx, tenacity | retries, error bodies, timeouts | bounded attempts; nothing resent once seen; nothing left open |
| demo-chat | `messages` of a thread | one node | gateway | overlapping runs, failed runs, answers without a text, dying workers | the history is a conversation and grows at its end |
| demo-hitl | draft and final text of a thread | draft, interrupt, review | gateway | lost, repeated and overlapping reviews, reviews that are no string | the review decides, about the draft that was shown; nothing unreviewed becomes final |
| demo-summary | summary | one node | gateway | none of its own | as any run |
| Context and routing (`application/`, `domain/`) | none | check the caller, route, name the thread, report the session | registry | refused, defaulted and repeated requests | one thread per workflow, system, user and session |
| Lifecycle (`lifespan.py`, `container.py`, `start`/`stop`) | checkpointer handle, graph cache | load, start, serve, drain, close | everything | a step that fails, runs still going | a waiting client's run has its store; everything is closed |
| Checkpointer backends (`checkpointer.py`) | the opened store | memory, redis, mysql, mongodb, null | external stores | opening or setup that fails | a handle or no service |
| Workflow configuration (`config/`) | provider per workflow, its document | settings from four layers, `refresh_all`, `get_provider`, `close` | Nacos through dynamic_config (external) | documents replaced under a run; providers built on demand | runs use no older document than they began with; a workflow reads its own |
| Logging, request ids, Langfuse, health, scripts | context variables | – | – | none | – |

`PROJECT.json` lists the same parts with what is modelled of each, and, under
`hazards`, what can go wrong in this code that a test would hardly reach, with
the properties that watch it.

## Modules

    SeqParts           the part of a sequence that is in a set
                       (for StreamRelay and ChatThread)
    SseEvents          events as the gateway, the relay and a client read them
      ClientStream     what a streaming client is promised       (abstract)
      StreamRelay      task, queue, generator and router         (detailed)
        MCStreamRelay, StreamRelayProofs
    MessagesDelta      the history merge, a pure function
      MessagesDeltaProofs
      MCMessagesDelta, MCMessagesDeltaProofs
      ChatThread       one conversation, its workers and its client
        ChatThreadProofs
    Conversation       what a persisted conversation promises    (abstract)
    HitlReview         one review thread and its client
      HitlReviewProofs
    HttpClient         one call with retry
      HttpClientProofs
    RequestContext     callers, routes, threads and reported sessions
    WorkflowConfig     the settings of a workflow's provider
      Worker           one process from its start to its end (both of these)
        MCWorker, WorkerProofs
    InductionFacts     a smallest counterexample, for numbers and sequences
                       (for StreamRelayProofs, MessagesDeltaProofs and WorkerProofs)

Definitions named `...Early`, `...Bare`, `...Forgets` and the like, each under a
comment that starts with "Mutant:", are faulty variants of the definition that
follows them. They are no part of a specification: each documents a mistake
that one of the properties detects.

The modules meet at single operations. A request that `Worker` accepts and runs
(`CallLlm` to `End`) is one run of `ChatThread` or `HitlReview`, whose steps on
the checkpoint `Worker` leaves out; when it streams, it is one `StreamRelay`; its
LLM call is `Connect` or `ConnectFails` there, which is one completed call of
`HttpClient`. The thread those modules speak of is the one `RequestContext`
names.

### StreamRelay, SseEvents, ClientStream

`StreamRelay` is one streaming completion. Its two processes are the ones of
the code: the **task** that `stream()` creates for `run_once`
(`phase`, `result`, `stream_error`, `answer`; actions `Connect`, `StoredAnswer`,
`ConnectFails`, `UpstreamEvent`, `MockToken`, `BodyEnds`, `BodyFails`,
`RunEnds`), and the **generator** together with the router that drives it
(`pc`, `passthrough_mode`, `pending_terminal_events`, `streamed_chunk_count`,
`tail`, `out`, `status`; actions `Poll`, `PollTimeout`, `HoldFrame`,
`RelayFrame`, `Settle`, `SendTail`, `Close`, `Disconnect`). They share `queue`.
An action runs from one await that can suspend to the next, as asyncio does.
`emitted` is a history variable: every frame the task put on the queue.

* `Poll` is the test `task.done() and queue.empty()` with the call of
  `wait_for`; the frame, or the 50 ms timeout, comes in a later step, between
  which the task may do anything. The timeout may come together with a frame,
  which then stays in the queue: a cancelled `get()` takes nothing.
* `UpstreamEvent` is `_consume_stream_payload`: the raw event is put on the
  queue first and read afterwards, so that an event with an error chunk is
  relayed although its run will fail.
* `Settle` is what follows the loop: `await task`, and either the exception
  (raised, or swallowed when raw events were relayed) or the chunks of
  `Closing`, which `SendTail` yields one by one.
* `Disconnect` cancels the generator while it waits or yields. `CancelledError`
  is not an `Exception`, so the task is not cancelled: it has no such action.
  Only `StreamingResponse` listens for a disconnect, hence `status = 200`.

The data are abstract. An event is the sequence of its non-empty `data:` lines, a line
one of eight payloads; text is counted in pieces, so that the properties can tell
whether a piece was lost or came twice. A mock stream and a raw stream are told
apart by `provider`, as in the code; `"stored"` stands for the runs that call no
LLM (a replayed turn, a resumed review). `"other"` stands for any exception
that is not one of the two HTTP client errors.

Three readers look at an event, and do not see the same of it. The gateway and a
client read every data line; the relay classifies an event by its **first** one
(`_sse_data_payload`). So there are two notions of an event that closes the answer:
`Terminal(e)`, which is the relay's and part of its actions, and `Closes(e)`, which is
what a client meets: finish or [DONE] on whichever line. The properties are stated
with `Closes` and `Stops`, and where an upstream that puts a closing line
behind another one refutes them they say so with a premise, `ClosersLead`: what
closes the answer does so in its first line. The instance has upstreams of both
kinds. What happens without the premise is the run `stream_glued`: the event is
relayed at once, before the run has ended, and in a review before tool_calls.
`RelayComplete`, `FramesConserved`, `AnswerStreamed` and `ErrorBeforeFirstChunk` need
no premise. `RelayComplete` says what became of every frame of a raw stream, also of
the draft of a review, of which all is relayed but the terminal events, in whose place
the runtime writes its own.

`EndsAfterRun` is what a client relies on that sends its next question as soon as
it reads finish or [DONE]: upstream's comes before the checkpoint of the turn is
saved, and the relay holds it back until the run has ended. When the run fails
after all, what was held back is sent nonetheless, and the turn is not saved; that
happens only where the client has read, or will still read, an error chunk.
`ErrorBeforeFirstChunk` says both halves of the router's decision: an error status
means that no chunk was sent, and an upstream that failed before its first frame
always becomes 502 or 504.

`ClientStream` is the promise: one error status and no event, or status 200 and
events in which only closing ones follow one that closes the answer, and nothing
follows the event of [DONE]. `StreamRelay` implements it with `sent <- out` and
`over <- pc \in Ended`, as long as `ClosersLead` holds (`ImplementsClientStream`).

### MessagesDelta, ChatThread, Conversation

`MessagesDelta` is `_messages_delta` on sequences of values: the code compares
projections of the messages, which are values here. What it is given has been
through `_normalize_request_message`, which drops messages without a text from the
request (`Normalized`), while the thread keeps the empty answer its node saved.
So with `MayBeBlank` an LLM may answer without a text (`Blank`): such an answer is
saved, told to the client, resent by it, dropped, and skipped by
`_last_assistant_text` (`Reusable`, `LastOf`). `ChatThread` is one thread
of demo-chat, the workers that may get its requests, and its client. `run_once`
is cut at its awaits: `ReadState` (`aget_state`, delta, and the reuse of the last
answer), `StartRun` (`ainvoke` loads the checkpoint and saves it with the delta),
`Answer` or `Fail` (the node). `Home` says where a worker keeps the thread: a
`MemorySaver` belongs to its process, the other savers share a store; with
backend null there is no state and `aget_state` raises (`NoState`).
`Crash` is a worker that dies with its memory, its runs and the responses it has
not sent.

The client either resends its transcript (`style = "full"`) or sends only its
question (`"new"`); after an error or a lost connection it may send the same
request again, or move on. A client that `leaves` does so while its run goes on,
so that runs overlap. Every question is asked at most once, so that two equal user
messages are always a duplicate.

What LangGraph does between the awaits is external and stated in the module's
head: a run works on its own copy of the messages, what is saved last is the
thread, and a node that fails leaves what was saved before it.

`Conversation` is the abstract history: a question is posed once, an answer
follows the question it belongs to, nothing is lost, rewritten or moved.
`ImplementsConversation` says that every step of a `ChatThread` on its shared
store is such a step or a stutter, through failed calls and retries, for a client
that waits, that sends its question only, and whose workers live. It holds no
further, and no document promises that it would:

* Overlapping runs save over each other, so a turn can be lost.
* A worker may die after it saved an answer and before it sent it; the client's
  retry of a lone question cannot be told from asking it anew and is appended.
* A client that resends its transcript after an answer without a text has turns
  appended again that the thread has already: what the code compares lacks that
  answer, so the common prefix ends before it. No call has to fail
  (`chat_blank_answer`). `HistoryAgrees` therefore asks of such a client that it has
  met no answer without a text, and nothing of one that sends its question only.
* A client that resends its transcript resends what it was told. After a failed
  question it may hold the wrong answer (`chat_failed_retry`), or it gives the
  question up and its transcript lacks it: then the common prefix ends before the
  failed question, and what the transcript has behind it is appended a second time,
  because the code looks for an overlap only where there is no common prefix.

### HitlReview

One thread of demo-hitl and its client. The client asks, reviews the draft it
sees (`Review` repeats its question, `about`), asks something else instead, and
sends again what was lost. If it `leaves`, it does not wait for a response before it
sends the same request again, so that runs overlap. `Payload` is `_resume_payload`: the last
tool message of the request whose content is a **string**; `Resumes` says that there
is one. A tool message may also hold a list of text parts, or null, which is a list
without a text to the code (`Forms`); it does not resume: the graph starts again, and
drafts about the reviewer's text, for every other reader of messages joins the
parts (`LastText`). `Start`, `Resume` and `ResumeEnded` are the two branches of `run_once` on the state
the thread is in; `Generate` is `generate_draft` followed by the interrupt of
`human_review`, `Finish` is `human_review` with the resume value. A draft carries
its question and the request that made it: the LLM writes another one each
time. With `Resends` the client keeps the tool message of its last review in
what it sends, as a client with a transcript does.

`ReviewDecides` is of the reviews that the code takes for one, those written as a
string, an empty one being an approval (`NoText`). docs/usage.md makes no such
difference (see the end of "Runs"). A draft without a text is left out.

For overlapping requests two properties are left, `QuestionGetsDraft` and
`NothingUnreviewed`. The other two need a client that waits, because an approval
without text finalises the draft the checkpoint holds when the review runs, which
a late run may have replaced; and a reviewer's text that meets a graph which is
drafting again is drafted about, for `generate_draft` takes the last tool or user
text for its prompt.

### HttpClient

One call: `Send`, then a response (`Respond` for `request`; `Headers`, and then
`Open` or `ErrorBody`, for `stream`) or an exception (`SendFails`). `Failed` is
tenacity's decision. `retry.attempts = 0` stands for both 0 and a mapping
without it, which the code does not tell apart. A completed call is `Connect`,
or `ConnectFails` with its error class, of `StreamRelay`. The waits between
attempts are left out.

### RequestContext, WorkflowConfig, Worker

`RequestContext` is what happens to a request before it runs: the check of its body,
of the caller and of the route (`Refusal`, in this order: 422, 401, 400), the context
with its defaults, the thread, and the session id an answer names (`Reported`: the one
of the run also when it failed, the one of the header when the request was refused).

`ThreadId` joins its fields as the code does, values that come from headers and are
neither refused nor escaped. A text is the sequence of its pieces: the marks
`workflow=`, `|sys_code=`, `|user_id=` and `|session_id=` where it holds them, and
the stretches between them. Every value but the last is followed by a mark that
starts with `|`, and every value stands behind one that ends with `=`, so no mark
arises across two values, and two threads are the same sequence exactly when the
code's strings are equal. `OwnThread` says that one session of one caller has one thread,
and that no other has it as long as the values are `Separable`: no sys_code holds
`|user_id=` and no user id holds `|session_id=`. Without that condition it does not
hold, because two different pairs of values can then join to the same string; the
session id, which comes last, may hold anything, and the workflow is one of the
registry's. The instance has values that hold other marks. A
caller without a user id and one that calls itself `-` are one caller to the code,
and to `Session`.

`WorkflowConfig` is `_resolve_nacos_settings` on layers that are partial functions
from fields to values: the difference between a field that is missing and one that
is null decides `enabled` and nothing else, as in the code. A `data_id`, a template or
a group that is blank counts as missing (`Names`), and so does a template that is no
string.

`Worker` is a process with a `deployment`: its backend, whether callers are
checked, whether the local file has an LLM, the Nacos servers that can be reached,
what of a watch hangs when it is closed (`stuck`: nothing, a puller or a callback), and
its layers of configuration.

| phase | actions | code |
|---|---|---|
| loading | `Load`, `LoadFails`, `Start` | `build_container`: root config, HTTP client, `refresh_all` |
| starting, setup | `OpenStore`, `SetUp`, `StartFails` | `WorkflowRuntime.start`, `build_checkpointer` |
| serving | `Ask`, `Repeat`, and for each request `GetGraph`, `CallLlm`, `Open`, `Answer`, `Fail`, `Break`, `Leave` | router, chat service, `_get_graph`, a node |
| draining | the same for the requests there are, `GiveUpDraining` | uvicorn (external) |
| closing configs, closing http, stopped | `StopRuntime`, `CloseConfigs`, `CloseHttp`; runs without a client go on between them | `lifespan`'s `finally` |
| broken, failed | none | an exception in `stop`, or before the process serves |

`Push` and `Refresh` are the outside of dynamic_config: a document that somebody
publishes, and the watch that brings it. `request[r].since` is a history variable,
the document the provider held when the run began; `llm` is the one its LLM came
from. `since` and `llm` are positions in `documents[w]`, 0 is the local file.

* `GiveUpDraining` waits until no run is "accepted". A streaming run is a task that
  asyncio puts in its ready queue when it is created, behind what is there
  already and before the timer of the shutdown can fire, and `_get_graph`
  comes before its first await.
* `CloseConfigs` does not wait for a puller that hangs: the threads are joined with a
  limit of 1.2 s (`provider_cleanup.py:48`). The pool of a watch's callbacks is joined
  without one (`:64`): with `stuck = "callback"` the step never comes, and
  `ShutdownEnds` excludes that case. The mutant waits for the puller as well. The
  flush of the traces, which belongs to the same phase, is taken to end.
* `CallLlm` reads the LLM's section of a document in one step. The node reads the
  prompts in later calls of `get`, between which a watch may bring another
  document; one run can then use the LLM of one and the prompt of the next. The
  repository does not say that it may not.

## Runs

| run | instance | question and answer |
|---|---|---|
| `stream` | 10 events of 0 to 3 data lines, up to 3 frames, 3 providers, with and without a review | Does the relay lose, duplicate or reorder anything; do the statuses hold; do the ends a client reads come last and after the run's; does every stream end; is `ClientStream` implemented? Yes; the ends, where the upstream's closing lines lead. |
| `delta` | all histories and requests of up to 4 out of 3 messages | Does the merge append exactly what is new? Yes, for whole histories, and for windows without repeated messages. |
| `chat` | 4 requests (2 of a client that leaves), 2 workers, one of which may die, both styles, failing calls, answers without a text, an external store or none | Is the thread what the client saw and a conversation; does it only grow; does a call answer its own request's question; does every request end? Yes, within the conditions of each property. |
| `hitl_review` | 5 requests, 2 questions, 1 edit, reviews as strings and as parts, with and without overlap, failing drafts | Does the review decide, about the draft that was shown, also after lost responses; does nothing unreviewed become final? Yes. |
| `http_call` | error statuses 400, 429 and 500, attempts up to 4 | Are attempts bounded, justified and cleaned up? Yes. |
| `worker` | 2 requests out of 6, one with an invalid body, 2 workflows, 1 pushed document, 4 deployments | Are callers checked and kept apart; do runs have their store and their documents; is everything closed, and does the shutdown end? Yes. |

The other runs show where the code and its documentation disagree, each with
one property that restates the sentence:

| run | says | what the code does |
|---|---|---|
| `stream_glued` | curl_examples.md: "and finally `data: [DONE]`" | an event with [DONE] behind another data line is relayed at once, before tool_calls |
| `chat_failed_retry` | v0.1.3.md: "Request replay is handled safely" | the retry of a failed question gets the previous answer |
| `chat_lost_retry` | v0.1.3.md: "avoids appending duplicate turns" | the retry of a request that still runs appends its question again |
| `chat_blank_answer` | CHANGELOG.md: history "is not appended twice" | an answer without a text is saved but dropped from what a client resends; the turns behind it are appended again |
| `chat_workers` | README.md: "Reusing the same user-id + session-id pair ... continues the chat" | with the memory backend, which the repository's config ships, each of the 8 workers of scripts/run.sh has its own threads |
| `hitl_transcript` | README.md: "Draft generation followed by human review interrupt" | an old tool message turns a new question into a resume |

Six more sentences of the documentation do not describe every case, as reading the
modules shows:

* "the stream terminates with `data: [DONE]`" (usage.md): a raw stream ends as its
  upstream ended it.
* "the first chunk returns `role=assistant`" (usage.md): the chunks the runtime writes
  itself have no role.
* "When `backend: null`, LangGraph persistence is disabled entirely" (v0.1.4.md) reads as
  if requests were served: those for demo-chat fail (`NoState`), because a graph without
  a checkpointer has no state to read.
* "emits real draft content deltas first, then `tool_calls`" (curl_examples.md): text in
  an event that closes the draft's stream, as some servers send it with
  `finish_reason`, is part of the saved draft, held back with that event and dropped
  (`Closing`, and the review's case of `RelayComplete`).
* "previously persisted history is not appended twice" (CHANGELOG.md): a window of the
  history that happens to start with the history's first message is taken for the start
  of it, because the code looks for an overlap only where there is no common prefix.
  This is why `WindowResent` is about messages that do not repeat.
* "place the human-confirmed content in the last `tool` message" (usage.md): content
  that is a list of parts is no review (`Resumes`). The graph drafts again, about the
  confirmed text, and the client has that new draft to review.

### Bounds

* `MaxFrames` bounds the frames of a run. Three frames hold every pattern the
  relay distinguishes: relayed, held back, relayed after held back, an event
  after an error chunk; the queue reaches length 3 with the generator in each of
  its states. `stream` has 48,464 states. The proofs need no bound.
* `chat`, 203,296 states: a failure, its retry, a following turn and that turn's
  retry take four requests; `MaxOverlap = 2` lets a client that leaves overlap one
  request with its own retry, and `MaxCrashes = 1` is one crash at any point of
  them. The runs with one worker and no crash need less.
* `hitl_review`, 1,728,928 states: five requests are a question, its retry, a review,
  its retry and a new question. One edit is enough, for a second one would only be
  another text.
* `worker`, 666,210 states: two requests make every pair of callers, a request and
  its repetition, and one run that has left while another is waited for; one pushed
  document makes the local file, a newer document and one without an LLM. The four
  deployments are a store that needs a setup, a memory saver, no saver with an LLM
  only in Nacos, and an unknown backend, with four shapes of configuration, and a
  watch of which nothing, a puller or a callback hangs.
* `MaxLen = 4` over three messages holds every combination of prefix and overlap
  that `_messages_delta` distinguishes, with repetitions.
* `MaxAttempts = 4` reaches beyond the default of 3 on both sides.
* Runs stop where their bounds, the response or the process end: deadlock is not
  checked.

### Fairness

* `StreamRelay`: weak fairness of the task and of the generator. Both are asyncio
  tasks of one loop, which runs every task that is ready; the generator's poll
  has a timeout of 50 ms, and each read of the upstream one of `timeout`
  milliseconds. Strong fairness of taking a frame: a timeout may win against a
  frame that arrives with it, but the next poll finds that frame in the queue and
  returns it at once. That a body is not endless is the bound `MaxFrames`, not
  fairness. `Disconnect` is never required.
* `ChatThread`: weak fairness of every server run, for the same reasons, and of
  the client reading a response it has. Asking, retrying, leaving and dying are not
  required; a worker that dies fails its requests, as a closed connection does.
* `Worker`: weak fairness of the steps of the shutdown, which are calls in one
  function, except where the callback of a watch never returns, and of a run whose client waits. A run whose client has left may hang
  for good: `ShutdownEnds` holds without it.
  `GiveUpDraining`, the server's own timeout, is not required either.
* `HttpClient` and `HitlReview` state no liveness: what a request waits for is
  `ChatThread`'s and `StreamRelay`'s subject.

## Proofs

All of it is for every value of the constants: any events and numbers of frames,
statuses and attempts, questions, edits and requests, workers and crashes,
workflows, callers and deployments. Two theorems about `ChatThread` (no memory backend)
and three about `HitlReview` (a client that does not resend its transcript) have a
hypothesis of their own, which is named below. The arguments:

`InductionFacts`. The prover cannot use the induction theorems of its library, which
take an operator. Where a proof needs induction over numbers or sequences it takes a
smallest counterexample instead: a set of naturals that is not empty has a least
element (`LeastNatural`, because the intervals 0..n are well-founded under
inclusion), one with a bound has a greatest (`GreatestNatural`), and a set of
sequences that is not empty has one that is empty or leaves the set with its last
element (`ShortestSequence`).

`StreamRelayProofs`, from `EventsAssumption` (events are sequences of payloads)
and `MaxFramesAssumption` only:

* `TypeCorrect`. `TypeOK` is not inductive: `Closing` is defined only for a task
  that has a result. `TypeInv` adds that a task has one exactly when it is done.
* `LoopDrainedCorrect` and `NeverEmptyCorrect`, from
  `LoopInv`: the frames emitted are those relayed, held back and queued
  (`CountInv`); `passthrough_mode` is the fact that a raw stream had a frame
  (`RawInv`); a status 200 is a first chunk (`StatusInv`); and a generator that
  reached its end has one or is about to write one (`FirstChunkInv`).
  `ErrorBeforeFirstChunkCorrect` adds `EarlyInv`: a stream that ends without raising
  has a frame or a result behind it.
* What a client reads and what the relay looked at agree on every event that reaches
  a queue, a buffer or the client, as long as the upstream's closing lines lead
  (`SameVerdict`): all of these are events the task emitted or one of the runtime's
  own (`KnownInv`). The premise `ClosersLead` of the next three is about the whole run,
  and a run that has it had it before (`ClosersShrink`).
* `EndsAfterRunCorrect`: nothing terminal is sent before the task is done or the loop
  is left (`EndInv`); and what is written after the loop follows a saved turn or shows
  the error (`SavedInv`), for the error that let the run fail is in one of the frames
  emitted (`ErrInv`), none of which was lost.
* `WellTerminatedCorrect`, from `ReadInv`, which is `OrderInv` while the closing lines
  lead: what is queued is an upstream event or a chunk of the runtime, [DONE] the
  last of them (`QueueInv`), what is held back is terminal (`HoldInv`), what is still
  to be written is ordered and may follow what was sent (`TailInv`).
* `Refinement`: initial states are initial states of `ClientStream`, and under
  `ClosersLead` every step is one of its steps or a stutter.
* `FramesConservedCorrect`, from `TakenInv`: there is a sequence of frames taken from
  the queue so far that the queue continues to what was emitted, and what was
  relayed and what is held back are its parts (`Accounts`). That `Part` and the count
  of text go through \o is by `ShortestSequence` (`PartOfConcat`,
  `TextPiecesOfConcat`); `Part` is a recursive function in place of `SelectSeq`, of
  which the prover knows nothing.
* `RelayCompleteCorrect`, `AnswerStreamedCorrect` and `ReviewEndsWithToolCallsCorrect`,
  from `ShownInv`: once the loop is left, what was sent and what is still to be sent
  end the stream well (`EndsWell`), and sending moves an event from one to the other.
  That it holds when the loop is left (`SettleEndsWell`) needs `LoopInv`, `EndInv`,
  `TakenInv` with an empty queue, and `AnswerInv`: the answer is the text of the
  frames emitted, unless an error came with it, and a run that replays emits none.
  Of these three only the last assumes `ClosersLead`, and only for what comes before
  tool_calls.

`HttpClientProofs`, from `StatusesAssumption` and `MaxAttemptsAssumption`:
`TypeCorrect`, `SentAsConfiguredCorrect` and `NoConnectionHeldCorrect` from
`CallInv`, which adds that an attempt is left and no connection held before each
sending (`TypeOK` alone lets a resent call keep an old connection), and
`NeverResentCorrect`, which every step keeps by itself. `FailsForAReasonCorrect` is
from `RetryableMeansHope` (no error that `Failed` retries is hopeless) and
`ReasonInv`: each attempt that ended without a response left one error, and those
before the last were not hopeless (`ErrorsInv`); a call that was raised had a hopeless
error, no attempt left, or a broken body (`RaisedInv`).

`MessagesDeltaProofs` says what `Delta` returns, for all sequences: a drop of the
request (`DeltaIsDrop`), the whole extension of a history that is resent
(`DeltaOfExtension`), a lone new message (`DeltaOfNewMessage`), nothing of what is
there already (`NothingNew`). The common prefix is the longest one and the overlap
the greatest, by `GreatestNatural`. `MCMessagesDeltaProofs` concludes
`WholeHistoryResentCorrect` and `WindowResentCorrect`, for every bound on the length.

`ChatThreadProofs`, from `BoundsAssumption`, `BackendsAssumption`,
`StylesAssumption`, `FlagsAssumption` and `SentinelAssumption` (`None` is no request,
`Shared` no worker). `NormalizedFacts` says what the normalisation keeps: it adds
nothing, keeps every question, and leaves a request without blank answers alone
(`NothingBlank`); `AnswerFacts` is about the answers a node may give.

* `TypeCorrect`, of `TypeOK` with `RunInv`: a run that has read the thread, or runs
  the node, has a user message, so that the node never fails for want of one.
* `CallAnswersQuestionCorrect` and `HistoryGrowsCorrect`, from `SerialInv`, which says
  of a client that waits that only the request it waits for is under way (`OneRun`)
  and carries its question (`WaitInv`); that a question it has not asked is nowhere
  (`FreshInv`); and that the question it asked, once it is in a store or in the copy
  of a run, is the last one there (`LastInv`, `CopyInv`). A retry is sent only after
  the run before it has ended, so what is saved is what was read, extended.
* `ContinuesChatCorrect`, from `SeenInv`: what the client has seen is in the shared
  store. It assumes that no backend is "memory", which keeps the threads of each
  worker apart and refutes the property (run `chat_workers`).
* `SteadyRepliesCorrect`, from `NewQuestionInv`: as long as nothing failed or died, the
  question that waits is in no store before its run starts, so the merge cannot take
  it for a repeated one. It holds on every backend.
* `HistoryAgreesCorrect`, from `AgreedInv`: the history is the transcript, and as much
  of the open turn as was saved. It rests on `DeltaOfExtension` for a client that
  resends its transcript and on `DeltaOfNewMessage` for one that does not, for
  histories of any length. Of the first it speaks until the client meets an answer
  without a text (`Whole`; once met it stays, `WholeBefore`), for only a request
  without one is merged as it was sent. It assumes that no backend is "memory", for
  two workers would have two histories.
* `ImplementsConversationCorrect`, from `OpenTurnInv`: where the question that waits is
  in the store and unanswered it is the last message, so that a saved answer settles
  that question. `StartRun` poses, `Answer` settles, every other step stutters.

`HitlReviewProofs`, from `TextsAssumption` (`None` is no question, text, content or
request, `NoText` no text, edits are no drafts), `FormsAssumption`, `FlagsAssumption`
and `BoundAssumption`. A run resumes with a string (`PayloadIsString`), and that of a
client that does not resend is its own (`OwnPayload`).

* `TypeOKCorrect`. Its strengthening `TypeInv` says what a run in each state has
  (`RunInv`: a copy of the checkpoint at its node, a reply once it is answered),
  that a thread under review has a draft and a finished one a final text
  (`ThreadInv`), and that what the client wants goes back to a question it asked
  (`ClientInv`). Without them `Final` could be no text.
* `NothingUnreviewedCorrect`, with overlaps, reviews in both forms and resent
  transcripts: `ReviewedInv` says the same of the copies of the runs, and a tool
  message once sent stays sent (`ToolsStay`).
* `QuestionGetsDraftCorrect`, with overlaps, of a client that does not resend
  (`~Resends`): the request it waits for carries what it wants, and one without a
  tool message is answered with a draft for its question (`AskInv`). It does not
  speak of a review as parts, which carries a tool message.
* `SeenDraftAwaitsReviewCorrect` and `ReviewDecidesCorrect`, of a client that does
  not resend and waits: only the request it waits for runs, and the thread has the
  draft it sees until the review takes effect, and after that what was decided, if
  the review was a string; with parts the graph starts again, and a new draft is seen
  (`ReviewInv`; `WaitInv` is that, unless the client leaves).

`WorkerProofs`, from `BoundsAssumption`, `PushedAssumption`, `NoneAssumption`
(`None` is no status and no text), `PiecesAssumption` (the marks, the defaults and the
workflows are pieces), `UuidAssumption` and `AsksAssumption` (an ask is the record
of its five fields, its values texts):

* `OwnThreadCorrect`, from `ReqInv`: a request is refused at once, or has the thread
  its ask and its context name (`ThreadShape`). That the fields can be read from a
  thread is `ThreadFields`: the workflow stands at a fixed place (`SameLengthHeads`),
  and of two texts that are equal the parts before a mark are equal if neither holds
  it (`Separated`, which `Separable` provides for the sys_code and the user id). The
  session id is what is left, whatever it holds. Nothing is assumed of the threads
  themselves: that a request with a thread has a text is `ThreadIsText`.
* `RetryKeepsThreadCorrect`, from `RetryInv`: the repeated request asks for the
  session it was told, which by `ReqInv` is that of its thread.
* `AllClosedCorrect`, from `StageInv` and `OpenInv`: what is open is the root's
  watch, the client, the saver or the watch of a provider that is registered, and
  nothing opens one once the providers are closed. That a run without a client
  does not follows from `_get_graph` being its first step and from `OwedShrinks`:
  once the process drains, nobody comes to wait, and when it closes nobody
  waits, so no run has its graph still to get.
* `RunsOnOpenStoreCorrect`, from `StoreInv`: graphs are built with the store of the
  deployment, which is open while the process serves or drains.
* `CallersFirstCorrect`, from `BuiltInv`: each graph was built for a request that
  was let in, whose thread is a text and so not `None`.
* `FreshConfigCorrect`, from `DocInv` and `FreshInv`: providers hold documents that
  were published, none is lost, and once a graph is built its provider does not go
  back (`DocNext`); so what a run uses is not older than what it began with.
* `OwnDocumentCorrect`, of every state, and `TypeOKCorrect`, from all of these and
  `HandleInv`: the handle is there only while its store is open.

Only model-checked: the three liveness properties (`StreamEnds`, `EveryRequestEnds`,
`ShutdownEnds`), which are beyond the prover, as fairness is stated with ENABLED; and
the six runs that find their property violated, of which there is nothing to prove.

## What is left out

* Request bodies but for their messages and whether they are valid, prompts, the text
  itself, usage figures, request ids, logging and traces.
* An empty `data:` line in front of others, and lines that are no JSON: the first
  would be read as the event's class, and hides a closing line behind it as any other
  line does; the second is skipped by both readers.
* A draft of demo-hitl without a text.
* A flush of the traces that does not end (`lifespan.py`): its time is Langfuse's.
* Several chats at a time in `ChatThread`: `OwnThread` says that they share no
  thread, and they share nothing else but the HTTP client and the graphs.
* `stream_to_client=False` and `get_json`, `post_json`, which nothing here calls.
* The stores: a checkpointer that fails to save is an LLM call that fails (`Fail`);
  one that loses what it saved is not modelled.
* A setup that fails after the connection was opened (`checkpointer.py:66`): the
  process ends with it (`StartFails`), which closes it.
* A shutdown in which `stop` raises (`StopRuntime`'s second case): the process ends
  with the watches and the HTTP client open, and `AllClosed` does not speak of it.
* A second start of the same process: the lifespan runs once.
* A request for demo-summary with a tool message, which is a resume of a graph that
  never interrupts: what happens is LangGraph's, and nothing says what should.
* Logging, request ids, Langfuse, the health endpoints, the list of models and the
  scripts: nothing the answers depend on.

## Plan

1. Done: `SseEvents`, `ClientStream`, `StreamRelay`; `MessagesDelta`; `HttpClient`;
   each with its proofs.
2. Done: `ChatThread` with workers, stores and crashes, and `Conversation`;
   `HitlReview` with overlapping requests; `RequestContext`, `WorkflowConfig` and
   `Worker`; each with its proofs.
3. The two stream ends together: a `StreamRelay` whose `Disconnect` is `Worker`'s
   `Leave`, with the HTTP client closed under it.
4. The merge without a condition on the client: which part of a thread two
   overlapping runs of demo-chat can lose, as a theorem about what they keep.
