----------------------------- MODULE StreamRelay -----------------------------
(***************************************************************************)
(* One streaming chat completion, from the upstream LLM to the client.     *)
(*                                                                         *)
(* WorkflowRuntime.stream starts run_once as a task whose gateway puts     *)
(* frames on an unbounded asyncio.Queue, and polls that queue.  The router *)
(* waits for the generator's first chunk before it commits to a status:    *)
(* an upstream error before it becomes a JSON error, a later one can only  *)
(* end the stream.  A client that leaves cancels the generator and not the *)
(* task (CancelledError is not an Exception).                              *)
(*                                                                         *)
(* The task and the generator are the two processes; every action runs     *)
(* from one await that can suspend to the next.                            *)
(***************************************************************************)
EXTENDS SseEvents, SeqParts

CONSTANTS
    Events,     \* the events the upstream may send
    MaxFrames   \* bound on the frames of one run

ASSUME EventsAssumption    == Events \subseteq Event
ASSUME MaxFramesAssumption == MaxFrames \in Nat

VARIABLES
    provider,     \* what the run streams from; "stored" runs no LLM call
    hitl,         \* does the workflow interrupt after the LLM call?
    phase,        \* where the task is
    result,       \* what the task returned or raised
    stream_error, \* the gateway saw an error chunk
    answer,       \* pieces of text in the answer of the run
    emitted,      \* history: every frame the task put on the queue
    queue,
    pc,           \* where the generator is
    passthrough_mode,
    pending_terminal_events,
    streamed_chunk_count,
    tail,         \* chunks stream() has yet to yield after its loop
    out,          \* what the client was sent
    status        \* HTTP status, 0 until the router decides it

taskVars == <<phase, result, stream_error, answer, emitted>>
relayVars == <<pc, passthrough_mode, pending_terminal_events,
               streamed_chunk_count, tail, out, status>>
vars == <<provider, hitl, taskVars, queue, relayVars>>

Success      == {"answer", "tool_calls"}
ClientErrors == {"HttpClientResponseError", "HttpClientTimeoutError"}
Result       == {"none", "other"} \union Success \union ClientErrors
Ended        == {"closed", "raised", "cancelled"}

Init ==
    /\ provider \in {"openai_compatible", "mock", "stored"}
    /\ hitl \in BOOLEAN
    /\ phase = "connect" /\ result = "none"
    /\ stream_error = FALSE
    /\ answer = 0
    /\ emitted = <<>> /\ queue = <<>>
    /\ pc = "poll"
    /\ passthrough_mode = FALSE
    /\ pending_terminal_events = <<>>
    /\ streamed_chunk_count = 0
    /\ tail = <<>> /\ out = <<>>
    /\ status = 0

------------------------------------------------------------------------------
(* The task: run_once, the node and the gateway it calls.                  *)

\* stream_writer puts the frame on the unbounded queue: it never waits.
Emit(e) ==
    /\ emitted' = Append(emitted, e)
    /\ queue' = Append(queue, e)

Return(r) == phase' = "done" /\ result' = r

\* The upstream answered with a success status, or the mock starts.
Connect ==
    /\ phase = "connect" /\ provider # "stored"
    /\ phase' = "body"
    /\ UNCHANGED <<provider, hitl, result, stream_error, answer, emitted, queue, relayVars>>

\* A replayed turn or a resumed review answers without any LLM call.
StoredAnswer ==
    /\ phase = "connect" /\ provider = "stored"
    /\ phase' = "save"
    /\ answer' \in {0, 1}
    /\ UNCHANGED <<provider, hitl, result, stream_error, emitted, queue, relayVars>>

\* No response: an error status or a timeout is an HttpClient error; a missing
\* base_url, a refused connection or a failed checkpoint read is any other one.
ConnectFails ==
    /\ phase = "connect"
    /\ \E r \in {"other"} \union (IF provider = "openai_compatible"
                                  THEN ClientErrors ELSE {}) : Return(r)
    /\ UNCHANGED <<provider, hitl, stream_error, answer, emitted, queue, relayVars>>

\* One upstream event: forwarded raw first, then read line by line.
UpstreamEvent ==
    /\ phase = "body" /\ provider = "openai_compatible"
    /\ Len(emitted) < MaxFrames
    /\ \E e \in Events :
         /\ Emit(e)
         /\ answer' = answer + Cardinality(TokenLines(e, stream_error))
         /\ stream_error' = (stream_error \/ HasError(e))
         /\ phase' = IF Stops(e) THEN "save" ELSE "body"
    /\ UNCHANGED <<provider, hitl, result, relayVars>>

MockToken ==
    /\ phase = "body" /\ provider = "mock"
    /\ Len(emitted) < MaxFrames
    /\ Emit(ContentChunk)
    /\ answer' = answer + 1
    /\ UNCHANGED <<provider, hitl, phase, result, stream_error, relayVars>>

\* The body ends without [DONE]; the mock always has at least one token.
BodyEnds ==
    /\ phase = "body"
    /\ provider = "mock" => answer > 0
    /\ phase' = "save"
    /\ UNCHANGED <<provider, hitl, result, stream_error, answer, emitted, queue, relayVars>>

\* A read error in the body stays an httpx exception: nothing converts it.
BodyFails ==
    /\ phase = "body" /\ provider = "openai_compatible"
    /\ Return("other")
    /\ UNCHANGED <<provider, hitl, stream_error, answer, emitted, queue, relayVars>>

\* An error chunk is raised once the body was read; otherwise the graph saves
\* the node's output, which may fail, and ends or interrupts.
RunEnds ==
    /\ phase = "save"
    /\ IF stream_error
       THEN Return("HttpClientResponseError")
       ELSE \/ Return("other")
            \/ Return(IF hitl /\ provider # "stored" THEN "tool_calls" ELSE "answer")
    /\ UNCHANGED <<provider, hitl, stream_error, answer, emitted, queue, relayVars>>

Run == \/ Connect \/ StoredAnswer \/ ConnectFails \/ UpstreamEvent
       \/ MockToken \/ BodyEnds \/ BodyFails \/ RunEnds

------------------------------------------------------------------------------
(* The generator, as the router and StreamingResponse drive it.            *)

TaskDone == phase = "done"

\* Mutant: leave the loop as soon as the task is done.
LoopOverEarly == TaskDone

LoopOver == TaskDone /\ queue = <<>>

\* frame.kind is "sse" for every frame of a run, or for none.
RawFrames == provider = "openai_compatible"

\* Mutant: only [DONE] is held back.
HeldBackDoneOnly(e) == RawFrames /\ e = DoneChunk

\* Terminal events of a raw stream are held back until the run has ended.
HeldBack(e) == RawFrames /\ Terminal(e)

\* Mutant: a chunk does not commit the router to a status.
YieldUncommitted(e) == out' = Append(out, e) /\ UNCHANGED status

Yield(e) ==
    /\ out' = Append(out, e)
    /\ status' = 200

Poll ==
    /\ pc = "poll"
    /\ ~LoopOver
    /\ pc' = "wait"
    /\ UNCHANGED <<provider, hitl, taskVars, queue, passthrough_mode,
                   pending_terminal_events, streamed_chunk_count, tail, out, status>>

\* Mutant: queue.get() without a timeout.
PollForever == FALSE /\ UNCHANGED vars

\* Mutant: the timeout cancels a get() that already took a frame.
PollTimeoutTakes ==
    /\ pc = "wait"
    /\ pc' = "poll"
    /\ queue' = IF queue = <<>> THEN queue ELSE Tail(queue)
    /\ UNCHANGED <<provider, hitl, taskVars, passthrough_mode,
                   pending_terminal_events, streamed_chunk_count, tail, out, status>>

\* wait_for cancels get(), also when a frame arrives with the timeout: then the
\* frame stays in the queue.
PollTimeout ==
    /\ pc = "wait"
    /\ pc' = "poll"
    /\ UNCHANGED <<provider, hitl, taskVars, queue, passthrough_mode,
                   pending_terminal_events, streamed_chunk_count, tail, out, status>>

DequeueFrame ==
    /\ pc = "wait" /\ queue # <<>>
    /\ queue' = Tail(queue)
    /\ streamed_chunk_count' = streamed_chunk_count + 1
    /\ passthrough_mode' = IF RawFrames THEN TRUE ELSE passthrough_mode
    /\ pc' = "poll"
    /\ UNCHANGED <<provider, hitl, taskVars, tail>>

HoldFrame ==
    /\ DequeueFrame
    /\ HeldBack(Head(queue))
    /\ pending_terminal_events' = Append(pending_terminal_events, Head(queue))
    /\ UNCHANGED <<out, status>>

RelayFrame ==
    /\ DequeueFrame
    /\ ~HeldBack(Head(queue))
    /\ Yield(Head(queue))
    /\ UNCHANGED pending_terminal_events

\* Mutant: the fallback chunk is written whatever was streamed.
ClosingAlwaysFallback ==
    CASE result = "tool_calls" -> <<ToolCallsChunk, FinishChunk, DoneChunk>>
      [] result # "tool_calls" /\ passthrough_mode -> pending_terminal_events
      [] OTHER -> IF answer > 0 THEN <<ContentChunk, FinishChunk, DoneChunk>>
                                ELSE <<FinishChunk, DoneChunk>>

\* Mutant: a raw stream ends without the events it held back.
ClosingForgets ==
    CASE result = "tool_calls" -> <<ToolCallsChunk, FinishChunk, DoneChunk>>
      [] result # "tool_calls" /\ passthrough_mode -> <<>>
      [] OTHER -> <<FinishChunk, DoneChunk>>

\* What stream() still writes once the task has returned or raised.
Closing ==
    CASE result = "tool_calls" -> <<ToolCallsChunk, FinishChunk, DoneChunk>>
      [] result # "tool_calls" /\ passthrough_mode -> pending_terminal_events
      [] result = "answer" /\ ~passthrough_mode ->
            IF streamed_chunk_count = 0 /\ answer > 0
            THEN <<ContentChunk, FinishChunk, DoneChunk>>
            ELSE <<FinishChunk, DoneChunk>>

\* An upstream error is swallowed when raw events were already relayed.
Raises == \/ result = "other"
          \/ result \in ClientErrors /\ ~passthrough_mode

\* Mutant: the upstream's own status code is passed on.
ErrorStatusUpstream == IF result = "HttpClientResponseError" THEN 503 ELSE 500

ErrorStatus == CASE result = "HttpClientTimeoutError"  -> 504
                 [] result = "HttpClientResponseError" -> 502
                 [] OTHER -> 500

Settle ==
    /\ pc = "poll"
    /\ LoopOver
    /\ IF Raises
       THEN /\ pc' = "raised"
            /\ status' = IF status = 0 THEN ErrorStatus ELSE status
            /\ UNCHANGED tail
       ELSE /\ pc' = "send"
            /\ tail' = Closing
            /\ UNCHANGED status
    /\ UNCHANGED <<provider, hitl, taskVars, queue, passthrough_mode,
                   pending_terminal_events, streamed_chunk_count, out>>

SendTail ==
    /\ pc = "send" /\ tail # <<>>
    /\ Yield(Head(tail))
    /\ tail' = Tail(tail)
    /\ UNCHANGED <<provider, hitl, taskVars, queue, pc, passthrough_mode,
                   pending_terminal_events, streamed_chunk_count>>

\* A generator that ends before its first chunk makes anext() fail.
Close ==
    /\ pc = "send" /\ tail = <<>>
    /\ pc' = "closed"
    /\ status' = IF status = 0 THEN 500 ELSE status
    /\ UNCHANGED <<provider, hitl, taskVars, queue, passthrough_mode,
                   pending_terminal_events, streamed_chunk_count, tail, out>>

\* Only StreamingResponse listens for the client's disconnect.
Disconnect ==
    /\ status = 200 /\ pc \notin Ended
    /\ pc' = "cancelled"
    /\ UNCHANGED <<provider, hitl, taskVars, queue, passthrough_mode,
                   pending_terminal_events, streamed_chunk_count, tail, out, status>>

Relay == \/ Poll \/ PollTimeout \/ HoldFrame \/ RelayFrame
         \/ Settle \/ SendTail \/ Close

Next == Run \/ Relay \/ Disconnect

\* Both are tasks of one event loop.  A timeout can come before a frame that
\* arrives with it, but the poll after that finds the frame and takes it.
Fairness == WF_vars(Run) /\ WF_vars(Relay) /\ SF_vars(HoldFrame \/ RelayFrame)

Spec == Init /\ [][Next]_vars

FairSpec == Spec /\ Fairness

------------------------------------------------------------------------------
(* Properties.                                                             *)

\* Type invariant of the task, the queue and the generator of stream().
TypeOK ==
    /\ provider \in {"openai_compatible", "mock", "stored"}
    /\ hitl \in BOOLEAN
    /\ phase \in {"connect", "body", "save", "done"}
    /\ result \in Result
    /\ stream_error \in BOOLEAN
    /\ answer \in Nat
    /\ emitted \in Seq(Event) /\ queue \in Seq(Event)
    /\ pc \in {"poll", "wait", "send"} \union Ended
    /\ passthrough_mode \in BOOLEAN
    /\ pending_terminal_events \in Seq(Event)
    /\ streamed_chunk_count \in Nat
    /\ tail \in Seq(Event) /\ out \in Seq(Event)
    /\ status \in {0, 200, 500, 502, 504}

TerminalEvents == {e \in Event : Terminal(e)}
OtherEvents    == {e \in Event : ~Terminal(e)}

\* While the loop runs, every frame the task emitted is relayed, held back or
\* still queued, once, in the order it was emitted: the poll that tests
\* task.done() and queue.empty() loses no frame put between two tests.
FramesConserved ==
    pc \in {"poll", "wait"} /\ provider = "openai_compatible" =>
        /\ Part(emitted, OtherEvents) = out \o Part(queue, OtherEvents)
        /\ Part(emitted, TerminalEvents)
             = pending_terminal_events \o Part(queue, TerminalEvents)

\* Every event of the upstream that closes the answer says so in its first data
\* line, the one the relay looks at.  An upstream may do otherwise: ReviewDoneLast.
ClosersLead == \A e \in Range(emitted) : Closes(e) => Terminal(e)

\* A client that reads finish or [DONE], on whichever line, knows that its run has
\* ended, and that its turn is saved unless the stream holds an error chunk.
EndsAfterRun ==
    ClosersLead /\ (\E i \in DOMAIN out : Closes(out[i])) =>
        /\ TaskDone
        /\ result \in Success \/ \E e \in Range(out) \union Range(tail) : HasError(e)

\* A raw stream that was relayed to its end gave the client every upstream event
\* once: those relayed at once in their order, then those that were held back.  Of
\* the draft of a review tool_calls, finish and [DONE] stand in place of the latter.
RelayComplete ==
    pc = "closed" /\ provider = "openai_compatible" /\ emitted # <<>> =>
        out = Part(emitted, OtherEvents) \o
              IF result = "tool_calls" THEN <<ToolCallsChunk, FinishChunk, DoneChunk>>
                                       ELSE Part(emitted, TerminalEvents)

TextPieces(s) ==
    Cardinality(UNION {{i} \X TokenLines(s[i], FALSE) : i \in DOMAIN s})

\* A conversation the client read to its end holds, piece for piece, the answer
\* the node returned and the graph saved, whichever way it was produced.
AnswerStreamed ==
    pc = "closed" /\ result = "answer" => TextPieces(out) = answer

\* The JSON error responses 502 and 504 are sent only by a run that relayed
\* nothing, and a stream that began is never turned into one.  An upstream that
\* failed before its first frame gets one of them: no empty stream hides it.
ErrorBeforeFirstChunk ==
    /\ status \in {500, 502, 504} => pc \in Ended /\ out = <<>>
    /\ status \in {502, 504} => emitted = <<>>
    /\ status = 200 <=> out # <<>>
    /\ pc \in Ended /\ emitted = <<>> /\ result \in ClientErrors => status \in {502, 504}

\* anext() of the router always finds a first chunk: no path of stream() ends
\* normally without having yielded anything.
NeverEmpty == pc = "closed" => out # <<>>

\* The client reads text first, then finish and [DONE] only, and nothing after the
\* event of [DONE], in whatever order the upstream sends them: this is what holding
\* the terminal events back is for.
WellTerminated ==
    ClosersLead =>
        \A i, j \in DOMAIN out : i < j =>
            /\ Closes(out[i]) => Closes(out[j])
            /\ ~Stops(out[i])

\* An interrupted review ends with tool_calls, ONE finish and [DONE]: no event of
\* the draft's own LLM stream that reaches the client closes the answer.
ReviewEndsWithToolCalls ==
    ClosersLead /\ pc = "closed" /\ result = "tool_calls" =>
        /\ Len(out) >= 3
        /\ SubSeq(out, Len(out) - 2, Len(out))
             = <<ToolCallsChunk, FinishChunk, DoneChunk>>
        /\ \A i \in 1..(Len(out) - 2) : ~Closes(out[i])

\* Every stream ends for the client, and the run behind it ends too, even when
\* the client has left.
StreamEnds == <>(pc \in Ended /\ TaskDone)

Client == INSTANCE ClientStream
            WITH sent <- out, over <- pc \in Ended,
                 Sendable <- Events \union
                     {ContentChunk, ToolCallsChunk, FinishChunk, DoneChunk}

\* The relay, the queue and the task together behave as ClientStream promises, as
\* long as the upstream's closing lines lead: one decision on the status, text
\* before the events that close the answer, [DONE] last.
ImplementsClientStream ==
    Client!Init /\ [][ClosersLead' => [Client!Next]_(Client!vars)]_vars

\* docs/curl_examples.md: the streamed review "emits real draft content deltas
\* first, then tool_calls, and finally data: [DONE]".  A client that stops reading at
\* [DONE] has read the stream of a review to its end.
ReviewDoneLast ==
    pc = "closed" /\ result = "tool_calls" =>
        \A i \in DOMAIN out : Stops(out[i]) => i = Len(out)
==============================================================================
