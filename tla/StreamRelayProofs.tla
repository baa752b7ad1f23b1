--------------------------- MODULE StreamRelayProofs ---------------------------
(***************************************************************************)
(* Proofs about StreamRelay, for every set of upstream events and every    *)
(* bound on the frames of a run.                                           *)
(***************************************************************************)
EXTENDS StreamRelay, InductionFacts

(***************************************************************************)
(* Facts about events.                                                     *)
(***************************************************************************)

\* The chunks stream() writes itself, classified as the relay and the gateway
\* classify an event.
LEMMA OwnChunks ==
    /\ {ContentChunk, ToolCallsChunk, FinishChunk, DoneChunk} \subseteq Event
    /\ ~Terminal(ContentChunk) /\ ~Terminal(ToolCallsChunk)
    /\ Terminal(FinishChunk) /\ Terminal(DoneChunk)
    /\ ~Stops(ContentChunk) /\ ~Stops(ToolCallsChunk) /\ ~Stops(FinishChunk)
  BY DEF ContentChunk, ToolCallsChunk, FinishChunk, DoneChunk, Event, Payload,
         Terminal, Stops

\* The gateway hands over a natural number of pieces of text per event.
LEMMA TokenCount ==
    ASSUME NEW e \in Event, NEW b \in BOOLEAN
    PROVE  Cardinality(TokenLines(e, b)) \in Nat
<1>1. IsFiniteSet(DOMAIN e)
  BY FS_Interval DEF Event
<1>2. TokenLines(e, b) \subseteq DOMAIN e
  BY DEF TokenLines, Read
<1> QED
  BY <1>1, <1>2, FS_Subset, FS_CardinalityType

\* The elements of a sequence that gains one at its end or loses its first.
LEMMA RangeOfAppend ==
    ASSUME NEW M, NEW s \in Seq(M), NEW e
    PROVE  Range(Append(s, e)) = Range(s) \union {e}
<1>1. /\ DOMAIN s = 1..Len(s) /\ Len(s) \in Nat
      /\ DOMAIN Append(s, e) = 1..(Len(s) + 1)
      /\ \A i \in 1..Len(s) : Append(s, e)[i] = s[i]
      /\ Append(s, e)[Len(s) + 1] = e
  OBVIOUS
<1> QED
  BY <1>1 DEF Range

LEMMA RangeOfTail ==
    ASSUME NEW M, NEW s \in Seq(M), s # <<>>
    PROVE  Range(s) = {Head(s)} \union Range(Tail(s))
<1>1. /\ DOMAIN s = 1..Len(s) /\ Len(s) \in Nat /\ Len(s) > 0 /\ Head(s) = s[1]
      /\ DOMAIN Tail(s) = 1..(Len(s) - 1)
      /\ \A i \in 1..(Len(s) - 1) : Tail(s)[i] = s[i + 1]
  OBVIOUS
<1>2. ASSUME NEW x \in Range(s) PROVE x \in {Head(s)} \union Range(Tail(s))
  <2>1. PICK i \in 1..Len(s) : x = s[i]
    BY <1>1 DEF Range
  <2>2. CASE i = 1
    BY <1>1, <2>1, <2>2
  <2>3. CASE i > 1
    <3>1. i - 1 \in 1..(Len(s) - 1) /\ Tail(s)[i - 1] = x
      BY <1>1, <2>1, <2>3
    <3> QED
      BY <1>1, <3>1 DEF Range
  <2> QED
    BY <1>1, <2>1, <2>2, <2>3
<1>3. ASSUME NEW x \in {Head(s)} \union Range(Tail(s)) PROVE x \in Range(s)
  <2>1. CASE x = Head(s)
    BY <1>1, <2>1 DEF Range
  <2>2. CASE x \in Range(Tail(s))
    <3>1. PICK i \in 1..(Len(s) - 1) : x = Tail(s)[i]
      BY <1>1, <2>2 DEF Range
    <3>2. i + 1 \in 1..Len(s) /\ x = s[i + 1]
      BY <1>1, <3>1
    <3> QED
      BY <1>1, <3>2 DEF Range
  <2> QED
    BY <1>3, <2>1, <2>2
<1> QED
  BY <1>2, <1>3

(***************************************************************************)
(* Type correctness.                                                       *)
(***************************************************************************)

\* Whatever is held back or yielded at the end of the stream is a sequence of
\* events.
LEMMA ClosingType ==
    ASSUME TypeOK, ~Raises, result # "none"
    PROVE  Closing \in Seq(Event)
<1> USE DEF TypeOK, Result, Success, ClientErrors
<1>1. CASE result = "tool_calls"
  BY <1>1, OwnChunks DEF Closing
<1>2. CASE result # "tool_calls" /\ passthrough_mode
  BY <1>2 DEF Closing
<1>3. CASE result = "answer" /\ ~passthrough_mode
  BY <1>3, OwnChunks DEF Closing
<1> QED
  BY <1>1, <1>2, <1>3 DEF Raises

\* The task has a result exactly when it is done.
ResultInv == phase = "done" <=> result # "none"

TypeInv == TypeOK /\ ResultInv

LEMMA TypeInit == Init => TypeInv
<1> SUFFICES ASSUME Init PROVE TypeInv
  OBVIOUS
<1>1. <<>> \in Seq(Event)
  OBVIOUS
<1>2. stream_error \in BOOLEAN /\ passthrough_mode \in BOOLEAN
  BY DEF Init
<1>3. ResultInv
  BY DEF Init, ResultInv
<1> QED
  BY <1>1, <1>2, <1>3 DEF Init, TypeInv, TypeOK, Result, Ended

LEMMA DequeuedMode ==
    ASSUME TypeOK, DequeueFrame PROVE passthrough_mode' \in BOOLEAN
<1>1. passthrough_mode \in BOOLEAN
  BY DEF TypeOK
<1>2. passthrough_mode' = IF RawFrames THEN TRUE ELSE passthrough_mode
  BY DEF DequeueFrame
<1> QED
  BY <1>1, <1>2

LEMMA TypeNext == TypeInv /\ [Next]_vars => TypeInv'
<1> SUFFICES ASSUME TypeInv, [Next]_vars PROVE TypeInv'
  OBVIOUS
<1>0. HoldFrame \/ RelayFrame => passthrough_mode' \in BOOLEAN
  BY DequeuedMode DEF TypeInv, HoldFrame, RelayFrame
<1> USE DEF TypeInv, ResultInv, TypeOK, Result, Success, ClientErrors, Ended,
            taskVars, relayVars
<1>1. CASE Connect
  BY <1>1 DEF Connect
<1>2. CASE StoredAnswer
  BY <1>2 DEF StoredAnswer
<1>3. CASE ConnectFails
  BY <1>3 DEF ConnectFails, Return
<1>4. CASE UpstreamEvent
  <2>1. PICK e \in Events :
          /\ Emit(e)
          /\ answer' = answer + Cardinality(TokenLines(e, stream_error))
          /\ stream_error' = (stream_error \/ HasError(e))
          /\ phase' = IF Stops(e) THEN "save" ELSE "body"
    BY <1>4 DEF UpstreamEvent
  <2>2. e \in Event
    BY EventsAssumption
  <2>3. emitted' \in Seq(Event) /\ queue' \in Seq(Event)
    BY <2>1, <2>2 DEF Emit
  <2>4. answer' \in Nat
    BY <2>1, <2>2, TokenCount
  <2>5. stream_error' \in BOOLEAN
    BY <2>1 DEF HasError
  <2> QED
    BY <1>4, <2>1, <2>3, <2>4, <2>5 DEF UpstreamEvent
<1>5. CASE MockToken
  BY <1>5, OwnChunks DEF MockToken, Emit
<1>6. CASE BodyEnds
  BY <1>6 DEF BodyEnds
<1>7. CASE BodyFails
  BY <1>7 DEF BodyFails, Return
<1>8. CASE RunEnds
  BY <1>8 DEF RunEnds, Return
<1>9. CASE Poll
  BY <1>9 DEF Poll
<1>10. CASE PollTimeout
  BY <1>10 DEF PollTimeout
<1>11. CASE HoldFrame
  <2>1. Head(queue) \in Event /\ Tail(queue) \in Seq(Event)
    BY <1>11 DEF HoldFrame, DequeueFrame
  <2>2. passthrough_mode' \in BOOLEAN
    BY <1>0, <1>11
  <2>3. /\ queue' = Tail(queue) /\ pc' = "poll"
        /\ streamed_chunk_count' = streamed_chunk_count + 1
        /\ UNCHANGED <<provider, hitl, taskVars, tail>>
    BY <1>11 DEF HoldFrame, DequeueFrame
  <2> QED
    BY <1>11, <2>1, <2>2, <2>3 DEF HoldFrame
<1>17. CASE RelayFrame
  <2>1. Head(queue) \in Event /\ Tail(queue) \in Seq(Event)
    BY <1>17 DEF RelayFrame, DequeueFrame
  <2>2. passthrough_mode' \in BOOLEAN
    BY <1>0, <1>17
  <2>3. /\ queue' = Tail(queue) /\ pc' = "poll"
        /\ streamed_chunk_count' = streamed_chunk_count + 1
        /\ UNCHANGED <<provider, hitl, taskVars, tail>>
    BY <1>17 DEF RelayFrame, DequeueFrame
  <2> QED
    BY <1>17, <2>1, <2>2, <2>3 DEF RelayFrame, Yield
<1>12. CASE Settle
  <2>1. CASE Raises
    BY <1>12, <2>1 DEF Settle, ErrorStatus
  <2>2. CASE ~Raises
    <3>1. Closing \in Seq(Event)
      BY <1>12, <2>2, ClosingType DEF Settle, LoopOver, TaskDone
    <3> QED
      BY <1>12, <2>2, <3>1 DEF Settle
  <2> QED
    BY <2>1, <2>2
<1>13. CASE SendTail
  <2>1. Head(tail) \in Event /\ Tail(tail) \in Seq(Event)
    BY <1>13 DEF SendTail
  <2> QED
    BY <1>13, <2>1 DEF SendTail, Yield
<1>14. CASE Close
  BY <1>14 DEF Close
<1>15. CASE Disconnect
  BY <1>15 DEF Disconnect
<1>16. CASE UNCHANGED vars
  BY <1>16 DEF vars
<1> QED
  BY <1>1, <1>2, <1>3, <1>4, <1>5, <1>6, <1>7, <1>8, <1>9, <1>10, <1>11,
     <1>12, <1>13, <1>14, <1>15, <1>16, <1>17 DEF Next, Run, Relay

\* Type correctness of the task, the queue and the generator.
THEOREM TypeCorrect == Spec => []TypeOK
<1>1. TypeInv => TypeOK
  BY DEF TypeInv
<1> QED
  BY <1>1, TypeInit, TypeNext, PTL DEF Spec

(***************************************************************************)
(* The loop, the first chunk and the status.                               *)
(***************************************************************************)

\* Only a raw run sees upstream errors, and raw mode is on once it has a frame.
RawInv ==
    /\ stream_error => RawFrames
    /\ result \in ClientErrors => RawFrames
    /\ passthrough_mode <=> RawFrames /\ streamed_chunk_count > 0

\* Every frame is counted once while the loop runs.
CountInv ==
    pc \in {"poll", "wait"} =>
        /\ Len(emitted) = Len(out) + Len(pending_terminal_events) + Len(queue)
        /\ streamed_chunk_count = Len(out) + Len(pending_terminal_events)

\* After the loop there is a first chunk, sent already or about to be.
FirstChunkInv ==
    /\ pc = "send" => tail # <<>> \/ out # <<>>
    /\ NeverEmpty

StatusInv ==
    /\ status \in {500, 502, 504} => pc \in Ended /\ out = <<>>
    /\ status \in {502, 504} => TaskDone /\ emitted = <<>>
    /\ status = 200 <=> out # <<>>

\* stream() leaves its loop only when the task has ended and no frame is left
\* in the queue, so nothing the LLM said is dropped by the loop test.
LoopDrained ==
    pc \in {"send", "closed", "raised"} => TaskDone /\ queue = <<>>

LoopInv == TypeInv /\ RawInv /\ CountInv /\ LoopDrained /\ FirstChunkInv /\ StatusInv

LEMMA LoopInit == Init => LoopInv
<1> SUFFICES ASSUME Init PROVE LoopInv
  OBVIOUS
<1>1. TypeInv
  BY TypeInit
<1>2. RawInv
  BY DEF Init, RawInv, ClientErrors
<1>3. CountInv
  BY DEF Init, CountInv
<1>4. LoopDrained /\ FirstChunkInv /\ StatusInv
  BY DEF Init, LoopDrained, FirstChunkInv, NeverEmpty, StatusInv
<1> QED
  BY <1>1, <1>2, <1>3, <1>4 DEF LoopInv

\* A chunk that stream() writes after its loop is there when nothing was sent.
LEMMA ClosingNonEmpty ==
    ASSUME LoopInv, pc = "poll", ~Raises, TaskDone, queue = <<>>, out = <<>>
    PROVE  Closing # <<>>
<1> USE DEF LoopInv, TypeInv, TypeOK, Result, Success, ClientErrors, ResultInv,
            TaskDone
<1>1. CASE result = "tool_calls"
  BY <1>1 DEF Closing
<1>2. CASE result # "tool_calls" /\ passthrough_mode
  <2>1. Len(pending_terminal_events) > 0
    BY <1>2 DEF RawInv, CountInv
  <2> QED
    BY <1>2, <2>1 DEF Closing
<1>3. CASE result = "answer" /\ ~passthrough_mode
  BY <1>3 DEF Closing
<1> QED
  BY <1>1, <1>2, <1>3 DEF Raises

\* A run that ends with an upstream error before its first frame emitted none.
LEMMA RaisedBeforeFirst ==
    ASSUME LoopInv, pc = "poll", Raises, TaskDone, queue = <<>>, status = 0,
           result \in ClientErrors
    PROVE  emitted = <<>>
<1>1. RawFrames /\ ~passthrough_mode
  BY DEF LoopInv, RawInv, Raises, ClientErrors
<1>2. streamed_chunk_count = 0
  BY <1>1 DEF LoopInv, RawInv, TypeInv, TypeOK
<1>3. Len(emitted) = 0
  BY <1>2 DEF LoopInv, CountInv, TypeInv, TypeOK
<1> QED
  BY <1>3 DEF LoopInv, TypeInv, TypeOK

\* A step of the task leaves the generator where it is and only appends to the
\* history and the queue, and it takes none once it is done.
LEMMA RunKeepsLoopInv == LoopInv /\ Run => (LoopInv)'
<1> SUFFICES ASSUME LoopInv, Run PROVE LoopInv'
  OBVIOUS
<1>1. TypeInv'
  BY TypeNext DEF LoopInv, Next
<1>2. ~TaskDone /\ UNCHANGED relayVars /\ UNCHANGED provider
  BY DEF Run, Connect, StoredAnswer, ConnectFails, UpstreamEvent, MockToken,
         BodyEnds, BodyFails, RunEnds, TaskDone
<1>3. \/ UNCHANGED <<emitted, queue>>
      \/ \E e \in Event : Emit(e)
  BY OwnChunks, EventsAssumption
     DEF Run, Connect, StoredAnswer, ConnectFails, UpstreamEvent, MockToken,
         BodyEnds, BodyFails, RunEnds
<1>4. RawInv'
  <2>1. stream_error' => RawFrames
    BY DEF LoopInv, RawInv, RawFrames, Run, Connect, StoredAnswer, ConnectFails,
           UpstreamEvent, MockToken, BodyEnds, BodyFails, RunEnds
  <2>2. result' \in ClientErrors => RawFrames
    BY DEF LoopInv, RawInv, RawFrames, Run, Connect, StoredAnswer, ConnectFails,
           UpstreamEvent, MockToken, BodyEnds, BodyFails, RunEnds, Return,
           ClientErrors
  <2>3. RawFrames' = RawFrames
    BY <1>2 DEF RawFrames
  <2> QED
    BY <1>2, <2>1, <2>2, <2>3 DEF LoopInv, RawInv, relayVars
<1>5. CountInv'
  <2>1. CASE UNCHANGED <<emitted, queue>>
    BY <1>2, <2>1 DEF LoopInv, CountInv, relayVars
  <2>2. ASSUME NEW e \in Event, Emit(e) PROVE CountInv'
    <3>1. Len(emitted') = Len(emitted) + 1 /\ Len(queue') = Len(queue) + 1
      BY <2>2 DEF Emit, LoopInv, TypeInv, TypeOK
    <3>2. /\ Len(emitted) \in Nat /\ Len(queue) \in Nat /\ Len(out) \in Nat
          /\ Len(pending_terminal_events) \in Nat
      BY DEF LoopInv, TypeInv, TypeOK
    <3>3. UNCHANGED <<pc, out, pending_terminal_events, streamed_chunk_count>>
      BY <1>2 DEF relayVars
    <3> QED
      BY <3>1, <3>2, <3>3 DEF LoopInv, CountInv
  <2> QED
    BY <1>3, <2>1, <2>2
<1>6. LoopDrained'
  BY <1>2 DEF LoopInv, LoopDrained, relayVars
<1>7. FirstChunkInv'
  BY <1>2 DEF LoopInv, FirstChunkInv, NeverEmpty, relayVars
<1>8. StatusInv'
  BY <1>2 DEF LoopInv, StatusInv, relayVars
<1> QED
  BY <1>1, <1>4, <1>5, <1>6, <1>7, <1>8 DEF LoopInv

\* A frame that leaves the queue is held back or relayed, and counted.
LEMMA DequeueKeepsLoopInv ==
    ASSUME LoopInv, HoldFrame \/ RelayFrame
    PROVE  LoopInv'
<1> USE DEF TypeOK
<1>1. TypeInv /\ TypeInv'
  BY TypeNext DEF LoopInv, Next, Relay
<1>2. /\ pc = "wait" /\ pc' = "poll" /\ queue # <<>> /\ queue' = Tail(queue)
      /\ streamed_chunk_count' = streamed_chunk_count + 1
      /\ UNCHANGED <<provider, result, stream_error, emitted>>
  BY DEF HoldFrame, RelayFrame, DequeueFrame, taskVars
<1>3. Head(queue) \in Event /\ Len(queue') = Len(queue) - 1
  BY <1>1, <1>2 DEF TypeInv
<1>4. RawInv'
  <2>1. passthrough_mode' <=> RawFrames
    <3>1. passthrough_mode => RawFrames
      BY DEF LoopInv, RawInv
    <3>2. passthrough_mode' = IF RawFrames THEN TRUE ELSE passthrough_mode
      BY DEF HoldFrame, RelayFrame, DequeueFrame
    <3> QED
      BY <1>1, <3>1, <3>2 DEF TypeInv
  <2>2. streamed_chunk_count' > 0
    BY <1>1, <1>2 DEF TypeInv
  <2>3. RawFrames' = RawFrames
    BY <1>2 DEF RawFrames
  <2> QED
    BY <1>2, <2>1, <2>2, <2>3 DEF LoopInv, RawInv
<1>5. CountInv'
  <2>1. CountInv
    BY DEF LoopInv
  <2>4. /\ Len(emitted) \in Nat /\ Len(queue) \in Nat /\ Len(out) \in Nat
        /\ Len(pending_terminal_events) \in Nat /\ streamed_chunk_count \in Nat
    BY <1>1 DEF TypeInv
  <2>2. CASE HoldFrame
    <3>1. /\ Len(pending_terminal_events') = Len(pending_terminal_events) + 1
          /\ out' = out
      BY <1>1, <1>3, <2>2 DEF HoldFrame, TypeInv
    <3> QED
      BY <1>2, <1>3, <2>1, <2>4, <3>1, SMTT(15) DEF CountInv
  <2>3. CASE RelayFrame
    <3>1. /\ Len(out') = Len(out) + 1
          /\ pending_terminal_events' = pending_terminal_events
      BY <1>1, <1>3, <2>3 DEF RelayFrame, Yield, TypeInv
    <3> QED
      BY <1>2, <1>3, <2>1, <2>4, <3>1, SMTT(15) DEF CountInv
  <2> QED
    BY <2>2, <2>3
<1>6. LoopDrained' /\ FirstChunkInv'
  BY <1>2 DEF LoopDrained, FirstChunkInv, NeverEmpty
<1>7. StatusInv'
  <2>1. StatusInv /\ pc \notin Ended
    BY <1>2 DEF LoopInv, Ended
  <2>2. CASE HoldFrame
    BY <2>1, <2>2 DEF HoldFrame, StatusInv
  <2>3. CASE RelayFrame
    <3>1. out \in Seq(Event)
      BY <1>1 DEF TypeInv
    <3>2. status' = 200 /\ out' = Append(out, Head(queue))
      BY <2>3 DEF RelayFrame, Yield
    <3>3. out' # <<>>
      BY <1>3, <3>1, <3>2
    <3> QED
      BY <3>2, <3>3 DEF StatusInv
  <2> QED
    BY <2>1, <2>2, <2>3
<1> QED
  BY <1>1, <1>4, <1>5, <1>6, <1>7 DEF LoopInv

\* Leaving the loop: raise, and then decide the status if nothing was sent, or
\* prepare what remains to be sent.
LEMMA SettleKeepsLoopInv == ASSUME LoopInv, Settle PROVE LoopInv'
<1>1. TypeInv /\ TypeInv'
  BY TypeNext DEF LoopInv, Next, Relay
<1>2. /\ pc = "poll" /\ TaskDone /\ queue = <<>>
      /\ UNCHANGED <<provider, hitl, taskVars, queue, passthrough_mode,
                     pending_terminal_events, streamed_chunk_count, out>>
  BY DEF Settle, LoopOver
<1>3. RawInv'
  BY <1>2 DEF LoopInv, RawInv, RawFrames, taskVars
<1>4. CountInv' /\ LoopDrained'
  BY <1>2 DEF Settle, CountInv, LoopDrained, TaskDone, taskVars
<1>5. FirstChunkInv'
  <2>1. CASE Raises
    BY <2>1 DEF Settle, FirstChunkInv, NeverEmpty
  <2>2. CASE ~Raises
    <3>1. Closing # <<>> \/ out # <<>>
      BY <1>2, <2>2, ClosingNonEmpty
    <3> QED
      BY <1>2, <2>2, <3>1 DEF Settle, FirstChunkInv, NeverEmpty
  <2> QED
    BY <2>1, <2>2
<1>6. StatusInv'
  <2>1. StatusInv /\ status \in {0, 200}
    BY <1>1, <1>2 DEF LoopInv, StatusInv, TypeInv, TypeOK, Ended
  <2>2. CASE Raises /\ status = 0
    <3>1. pc' = "raised" /\ status' = ErrorStatus /\ out = <<>>
      BY <2>1, <2>2 DEF Settle, StatusInv
    <3>2. ErrorStatus \in {502, 504} => emitted = <<>>
      BY <1>2, <2>2, RaisedBeforeFirst DEF ErrorStatus, ClientErrors
    <3>3. ErrorStatus \in {500, 502, 504}
      BY DEF ErrorStatus
    <3> QED
      BY <1>2, <3>1, <3>2, <3>3 DEF StatusInv, Ended, taskVars, TaskDone
  <2>3. CASE ~Raises \/ status # 0
    <3>1. UNCHANGED status
      BY <2>3 DEF Settle
    <3> QED
      BY <1>2, <2>1, <3>1 DEF StatusInv
  <2> QED
    BY <2>2, <2>3
<1> QED
  BY <1>1, <1>3, <1>4, <1>5, <1>6 DEF LoopInv

LEMMA LoopNext == LoopInv /\ [Next]_vars => LoopInv'
<1> SUFFICES ASSUME LoopInv, [Next]_vars PROVE LoopInv'
  OBVIOUS
<1>1. TypeInv /\ TypeInv'
  BY TypeNext DEF LoopInv
<1>2. CASE Run
  BY <1>2, RunKeepsLoopInv
<1>3. CASE Poll
  BY <1>1, <1>3 DEF Poll, LoopInv, RawInv, RawFrames, CountInv, LoopDrained,
       FirstChunkInv, NeverEmpty, StatusInv, Ended, taskVars, TaskDone
<1>4. CASE PollTimeout
  BY <1>1, <1>4 DEF PollTimeout, LoopInv, RawInv, RawFrames, CountInv,
       LoopDrained, FirstChunkInv, NeverEmpty, StatusInv, Ended, taskVars, TaskDone
<1>5. CASE HoldFrame \/ RelayFrame
  BY <1>5, DequeueKeepsLoopInv
<1>6. CASE Settle
  BY <1>6, SettleKeepsLoopInv
<1>7. CASE SendTail
  <2>1. status' = 200 /\ out' # <<>>
    <3>1. status' = 200 /\ out' = Append(out, Head(tail)) /\ tail # <<>>
      BY <1>7 DEF SendTail, Yield
    <3>2. out \in Seq(Event) /\ tail \in Seq(Event)
      BY <1>1 DEF TypeInv, TypeOK
    <3>3. Head(tail) \in Event
      BY <3>1, <3>2, HeadTailProperties
    <3> QED
      BY <3>1, <3>2, <3>3, AppendProperties
  <2> QED
    BY <1>1, <1>7, <2>1 DEF SendTail, LoopInv, RawInv, RawFrames, CountInv,
       LoopDrained, FirstChunkInv, NeverEmpty, StatusInv, taskVars, TaskDone
<1>8. CASE Close
  BY <1>1, <1>8 DEF Close, LoopInv, RawInv, RawFrames, CountInv, LoopDrained,
       FirstChunkInv, NeverEmpty, StatusInv, Ended, taskVars, TaskDone, TypeInv, TypeOK
<1>9. CASE Disconnect
  BY <1>1, <1>9 DEF Disconnect, LoopInv, RawInv, RawFrames, CountInv,
       LoopDrained, FirstChunkInv, NeverEmpty, StatusInv, Ended, taskVars, TaskDone
<1>10. CASE UNCHANGED vars
  BY <1>1, <1>10 DEF vars, LoopInv, RawInv, RawFrames, CountInv, LoopDrained,
       FirstChunkInv, NeverEmpty, StatusInv, taskVars, relayVars, TaskDone
<1> QED
  BY <1>2, <1>3, <1>4, <1>5, <1>6, <1>7, <1>8, <1>9, <1>10 DEF Next, Relay

\* stream() never leaves its poll loop before the task is done and its queue is
\* empty: no frame of the LLM is lost to the race between the two tests.
THEOREM LoopDrainedCorrect == Spec => []LoopDrained
<1>1. LoopInv => LoopDrained
  BY DEF LoopInv
<1> QED
  BY <1>1, LoopInit, LoopNext, PTL DEF Spec

\* A stream that ends without raising has a frame or a result behind it, and one
\* that raises an upstream's error with no frame behind it says so in its status.
EarlyInv ==
    /\ pc \in {"send", "closed", "cancelled"} => emitted # <<>> \/ result \in Success
    /\ pc = "raised" /\ result \in ClientErrors /\ emitted = <<>> => status \in {502, 504}

LEMMA EarlyNext == ASSUME LoopInv, EarlyInv, [Next]_vars PROVE EarlyInv'
<1> USE DEF Success, ClientErrors
<1>1. TypeOK /\ ResultInv /\ RawInv /\ CountInv /\ LoopDrained /\ StatusInv
  BY DEF LoopInv, TypeInv
<1>2. /\ Len(emitted) \in Nat /\ Len(out) \in Nat /\ Len(queue) \in Nat
      /\ Len(pending_terminal_events) \in Nat
      /\ emitted = <<>> => Len(emitted) = 0
      /\ Len(out) = 0 => out = <<>>
  BY <1>1 DEF TypeOK
<1>3. CASE Run
  <2>1. /\ phase # "done" /\ UNCHANGED relayVars
        /\ emitted' # <<>> \/ emitted' = emitted
    <3>1. ASSUME NEW e PROVE Append(emitted, e) # <<>>
      <4>0. emitted \in Seq(Event)
        BY <1>1 DEF TypeOK
      <4>1. Range(Append(emitted, e)) # {}
        BY <4>0, RangeOfAppend, Zenon
      <4> QED
        BY <4>1 DEF Range
    <3> QED
      BY <1>3, <3>1 DEF Run, Connect, StoredAnswer, ConnectFails, UpstreamEvent,
         MockToken, BodyEnds, BodyFails, RunEnds, Emit
  <2>2. result = "none"
    BY <1>1, <2>1 DEF ResultInv
  <2>3. pc \notin {"raised", "send", "closed"}
    BY <1>1, <2>1 DEF LoopDrained, TaskDone
  <2>4. pc = "cancelled" => emitted' # <<>>
    BY <2>1, <2>2 DEF EarlyInv
  <2> QED
    BY <2>1, <2>3, <2>4 DEF EarlyInv, relayVars
<1>4. CASE Settle
  <2>1. /\ pc = "poll" /\ TaskDone /\ UNCHANGED <<emitted, result>>
        /\ out = <<>> => status = 0
    BY <1>1, <1>4 DEF Settle, LoopOver, taskVars, StatusInv, Ended, TypeOK
  <2>2. CASE Raises
    <3>1. emitted = <<>> => out = <<>>
      BY <1>1, <1>2, <2>1 DEF CountInv
    <3>2. pc' = "raised" /\ (status = 0 => status' = ErrorStatus)
      BY <1>4, <2>2 DEF Settle
    <3>3. result \in ClientErrors => ErrorStatus \in {502, 504}
      BY DEF ErrorStatus
    <3> QED
      BY <2>1, <3>1, <3>2, <3>3 DEF EarlyInv
  <2>3. CASE ~Raises
    <3>1. pc' = "send"
      BY <1>4, <2>3 DEF Settle
    <3>2. result \in Success \/ passthrough_mode
      BY <1>1, <2>1, <2>3 DEF Raises, TypeOK, Result, ResultInv, TaskDone
    <3>3. passthrough_mode => emitted # <<>>
      BY <1>1, <1>2, <2>1 DEF RawInv, CountInv
    <3> QED
      BY <2>1, <3>1, <3>2, <3>3 DEF EarlyInv
  <2> QED
    BY <2>2, <2>3
<1>5. CASE SendTail \/ Close
  <2>1. pc = "send" /\ pc' \in {"send", "closed"} /\ UNCHANGED <<emitted, result>>
    BY <1>5 DEF SendTail, Close, taskVars
  <2> QED
    BY <2>1 DEF EarlyInv
<1>6. CASE Disconnect
  <2>1. /\ pc \in {"poll", "wait", "send"} /\ pc' = "cancelled" /\ out # <<>>
        /\ UNCHANGED <<emitted, result>>
    BY <1>1, <1>6 DEF Disconnect, taskVars, StatusInv, TypeOK, Ended
  <2>2. pc \in {"poll", "wait"} => emitted # <<>>
    BY <1>1, <1>2, <2>1 DEF CountInv
  <2> QED
    BY <2>1, <2>2 DEF EarlyInv
<1>7. CASE Poll \/ PollTimeout \/ HoldFrame \/ RelayFrame
  <2>1. pc' \in {"poll", "wait"}
    BY <1>7 DEF Poll, PollTimeout, HoldFrame, RelayFrame, DequeueFrame
  <2> QED
    BY <2>1 DEF EarlyInv
<1>8. CASE UNCHANGED vars
  BY <1>8 DEF vars, taskVars, relayVars, EarlyInv
<1> QED
  BY <1>3, <1>4, <1>5, <1>6, <1>7, <1>8 DEF Next, Relay

\* A JSON error status is decided only by a run that relayed nothing, 502 and 504
\* only by one that emitted nothing, and an upstream that failed before its first
\* frame is never hidden behind a status 200 or an empty stream.
THEOREM ErrorBeforeFirstChunkCorrect == Spec => []ErrorBeforeFirstChunk
<1>1. LoopInv /\ EarlyInv => ErrorBeforeFirstChunk
  BY DEF LoopInv, StatusInv, EarlyInv, ErrorBeforeFirstChunk, Ended, Success,
         ClientErrors
<1>2. Init => EarlyInv
  BY DEF Init, EarlyInv
<1> QED
  BY <1>1, <1>2, LoopInit, LoopNext, EarlyNext, PTL DEF Spec

\* The router's anext() always finds a first chunk in a run that ends normally.
THEOREM NeverEmptyCorrect == Spec => []NeverEmpty
<1>1. LoopInv => NeverEmpty
  BY DEF LoopInv, FirstChunkInv
<1> QED
  BY <1>1, LoopInit, LoopNext, PTL DEF Spec

(***************************************************************************)
(* The end of the stream and the end of the run.                           *)
(***************************************************************************)

NoTerminal(s) == \A i \in DOMAIN s : ~Terminal(s[i])

\* While the loop runs no terminal event is sent: a raw one is held back, and a
\* run that is not raw emits none.
EndInv ==
    /\ ~RawFrames => NoTerminal(queue)
    /\ TaskDone \/ NoTerminal(out)
    /\ pc \in {"poll", "wait"} => NoTerminal(out)

LEMMA NoTerminalAppend ==
    ASSUME NEW s \in Seq(Event), NEW e, ~Terminal(e), NoTerminal(s)
    PROVE  NoTerminal(Append(s, e))
<1>1. ASSUME NEW i \in DOMAIN Append(s, e) PROVE ~Terminal(Append(s, e)[i])
  <2>1. CASE i \in DOMAIN s
    BY <2>1 DEF NoTerminal
  <2>2. CASE i \notin DOMAIN s
    BY <1>1, <2>2
  <2> QED
    BY <2>1, <2>2
<1> QED
  BY <1>1 DEF NoTerminal

LEMMA NoTerminalTail ==
    ASSUME NEW s \in Seq(Event), s # <<>>, NoTerminal(s)
    PROVE  NoTerminal(Tail(s)) /\ ~Terminal(Head(s))
<1>1. /\ Head(s) = s[1] /\ 1 \in DOMAIN s
      /\ \A i \in DOMAIN Tail(s) : i + 1 \in DOMAIN s /\ Tail(s)[i] = s[i + 1]
  OBVIOUS
<1> QED
  BY <1>1 DEF NoTerminal

LEMMA EndNext == LoopInv /\ EndInv /\ [Next]_vars => EndInv'
<1> SUFFICES ASSUME LoopInv, EndInv, [Next]_vars PROVE EndInv'
  OBVIOUS
<1>1. /\ queue \in Seq(Event) /\ out \in Seq(Event)
      /\ LoopDrained
  BY DEF LoopInv, TypeInv, TypeOK
<1>2. CASE Run
  <2>1. ~TaskDone /\ UNCHANGED <<provider, pc, out>>
    BY <1>2 DEF Run, Connect, StoredAnswer, ConnectFails, UpstreamEvent, MockToken,
         BodyEnds, BodyFails, RunEnds, TaskDone, relayVars
  <2>2. ~RawFrames => NoTerminal(queue')
    <3>1. CASE UNCHANGED queue
      BY <3>1 DEF EndInv
    <3>2. CASE UpstreamEvent
      BY <3>2 DEF UpstreamEvent, RawFrames
    <3>3. CASE MockToken
      <4>1. queue' = Append(queue, ContentChunk)
        BY <3>3 DEF MockToken, Emit
      <4> QED
        BY <1>1, <4>1, OwnChunks, NoTerminalAppend DEF EndInv
    <3> QED
      BY <1>2, <3>1, <3>2, <3>3 DEF Run, Connect, StoredAnswer, ConnectFails,
         BodyEnds, BodyFails, RunEnds
  <2> QED
    BY <2>1, <2>2 DEF EndInv, RawFrames
<1>3. CASE HoldFrame
  <2>1. /\ queue # <<>> /\ queue' = Tail(queue) /\ pc = "wait"
        /\ UNCHANGED <<provider, phase, out>>
    BY <1>3 DEF HoldFrame, DequeueFrame, taskVars
  <2>2. ~RawFrames => NoTerminal(queue')
    BY <1>1, <2>1, NoTerminalTail DEF EndInv
  <2> QED
    BY <2>1, <2>2 DEF EndInv, RawFrames, TaskDone
<1>4. CASE RelayFrame
  <2>1. /\ queue # <<>> /\ queue' = Tail(queue) /\ pc = "wait"
        /\ out' = Append(out, Head(queue)) /\ ~HeldBack(Head(queue))
        /\ UNCHANGED <<provider, phase>>
    BY <1>4 DEF RelayFrame, DequeueFrame, Yield, taskVars
  <2>2. ~RawFrames => NoTerminal(queue') /\ ~Terminal(Head(queue))
    BY <1>1, <2>1, NoTerminalTail DEF EndInv
  <2>3. NoTerminal(out')
    BY <1>1, <2>1, <2>2, NoTerminalAppend DEF EndInv, HeldBack
  <2> QED
    BY <2>1, <2>2, <2>3 DEF EndInv, RawFrames
<1>5. CASE SendTail
  BY <1>1, <1>5 DEF SendTail, EndInv, LoopDrained, TaskDone, RawFrames, taskVars
<1>6. CASE Poll \/ PollTimeout \/ Settle \/ Close \/ Disconnect \/ UNCHANGED vars
  <2>1. /\ UNCHANGED <<provider, phase, queue, out>>
        /\ pc' \in {"poll", "wait"} => pc \in {"poll", "wait"}
    BY <1>6 DEF Poll, PollTimeout, Settle, Close, Disconnect, vars, taskVars, relayVars
  <2> QED
    BY <2>1 DEF EndInv, RawFrames, TaskDone
<1> QED
  BY <1>2, <1>3, <1>4, <1>5, <1>6 DEF Next, Relay

(***************************************************************************)
(* What a client reads against what the relay looked at.  Every event on   *)
(* its way to the client is one the task emitted or one of stream()'s own: *)
(* where the upstream's closing lines lead, both see the same of it.       *)
(***************************************************************************)

Own   == {ContentChunk, ToolCallsChunk, FinishChunk, DoneChunk}
Known == Range(emitted) \union Own

KnownInv ==
    /\ queue \in Seq(Known) /\ pending_terminal_events \in Seq(Known)
    /\ tail \in Seq(Known) /\ out \in Seq(Known)

\* The history only grows.
LEMMA KnownGrows ==
    ASSUME TypeOK, [Next]_vars
    PROVE  Known \subseteq Known' /\ Range(emitted) \subseteq Range(emitted)'
<1>1. UNCHANGED emitted \/ \E e : emitted' = Append(emitted, e)
  BY DEF Next, Run, Connect, StoredAnswer, ConnectFails, UpstreamEvent, MockToken,
     BodyEnds, BodyFails, RunEnds, Emit, Relay, Poll, PollTimeout, HoldFrame,
     RelayFrame, DequeueFrame, Settle, SendTail, Close, Disconnect, vars, taskVars
<1>2. Range(emitted) \subseteq Range(emitted')
  <2>1. emitted \in Seq(Event)
    BY DEF TypeOK
  <2>2. ASSUME NEW e PROVE Range(emitted) \subseteq Range(Append(emitted, e))
    BY <2>1, RangeOfAppend
  <2> QED
    BY <1>1, <2>2
<1> QED
  BY <1>2 DEF Known

LEMMA ClosersShrink ==
    ASSUME TypeOK, [Next]_vars, ClosersLead' PROVE ClosersLead
  BY KnownGrows DEF ClosersLead

LEMMA SameVerdict ==
    ASSUME ClosersLead, NEW e \in Known
    PROVE  Closes(e) <=> Terminal(e)
<1>1. CASE e \in Range(emitted)
  BY <1>1 DEF ClosersLead, Closes, Terminal
<1>2. CASE e \in Own
  BY <1>2 DEF Own, Closes, Terminal, ContentChunk, ToolCallsChunk, FinishChunk, DoneChunk
<1> QED
  BY <1>1, <1>2 DEF Known

LEMMA KnownInit == Init => KnownInv
<1>1. <<>> \in Seq(Known)
  OBVIOUS
<1> QED
  BY <1>1 DEF Init, KnownInv

LEMMA WiderSeq ==
    ASSUME NEW A, NEW B, A \subseteq B, NEW s \in Seq(A) PROVE s \in Seq(B)
  OBVIOUS

LEMMA KnownNext ==
    ASSUME TypeInv, KnownInv, [Next]_vars PROVE KnownInv'
<1> DEFINE K == Known'
<1>1. Known \subseteq K
  BY KnownGrows DEF TypeInv
<1> HIDE DEF K
<1>2. /\ queue \in Seq(K) /\ pending_terminal_events \in Seq(K)
      /\ tail \in Seq(K) /\ out \in Seq(K)
  BY <1>1, WiderSeq DEF KnownInv
<1>3. Own \subseteq K
  BY DEF K, Known
<1>4. CASE Run
  <2>1. UNCHANGED queue \/ \E e : Emit(e)
    BY <1>4 DEF Run, Connect, StoredAnswer, ConnectFails, UpstreamEvent, MockToken,
       BodyEnds, BodyFails, RunEnds
  <2>2. ASSUME NEW e, Emit(e) PROVE queue' \in Seq(K)
    <3>1. e \in Range(emitted')
      BY <2>2, RangeOfAppend DEF Emit, TypeInv, TypeOK
    <3>2. e \in K
      BY <3>1 DEF K, Known
    <3> QED
      BY <1>2, <2>2, <3>2 DEF Emit
  <2>3. UNCHANGED relayVars
    BY <1>4 DEF Run, Connect, StoredAnswer, ConnectFails, UpstreamEvent, MockToken,
       BodyEnds, BodyFails, RunEnds
  <2>4. queue' \in Seq(K)
    BY <1>2, <2>1, <2>2
  <2> QED
    BY <1>2, <2>3, <2>4 DEF KnownInv, K, relayVars
<1>5. CASE HoldFrame \/ RelayFrame
  <2>1. Head(queue) \in K /\ Tail(queue) \in Seq(K)
    BY <1>2, <1>5, HeadTailProperties DEF HoldFrame, RelayFrame, DequeueFrame
  <2>2. /\ queue' = Tail(queue) /\ UNCHANGED tail
        /\ \/ pending_terminal_events' = Append(pending_terminal_events, Head(queue))
              /\ UNCHANGED out
           \/ out' = Append(out, Head(queue)) /\ UNCHANGED pending_terminal_events
    BY <1>5 DEF HoldFrame, RelayFrame, DequeueFrame, Yield
  <2>3. /\ Append(pending_terminal_events, Head(queue)) \in Seq(K)
        /\ Append(out, Head(queue)) \in Seq(K)
    BY <1>2, <2>1
  <2>4. pending_terminal_events' \in Seq(K) /\ out' \in Seq(K)
    BY <1>2, <2>2, <2>3
  <2> QED
    BY <1>2, <2>1, <2>2, <2>4 DEF KnownInv, K
<1>6. CASE Settle
  <2>1. Closing \in Seq(K) \/ Raises
    <3>1. \/ Closing = pending_terminal_events \/ Raises
          \/ Closing \in {<<ToolCallsChunk, FinishChunk, DoneChunk>>,
                          <<ContentChunk, FinishChunk, DoneChunk>>,
                          <<FinishChunk, DoneChunk>>}
      <4>1. \/ result = "tool_calls" \/ Raises
            \/ result # "tool_calls" /\ passthrough_mode
            \/ result = "answer" /\ ~passthrough_mode
        BY <1>6 DEF Settle, LoopOver, TaskDone, TypeInv, TypeOK, ResultInv, Result,
           Success, ClientErrors, Raises
      <4>2. CASE result = "tool_calls"
        BY <4>2 DEF Closing
      <4>3. CASE result # "tool_calls" /\ passthrough_mode
        BY <4>3 DEF Closing
      <4>4. CASE result = "answer" /\ ~passthrough_mode
        BY <4>4 DEF Closing
      <4> QED
        BY <4>1, <4>2, <4>3, <4>4
    <3>2. /\ ContentChunk \in K /\ ToolCallsChunk \in K
          /\ FinishChunk \in K /\ DoneChunk \in K
      BY <1>3 DEF Own
    <3>3. /\ <<ToolCallsChunk, FinishChunk, DoneChunk>> \in Seq(K)
          /\ <<ContentChunk, FinishChunk, DoneChunk>> \in Seq(K)
          /\ <<FinishChunk, DoneChunk>> \in Seq(K)
      BY <3>2
    <3> QED
      BY <1>2, <3>1, <3>3
  <2>2. /\ UNCHANGED <<queue, pending_terminal_events, out>>
        /\ tail' = tail \/ (~Raises /\ tail' = Closing)
    BY <1>6 DEF Settle
  <2>3. tail' \in Seq(K)
    BY <1>2, <2>1, <2>2
  <2> QED
    BY <1>2, <2>2, <2>3 DEF KnownInv, K
<1>7. CASE SendTail
  <2>1. Head(tail) \in K /\ Tail(tail) \in Seq(K)
    BY <1>2, <1>7, HeadTailProperties DEF SendTail
  <2>2. /\ out' = Append(out, Head(tail)) /\ tail' = Tail(tail)
        /\ UNCHANGED <<queue, pending_terminal_events>>
    BY <1>7 DEF SendTail, Yield
  <2>3. out' \in Seq(K)
    BY <1>2, <2>1, <2>2, AppendProperties
  <2> QED
    BY <1>2, <2>1, <2>2, <2>3 DEF KnownInv, K
<1>8. CASE Poll \/ PollTimeout \/ Close \/ Disconnect \/ UNCHANGED vars
  <2>1. UNCHANGED <<queue, pending_terminal_events, tail, out>>
    BY <1>8 DEF Poll, PollTimeout, Close, Disconnect, vars, relayVars
  <2> QED
    BY <1>2, <2>1 DEF KnownInv, K
<1> QED
  BY <1>4, <1>5, <1>6, <1>7, <1>8 DEF Next, Relay

(***************************************************************************)
(* What a stream that reaches its end says of the turn.                    *)
(***************************************************************************)

\* An upstream error that came after a frame was read in one of them.
ErrInv ==
    /\ phase = "connect" => emitted = <<>>
    /\ stream_error => \E e \in Range(emitted) : HasError(e)
    /\ result \in ClientErrors /\ emitted # <<>> => stream_error

Saved == result \in Success \/ \E e \in Range(out) \union Range(tail) : HasError(e)

\* No frame is lost on its way through the loop, and what is written after the
\* loop follows a saved turn or shows the error.
SavedInv ==
    /\ pc \in {"poll", "wait"} =>
         Range(emitted) \subseteq
            Range(out) \union Range(pending_terminal_events) \union Range(queue)
    /\ pc = "send" \/ ~NoTerminal(out) => Saved

LEMMA ErrNext == ASSUME TypeInv, ErrInv, [Next]_vars PROVE ErrInv'
<1>1. emitted \in Seq(Event) /\ (result # "none" <=> phase = "done")
  BY DEF TypeInv, TypeOK, ResultInv
<1>2. ASSUME NEW e, Emit(e), phase' # "connect", result' \notin ClientErrors,
             stream_error' => stream_error \/ HasError(e)
      PROVE  ErrInv'
  <2>1. Range(emitted') = Range(emitted) \union {e}
    BY <1>1, <1>2, RangeOfAppend DEF Emit
  <2> QED
    BY <1>2, <2>1 DEF ErrInv
<1>3. CASE UpstreamEvent
  BY <1>1, <1>2, <1>3 DEF UpstreamEvent, ClientErrors
<1>4. CASE MockToken
  BY <1>1, <1>2, <1>4 DEF MockToken, ClientErrors
<1>5. CASE Connect \/ StoredAnswer \/ ConnectFails \/ BodyEnds \/ BodyFails \/ RunEnds
  <2>1. UNCHANGED <<emitted, stream_error>> /\ phase' # "connect"
    BY <1>5 DEF Connect, StoredAnswer, ConnectFails, BodyEnds, BodyFails, RunEnds, Return
  <2>2. result' \in ClientErrors => phase = "connect" \/ stream_error
    BY <1>1, <1>5 DEF Connect, StoredAnswer, ConnectFails, BodyEnds, BodyFails, RunEnds,
       Return, ClientErrors
  <2> QED
    BY <2>1, <2>2 DEF ErrInv
<1>6. CASE Relay \/ Disconnect \/ UNCHANGED vars
  <2>1. UNCHANGED <<phase, result, stream_error, emitted>>
    BY <1>6 DEF Relay, Disconnect, Poll, PollTimeout, HoldFrame, RelayFrame,
       DequeueFrame, Settle, SendTail, Close, vars, taskVars
  <2> QED
    BY <2>1 DEF ErrInv
<1> QED
  BY <1>3, <1>4, <1>5, <1>6 DEF Next, Run

\* An event that moves from one sequence to the other stays in one of them.
LEMMA RangeOfMove ==
    ASSUME NEW M, NEW a \in Seq(M), NEW b \in Seq(M), b # <<>>
    PROVE  Range(Append(a, Head(b))) \union Range(Tail(b)) = Range(a) \union Range(b)
  BY RangeOfAppend, RangeOfTail

LEMMA SettleSaves ==
    ASSUME LoopInv, ErrInv, SavedInv, Settle, ~Raises
    PROVE  result \in Success \/ \E e \in Range(out) \union Range(Closing) : HasError(e)
<1> USE DEF LoopInv, TypeInv, TypeOK, Success, ClientErrors
<1>1. pc = "poll" /\ TaskDone /\ queue = <<>>
  BY DEF Settle, LoopOver
<1>2. SUFFICES ASSUME result \notin Success
               PROVE  \E e \in Range(out) \union Range(Closing) : HasError(e)
  OBVIOUS
<1>3. result \in ClientErrors /\ passthrough_mode /\ result # "tool_calls"
  BY <1>1, <1>2 DEF Raises, Result, ResultInv, TaskDone
<1>4. emitted # <<>>
  <2>1. Len(emitted) > 0
    BY <1>1, <1>3 DEF RawInv, CountInv
  <2> QED
    BY <2>1
<1>5. PICK e \in Range(emitted) : HasError(e)
  BY <1>3, <1>4 DEF ErrInv
<1>6. Closing = pending_terminal_events
  BY <1>3 DEF Closing
<1>7. Range(queue) = {}
  BY <1>1 DEF Range
<1>8. e \in Range(out) \union Range(Closing)
  BY <1>1, <1>5, <1>6, <1>7 DEF SavedInv
<1> QED
  BY <1>5, <1>8

LEMMA SavedNext ==
    ASSUME LoopInv, EndInv, ErrInv, SavedInv, [Next]_vars PROVE SavedInv'
<1>1. /\ emitted \in Seq(Event) /\ queue \in Seq(Event) /\ out \in Seq(Event)
      /\ tail \in Seq(Event) /\ pending_terminal_events \in Seq(Event)
      /\ LoopDrained
      /\ pc \in {"poll", "wait"} => NoTerminal(out)
      /\ TaskDone \/ NoTerminal(out)
  BY DEF LoopInv, TypeInv, TypeOK, EndInv
<1>2. CASE Run
  <2>1. /\ ~TaskDone /\ UNCHANGED relayVars
        /\ UNCHANGED <<emitted, queue>> \/ \E e : Emit(e)
    BY <1>2 DEF Run, Connect, StoredAnswer, ConnectFails, UpstreamEvent, MockToken,
       BodyEnds, BodyFails, RunEnds, TaskDone
  <2>2. ASSUME NEW e, Emit(e)
        PROVE  /\ Range(emitted') = Range(emitted) \union {e}
               /\ Range(queue') = Range(queue) \union {e}
    BY <1>1, <2>2, RangeOfAppend DEF Emit
  <2>3. pc' = pc /\ pc # "send" /\ NoTerminal(out') /\ out' = out
        /\ UNCHANGED pending_terminal_events
    BY <1>1, <2>1 DEF LoopDrained, relayVars
  <2> QED
    BY <2>1, <2>2, <2>3 DEF SavedInv
<1>3. CASE HoldFrame \/ RelayFrame
  <2>1. /\ pc = "wait" /\ pc' = "poll" /\ queue # <<>> /\ queue' = Tail(queue)
        /\ UNCHANGED emitted
        /\ \/ pending_terminal_events' = Append(pending_terminal_events, Head(queue))
              /\ UNCHANGED out
           \/ out' = Append(out, Head(queue)) /\ UNCHANGED pending_terminal_events
    BY <1>3 DEF HoldFrame, RelayFrame, DequeueFrame, Yield, taskVars
  <2>2. Range(out') \union Range(pending_terminal_events') \union Range(queue')
          = Range(out) \union Range(pending_terminal_events) \union Range(queue)
    <3>1. /\ Range(Append(out, Head(queue))) \union Range(Tail(queue))
               = Range(out) \union Range(queue)
          /\ Range(Append(pending_terminal_events, Head(queue))) \union Range(Tail(queue))
               = Range(pending_terminal_events) \union Range(queue)
      BY <1>1, <2>1, RangeOfMove
    <3> QED
      BY <2>1, <3>1
  <2>3. NoTerminal(out')
    <3>1. EndInv'
      BY EndNext
    <3> QED
      BY <2>1, <3>1 DEF EndInv
  <2> QED
    BY <2>1, <2>2, <2>3 DEF SavedInv
<1>4. CASE Settle
  <2>1. pc = "poll" /\ UNCHANGED <<result, out>> /\ NoTerminal(out)
    BY <1>1, <1>4 DEF Settle, taskVars
  <2>2. CASE Raises
    BY <1>4, <2>1, <2>2 DEF Settle, SavedInv
  <2>3. CASE ~Raises
    BY <1>4, <2>1, <2>3, SettleSaves DEF Settle, SavedInv, Saved
  <2> QED
    BY <2>2, <2>3
<1>5. CASE SendTail
  <2>1. /\ pc = "send" /\ pc' = "send" /\ UNCHANGED result /\ tail # <<>>
        /\ out' = Append(out, Head(tail)) /\ tail' = Tail(tail)
    BY <1>5 DEF SendTail, Yield, taskVars
  <2>2. Range(out') \union Range(tail') = Range(out) \union Range(tail)
    BY <1>1, <2>1, RangeOfMove
  <2> QED
    BY <2>1, <2>2 DEF SavedInv, Saved
<1>6. CASE Poll \/ PollTimeout \/ Close \/ Disconnect \/ UNCHANGED vars
  <2>1. /\ UNCHANGED <<result, emitted, queue, pending_terminal_events, tail, out>>
        /\ pc' \in {"poll", "wait"} => pc \in {"poll", "wait"}
        /\ pc' = "send" => pc = "send"
    BY <1>6 DEF Poll, PollTimeout, Close, Disconnect, vars, taskVars, relayVars
  <2> QED
    BY <2>1 DEF SavedInv, Saved
<1> QED
  BY <1>2, <1>3, <1>4, <1>5, <1>6 DEF Next, Relay

\* A client that reads finish or [DONE] anywhere in an event can rely on the run
\* being over and, where no error chunk is shown, on its turn being saved: for
\* every upstream whose closing lines lead, however polls and tokens interleave.
THEOREM EndsAfterRunCorrect == Spec => []EndsAfterRun
<1> DEFINE I == LoopInv /\ EndInv /\ KnownInv /\ ErrInv /\ SavedInv
<1>1. Init => I
  <2>1. Init => EndInv /\ ErrInv /\ SavedInv
    BY DEF Init, EndInv, ErrInv, SavedInv, NoTerminal, Range, ClientErrors
  <2> QED
    BY <2>1, LoopInit, KnownInit
<1>2. I /\ [Next]_vars => I'
  BY LoopNext, EndNext, KnownNext, ErrNext, SavedNext DEF LoopInv
<1>3. I => EndsAfterRun
  <2> SUFFICES ASSUME I, ClosersLead, NEW i \in DOMAIN out, Closes(out[i])
               PROVE  TaskDone /\ Saved
    BY DEF EndsAfterRun, Saved
  <2>1. out[i] \in Known
    BY DEF KnownInv
  <2>2. Terminal(out[i])
    BY <2>1, SameVerdict
  <2>3. ~NoTerminal(out)
    BY <2>2 DEF NoTerminal
  <2> QED
    BY <2>3 DEF EndInv, SavedInv
<1> QED
  BY <1>1, <1>2, <1>3, PTL DEF Spec

(***************************************************************************)
(* The order of what the client reads, where the upstream's closing lines  *)
(* lead, and the refinement of ClientStream.                               *)
(***************************************************************************)

Sent == Events \union {ContentChunk, ToolCallsChunk, FinishChunk, DoneChunk}

\* The upstream stops at its [DONE]: in the queue it can only be the last frame.
\* Only raw frames are ever terminal.
QueueInv ==
    /\ queue \in Seq(Sent)
    /\ \A i \in DOMAIN queue :
         /\ Stops(queue[i]) => /\ Terminal(queue[i])
                              /\ i = Len(queue) /\ phase \in {"save", "done"}
         /\ ~RawFrames => ~Terminal(queue[i])

\* While the loop runs nothing terminal was relayed, everything held back is
\* terminal, and a [DONE] held back is the last frame of the run.
HoldInv ==
    /\ pending_terminal_events \in Seq(Sent)
    /\ pc \in {"poll", "wait"} =>
         /\ \A i \in DOMAIN out : ~Terminal(out[i]) /\ ~Stops(out[i])
         /\ \A i \in DOMAIN pending_terminal_events :
              /\ Terminal(pending_terminal_events[i])
              /\ Stops(pending_terminal_events[i]) =>
                   /\ i = Len(pending_terminal_events)
                   /\ queue = <<>> /\ phase \in {"save", "done"}

Ordered(s) ==
    \A i, j \in DOMAIN s : i < j =>
        /\ Terminal(s[i]) => Terminal(s[j])
        /\ ~Stops(s[i])

\* What remains to be sent may follow what was sent.
TailInv ==
    /\ tail \in Seq(Sent)
    /\ pc = "send" =>
         /\ Ordered(tail)
         /\ \A i \in DOMAIN out, j \in DOMAIN tail :
              ~Stops(out[i]) /\ (Terminal(out[i]) => Terminal(tail[j]))

OrderInv == LoopInv /\ QueueInv /\ HoldInv /\ TailInv /\ Ordered(out)

LEMMA SentEvents == Sent \subseteq Event
  BY OwnChunks, EventsAssumption DEF Sent

LEMMA OrderInit == Init => OrderInv
<1> SUFFICES ASSUME Init PROVE OrderInv
  OBVIOUS
<1>1. LoopInv
  BY LoopInit
<1>2. <<>> \in Seq(Sent) /\ DOMAIN <<>> = {}
  OBVIOUS
<1>3. queue = <<>> /\ out = <<>> /\ tail = <<>> /\ pending_terminal_events = <<>>
      /\ pc = "poll"
  BY DEF Init
<1> QED
  BY <1>1, <1>2, <1>3 DEF OrderInv, QueueInv, HoldInv, TailInv, Ordered

\* An event that may follow every event of an ordered stream keeps it ordered.
LEMMA OrderedAppend ==
    ASSUME NEW s \in Seq(Event), NEW e \in Event, Ordered(s),
           \A i \in DOMAIN s : ~Stops(s[i]) /\ (Terminal(s[i]) => Terminal(e))
    PROVE  Ordered(Append(s, e))
<1> DEFINE t == Append(s, e)
<1>1. /\ DOMAIN s = 1..Len(s) /\ Len(s) \in Nat
      /\ DOMAIN t = 1..(Len(s) + 1)
      /\ \A i \in 1..Len(s) : t[i] = s[i]
      /\ t[Len(s) + 1] = e
  OBVIOUS
<1>2. SUFFICES ASSUME NEW i \in DOMAIN t, NEW j \in DOMAIN t, i < j
               PROVE  (Terminal(t[i]) => Terminal(t[j])) /\ ~Stops(t[i])
  BY DEF Ordered
<1> HIDE DEF t
<1>3. i \in DOMAIN s /\ (j \in DOMAIN s \/ j = Len(s) + 1)
  BY <1>1, <1>2
<1>4. CASE j \in DOMAIN s
  <2>1. t[i] = s[i] /\ t[j] = s[j]
    BY <1>1, <1>3, <1>4
  <2>2. (Terminal(s[i]) => Terminal(s[j])) /\ ~Stops(s[i])
    BY <1>2, <1>3, <1>4 DEF Ordered
  <2> QED
    BY <2>1, <2>2
<1>5. CASE j = Len(s) + 1
  <2>1. t[i] = s[i] /\ t[j] = e
    BY <1>1, <1>3, <1>5
  <2> QED
    BY <1>3, <2>1
<1> QED
  BY <1>3, <1>4, <1>5

\* A frame the task emits: an event of the upstream, read as far as its [DONE],
\* or a token of the mock.
LEMMA EmitKeepsQueueInv ==
    ASSUME OrderInv, ClosersLead', Run PROVE QueueInv'
<1>1. TypeOK /\ TypeOK' /\ QueueInv
  BY TypeNext DEF OrderInv, LoopInv, TypeInv, Next
<1>2. UNCHANGED provider
  BY DEF Run, Connect, StoredAnswer, ConnectFails, UpstreamEvent, MockToken,
         BodyEnds, BodyFails, RunEnds
<1>3. CASE UNCHANGED queue /\ (phase \in {"save", "done"} => phase' \in {"save", "done"})
  BY <1>2, <1>3, <1>1 DEF QueueInv, RawFrames
<1>4. ASSUME NEW e \in Sent, Emit(e), phase = "body",
             Stops(e) => Terminal(e) /\ phase' = "save",
             ~RawFrames => ~Terminal(e)
      PROVE  QueueInv'
  <2>1. queue \in Seq(Sent) /\ queue' = Append(queue, e)
    BY <1>1, <1>4 DEF QueueInv, Emit
  <2>2. /\ queue' \in Seq(Sent) /\ DOMAIN queue' = 1..(Len(queue) + 1)
        /\ Len(queue') = Len(queue) + 1 /\ DOMAIN queue = 1..Len(queue)
        /\ \A i \in 1..Len(queue) : queue'[i] = queue[i]
        /\ queue'[Len(queue) + 1] = e
        /\ Len(queue) \in Nat
    BY <2>1
  <2>3. ASSUME NEW i \in DOMAIN queue
        PROVE  ~Stops(queue[i]) /\ (~RawFrames => ~Terminal(queue[i]))
    BY <1>1, <1>4 DEF QueueInv
  <2>4. RawFrames' = RawFrames
    BY <1>2 DEF RawFrames
  <2>5. ASSUME NEW i \in DOMAIN queue'
        PROVE  /\ Stops(queue'[i]) =>
                    /\ Terminal(queue'[i])
                    /\ i = Len(queue') /\ phase' \in {"save", "done"}
               /\ ~RawFrames' => ~Terminal(queue'[i])
    <3>1. CASE i \in DOMAIN queue
      BY <2>2, <2>3, <2>4, <3>1
    <3>2. CASE i = Len(queue) + 1
      BY <1>4, <2>2, <2>4, <3>2
    <3> QED
      BY <2>2, <2>5, <3>1, <3>2
  <2> QED
    BY <2>2, <2>5 DEF QueueInv
<1>5. CASE UpstreamEvent
  <2>1. PICK e \in Events : Emit(e) /\ phase' = IF Stops(e) THEN "save" ELSE "body"
    BY <1>5 DEF UpstreamEvent
  <2>2. Stops(e) => Terminal(e)
    <3>1. e \in Range(emitted')
      BY <1>1, <2>1, RangeOfAppend DEF Emit, TypeOK
    <3>2. Stops(e) => Closes(e)
      BY DEF Stops, Closes
    <3> QED
      BY <3>1, <3>2 DEF ClosersLead
  <2> QED
    BY <1>4, <1>5, <2>1, <2>2 DEF UpstreamEvent, RawFrames, Sent
<1>6. CASE MockToken
  BY <1>4, <1>6, OwnChunks DEF MockToken, Sent
<1>7. CASE Run /\ ~UpstreamEvent /\ ~MockToken
  BY <1>3, <1>7 DEF Run, Connect, StoredAnswer, ConnectFails, BodyEnds,
       BodyFails, RunEnds, Return
<1> QED
  BY <1>5, <1>6, <1>7

LEMMA RunKeepsOrder ==
    ASSUME OrderInv, ClosersLead', Run PROVE OrderInv'
<1>1. LoopInv' /\ QueueInv'
  BY LoopNext, EmitKeepsQueueInv DEF OrderInv, Next
<1>2. UNCHANGED relayVars /\ phase \in {"connect", "body", "save"}
  BY DEF Run, Connect, StoredAnswer, ConnectFails, UpstreamEvent, MockToken,
         BodyEnds, BodyFails, RunEnds
<1>3. \/ phase = "save" /\ UNCHANGED queue /\ phase' = "done"
      \/ phase \in {"connect", "body"}
  BY <1>2 DEF Run, Connect, StoredAnswer, ConnectFails, UpstreamEvent, MockToken,
         BodyEnds, BodyFails, RunEnds, Return
<1>4. HoldInv'
  BY <1>2, <1>3 DEF OrderInv, HoldInv, relayVars
<1>5. TailInv' /\ Ordered(out)'
  BY <1>2 DEF OrderInv, TailInv, Ordered, relayVars
<1> QED
  BY <1>1, <1>4, <1>5 DEF OrderInv

\* The frame at the head of the queue, and what is left behind it.
LEMMA DequeueFacts ==
    ASSUME OrderInv, DequeueFrame
    PROVE  /\ Head(queue) \in Sent /\ pc = "wait" /\ pc' = "poll"
           /\ Stops(Head(queue)) =>
                Terminal(Head(queue)) /\ queue' = <<>> /\ phase \in {"save", "done"}
           /\ ~RawFrames => ~Terminal(Head(queue))
           /\ QueueInv'
           /\ UNCHANGED <<provider, phase, tail>>
<1>1. /\ pc = "wait" /\ pc' = "poll" /\ queue # <<>> /\ queue' = Tail(queue)
      /\ UNCHANGED <<provider, phase, tail>>
  BY DEF DequeueFrame, taskVars
<1>2. queue \in Seq(Sent) /\ QueueInv
  BY DEF OrderInv, QueueInv
<1>3. /\ Len(queue) \in Nat /\ Len(queue) > 0 /\ DOMAIN queue = 1..Len(queue)
      /\ Head(queue) = queue[1] /\ Head(queue) \in Sent
      /\ queue' \in Seq(Sent) /\ Len(queue') = Len(queue) - 1
      /\ DOMAIN queue' = 1..(Len(queue) - 1)
      /\ \A i \in 1..(Len(queue) - 1) : queue'[i] = queue[i + 1]
  BY <1>1, <1>2, HeadTailProperties
<1>4. 1 \in DOMAIN queue
  BY <1>3
<1>5. Stops(Head(queue)) =>
        Terminal(Head(queue)) /\ queue' = <<>> /\ phase \in {"save", "done"}
  <2>1. Stops(queue[1]) =>
          Terminal(queue[1]) /\ Len(queue) = 1 /\ phase \in {"save", "done"}
    BY <1>2, <1>4 DEF QueueInv
  <2>2. Len(queue) = 1 => queue' = <<>>
    BY <1>3
  <2> QED
    BY <1>3, <2>1, <2>2
<1>6. ~RawFrames => ~Terminal(Head(queue))
  BY <1>2, <1>3, <1>4 DEF QueueInv
<1>7. QueueInv'
  <2>1. ASSUME NEW i \in DOMAIN queue'
        PROVE  /\ Stops(queue'[i]) =>
                    /\ Terminal(queue'[i])
                    /\ i = Len(queue') /\ phase' \in {"save", "done"}
               /\ ~RawFrames' => ~Terminal(queue'[i])
    <3>1. i + 1 \in DOMAIN queue /\ queue'[i] = queue[i + 1]
      BY <1>3, <2>1
    <3>2. /\ Stops(queue[i + 1]) =>
               /\ Terminal(queue[i + 1])
               /\ i + 1 = Len(queue) /\ phase \in {"save", "done"}
          /\ ~RawFrames => ~Terminal(queue[i + 1])
      BY <1>2, <3>1 DEF QueueInv
    <3>3. RawFrames' = RawFrames /\ phase' = phase
      BY <1>1 DEF RawFrames
    <3>4. i + 1 = Len(queue) => i = Len(queue')
      BY <1>3, <2>1
    <3> QED
      BY <3>1, <3>2, <3>3, <3>4
  <2> QED
    BY <1>3, <2>1 DEF QueueInv
<1> QED
  BY <1>1, <1>3, <1>5, <1>6, <1>7

LEMMA HoldKeepsOrder ==
    ASSUME OrderInv, HoldFrame PROVE OrderInv'
<1> DEFINE e == Head(queue)
           p == pending_terminal_events
<1>1. /\ e \in Sent /\ pc = "wait" /\ pc' = "poll" /\ QueueInv'
      /\ Stops(e) => queue' = <<>> /\ phase \in {"save", "done"}
      /\ UNCHANGED <<provider, phase, tail>>
  BY DequeueFacts DEF HoldFrame
<1>2. Terminal(e) /\ p' = Append(p, e) /\ UNCHANGED out
  BY DEF HoldFrame, HeldBack
<1>3. LoopInv'
  BY DequeueKeepsLoopInv DEF OrderInv
<1>4. HoldInv /\ p \in Seq(Sent) /\ queue # <<>>
  BY DEF OrderInv, HoldInv, HoldFrame, DequeueFrame
<1>5. /\ p' \in Seq(Sent) /\ DOMAIN p = 1..Len(p) /\ Len(p) \in Nat
      /\ DOMAIN p' = 1..(Len(p) + 1) /\ Len(p') = Len(p) + 1
      /\ \A i \in 1..Len(p) : p'[i] = p[i]
      /\ p'[Len(p) + 1] = e
  BY <1>1, <1>2, <1>4
<1>6. ASSUME NEW i \in DOMAIN p'
      PROVE  /\ Terminal(p'[i])
             /\ Stops(p'[i]) => /\ i = Len(p') /\ queue' = <<>>
                               /\ phase' \in {"save", "done"}
  <2>1. CASE i \in DOMAIN p
    <3>1. Terminal(p[i]) /\ ~Stops(p[i])
      BY <1>1, <1>4, <2>1 DEF HoldInv
    <3> QED
      BY <1>5, <2>1, <3>1
  <2>2. CASE i = Len(p) + 1
    BY <1>1, <1>2, <1>5, <2>2
  <2> QED
    BY <1>5, <1>6, <2>1, <2>2
<1>7. HoldInv'
  BY <1>1, <1>2, <1>4, <1>5, <1>6 DEF HoldInv
<1>8. TailInv' /\ Ordered(out)'
  BY <1>1, <1>2 DEF OrderInv, TailInv, Ordered
<1> QED
  BY <1>1, <1>3, <1>7, <1>8 DEF OrderInv

LEMMA RelayKeepsOrder ==
    ASSUME OrderInv, RelayFrame PROVE OrderInv'
<1> DEFINE e == Head(queue)
<1>1. /\ e \in Sent /\ pc = "wait" /\ pc' = "poll" /\ QueueInv'
      /\ Stops(e) => Terminal(e)
      /\ ~RawFrames => ~Terminal(e)
      /\ UNCHANGED <<provider, phase, tail>>
  BY DequeueFacts DEF RelayFrame
<1>2. /\ ~Terminal(e) /\ ~Stops(e) /\ out' = Append(out, e)
      /\ UNCHANGED pending_terminal_events
  BY <1>1 DEF RelayFrame, HeldBack, Yield
<1>3. LoopInv'
  BY DequeueKeepsLoopInv DEF OrderInv
<1>4. HoldInv /\ out \in Seq(Event) /\ Ordered(out) /\ queue # <<>> /\ e \in Event
  BY <1>1, SentEvents DEF OrderInv, LoopInv, TypeInv, TypeOK, RelayFrame, DequeueFrame
<1>5. \A i \in DOMAIN out : ~Terminal(out[i]) /\ ~Stops(out[i])
  BY <1>1, <1>4 DEF HoldInv
<1>6. \A i \in DOMAIN out' : ~Terminal(out'[i]) /\ ~Stops(out'[i])
  <2>1. /\ DOMAIN out = 1..Len(out) /\ Len(out) \in Nat
        /\ DOMAIN out' = 1..(Len(out) + 1)
        /\ \A i \in 1..Len(out) : out'[i] = out[i]
        /\ out'[Len(out) + 1] = e
    BY <1>2, <1>4
  <2>2. ASSUME NEW i \in DOMAIN out' PROVE ~Terminal(out'[i]) /\ ~Stops(out'[i])
    <3>1. CASE i \in DOMAIN out
      BY <1>5, <2>1, <3>1
    <3>2. CASE i = Len(out) + 1
      BY <1>2, <2>1, <3>2
    <3> QED
      BY <2>1, <2>2, <3>1, <3>2
  <2> QED
    BY <2>2
<1>7. HoldInv'
  <2>1. ASSUME NEW i \in DOMAIN pending_terminal_events
        PROVE  /\ Terminal(pending_terminal_events[i])
               /\ ~Stops(pending_terminal_events[i])
    BY <1>1, <1>4 DEF HoldInv
  <2> QED
    BY <1>1, <1>2, <1>4, <1>6, <2>1 DEF HoldInv
<1>8. Ordered(out')
  BY <1>6 DEF Ordered
<1>9. TailInv'
  BY <1>1 DEF OrderInv, TailInv
<1> QED
  BY <1>1, <1>3, <1>7, <1>8, <1>9 DEF OrderInv, Ordered

\* What stream() writes after its loop is ordered, and terminal from its second
\* event on at the latest.
LEMMA ClosingOrdered ==
    ASSUME OrderInv, pc = "poll", TaskDone, ~Raises
    PROVE  Closing \in Seq(Sent) /\ Ordered(Closing)
<1>1. result \in Success \/ (passthrough_mode /\ result # "tool_calls")
  BY DEF OrderInv, LoopInv, TypeInv, TypeOK, ResultInv, Result, Success,
         ClientErrors, Raises, TaskDone
<1>2. {ContentChunk, ToolCallsChunk, FinishChunk, DoneChunk} \subseteq Sent
  BY DEF Sent
<1>3. CASE result = "tool_calls"
  BY <1>2, <1>3, OwnChunks DEF Closing, Ordered
<1>4. CASE passthrough_mode /\ result # "tool_calls"
  <2>1. Closing = pending_terminal_events /\ pending_terminal_events \in Seq(Sent)
    BY <1>4 DEF Closing, OrderInv, HoldInv
  <2>2. ASSUME NEW i \in DOMAIN pending_terminal_events,
               NEW j \in DOMAIN pending_terminal_events, i < j
        PROVE  /\ Terminal(pending_terminal_events[j])
               /\ ~Stops(pending_terminal_events[i])
    <3>1. i # Len(pending_terminal_events)
      BY <2>1, <2>2
    <3> QED
      BY <3>1 DEF OrderInv, HoldInv
  <2> QED
    BY <2>1, <2>2 DEF Ordered
<1>5. CASE result = "answer" /\ ~passthrough_mode
  BY <1>2, <1>5, OwnChunks DEF Closing, Ordered
<1> QED
  BY <1>1, <1>3, <1>4, <1>5 DEF Success

LEMMA SettleKeepsOrder ==
    ASSUME OrderInv, Settle PROVE OrderInv'
<1>1. LoopInv'
  BY SettleKeepsLoopInv DEF OrderInv
<1>2. /\ pc = "poll" /\ TaskDone
      /\ UNCHANGED <<provider, phase, queue, pending_terminal_events, out>>
  BY DEF Settle, LoopOver, taskVars
<1>3. QueueInv' /\ Ordered(out')
  BY <1>2 DEF OrderInv, QueueInv, RawFrames, Ordered
<1>4. pc' \in {"raised", "send"}
  BY DEF Settle
<1>5. HoldInv'
  BY <1>2, <1>4 DEF OrderInv, HoldInv
<1>6. TailInv'
  <2>1. CASE Raises
    BY <1>2, <2>1 DEF Settle, OrderInv, TailInv
  <2>2. CASE ~Raises
    <3>1. tail' \in Seq(Sent) /\ Ordered(tail')
      BY <1>2, <2>2, ClosingOrdered DEF Settle
    <3>2. \A i \in DOMAIN out : ~Terminal(out[i]) /\ ~Stops(out[i])
      BY <1>2 DEF OrderInv, HoldInv
    <3> QED
      BY <1>2, <3>1, <3>2 DEF TailInv
  <2> QED
    BY <2>1, <2>2
<1> QED
  BY <1>1, <1>3, <1>5, <1>6 DEF OrderInv, Ordered

LEMMA SendFacts ==
    ASSUME OrderInv, SendTail
    PROVE  /\ Head(tail) \in Sent
           /\ \A i \in DOMAIN out :
                ~Stops(out[i]) /\ (Terminal(out[i]) => Terminal(Head(tail)))
           /\ out' = Append(out, Head(tail)) /\ status' = 200
           /\ TailInv' /\ Ordered(out')
<1> DEFINE e == Head(tail)
<1>1. /\ pc = "send" /\ tail # <<>> /\ tail' = Tail(tail) /\ pc' = pc
      /\ out' = Append(out, e) /\ status' = 200
  BY DEF SendTail, Yield
<1>2. TailInv /\ tail \in Seq(Sent) /\ out \in Seq(Event) /\ Ordered(out)
  BY DEF OrderInv, TailInv, LoopInv, TypeInv, TypeOK
<1>3. /\ Len(tail) \in Nat /\ Len(tail) > 0 /\ DOMAIN tail = 1..Len(tail)
      /\ e = tail[1] /\ e \in Sent
      /\ tail' \in Seq(Sent) /\ Len(tail') = Len(tail) - 1
      /\ DOMAIN tail' = 1..(Len(tail) - 1)
      /\ \A i \in 1..(Len(tail) - 1) : tail'[i] = tail[i + 1]
  BY <1>1, <1>2, HeadTailProperties
<1>4. \A i \in DOMAIN out : ~Stops(out[i]) /\ (Terminal(out[i]) => Terminal(e))
  BY <1>1, <1>2, <1>3 DEF TailInv
<1>5. e \in Event
  BY <1>3, SentEvents
<1>6. Ordered(out')
  BY <1>1, <1>2, <1>4, <1>5, OrderedAppend
<1>7. Ordered(tail')
  <2>1. ASSUME NEW i \in DOMAIN tail', NEW j \in DOMAIN tail', i < j
        PROVE  (Terminal(tail'[i]) => Terminal(tail'[j])) /\ ~Stops(tail'[i])
    <3>1. /\ i + 1 \in DOMAIN tail /\ j + 1 \in DOMAIN tail /\ i + 1 < j + 1
          /\ tail'[i] = tail[i + 1] /\ tail'[j] = tail[j + 1]
      BY <1>3, <2>1
    <3>2. (Terminal(tail[i + 1]) => Terminal(tail[j + 1])) /\ ~Stops(tail[i + 1])
      BY <1>1, <1>2, <3>1 DEF TailInv, Ordered
    <3> QED
      BY <3>1, <3>2
  <2> QED
    BY <2>1 DEF Ordered
<1>8. ASSUME NEW i \in DOMAIN out', NEW j \in DOMAIN tail'
      PROVE  ~Stops(out'[i]) /\ (Terminal(out'[i]) => Terminal(tail'[j]))
  <2>1. /\ 1 \in DOMAIN tail /\ j + 1 \in DOMAIN tail /\ 1 < j + 1
        /\ tail'[j] = tail[j + 1]
    BY <1>3, <1>8
  <2>2. (Terminal(e) => Terminal(tail'[j])) /\ ~Stops(e)
    <3>1. (Terminal(tail[1]) => Terminal(tail[j + 1])) /\ ~Stops(tail[1])
      BY <1>1, <1>2, <2>1 DEF TailInv, Ordered
    <3> QED
      BY <1>3, <2>1, <3>1
  <2>3. /\ DOMAIN out = 1..Len(out) /\ Len(out) \in Nat
        /\ DOMAIN out' = 1..(Len(out) + 1)
        /\ \A k \in 1..Len(out) : out'[k] = out[k]
        /\ out'[Len(out) + 1] = e
    BY <1>1, <1>2, <1>5
  <2>4. CASE i \in DOMAIN out
    <3>1. out'[i] = out[i]
      BY <2>3, <2>4
    <3> QED
      BY <1>4, <2>2, <2>4, <3>1
  <2>5. CASE i = Len(out) + 1
    <3>1. out'[i] = e
      BY <2>3, <2>5
    <3> QED
      BY <2>2, <3>1
  <2> QED
    BY <1>8, <2>3, <2>4, <2>5
<1> QED
  BY <1>1, <1>3, <1>4, <1>6, <1>7, <1>8 DEF TailInv

LEMMA OrderNext ==
    ASSUME OrderInv, ClosersLead', [Next]_vars PROVE OrderInv'
<1>1. LoopInv'
  BY LoopNext DEF OrderInv
<1>2. CASE Run
  BY <1>2, RunKeepsOrder
<1>3. CASE HoldFrame \/ RelayFrame
  BY <1>3, HoldKeepsOrder, RelayKeepsOrder
<1>4. CASE Settle
  BY <1>4, SettleKeepsOrder
<1>5. CASE SendTail
  <2>1. pc' = "send" /\ UNCHANGED <<provider, phase, queue, pending_terminal_events>>
    BY <1>5 DEF SendTail, taskVars
  <2>2. QueueInv' /\ HoldInv'
    BY <2>1 DEF OrderInv, QueueInv, RawFrames, HoldInv
  <2> QED
    BY <1>1, <1>5, <2>2, SendFacts DEF OrderInv, Ordered
<1>6. CASE \/ Poll \/ PollTimeout \/ Close \/ Disconnect \/ UNCHANGED vars
  <2>1. /\ UNCHANGED <<provider, phase, queue, pending_terminal_events, tail, out>>
        /\ pc' \in {"poll", "wait"} => pc \in {"poll", "wait"}
        /\ pc' = "send" => pc = "send"
    BY <1>6 DEF Poll, PollTimeout, Close, Disconnect, vars, taskVars, relayVars
  <2>2. QueueInv' /\ HoldInv'
    BY <2>1 DEF OrderInv, QueueInv, RawFrames, HoldInv
  <2>3. TailInv' /\ Ordered(out')
    BY <2>1 DEF OrderInv, TailInv, Ordered
  <2> QED
    BY <1>1, <2>2, <2>3 DEF OrderInv, Ordered
<1> QED
  BY <1>2, <1>3, <1>4, <1>5, <1>6 DEF Next, Relay

\* The order holds as long as no closing line came late.
ReadInv == LoopInv /\ KnownInv /\ (ClosersLead => OrderInv)

LEMMA ReadInit == Init => ReadInv
  BY LoopInit, KnownInit, OrderInit DEF ReadInv

LEMMA ReadNext == ReadInv /\ [Next]_vars => ReadInv'
<1> SUFFICES ASSUME ReadInv, [Next]_vars PROVE ReadInv'
  OBVIOUS
<1>1. LoopInv' /\ KnownInv'
  BY LoopNext, KnownNext DEF ReadInv, LoopInv
<1>2. ASSUME ClosersLead' PROVE OrderInv'
  BY <1>2, ClosersShrink, OrderNext DEF ReadInv, LoopInv, TypeInv
<1> QED
  BY <1>1, <1>2 DEF ReadInv

\* Text, then events that close the answer, then nothing after [DONE], on whichever
\* line the client reads them: for every upstream whose closing lines lead.
THEOREM WellTerminatedCorrect == Spec => []WellTerminated
<1>1. ReadInv => WellTerminated
  <2> SUFFICES ASSUME ReadInv, ClosersLead,
                      NEW i \in DOMAIN out, NEW j \in DOMAIN out, i < j
               PROVE  (Closes(out[i]) => Closes(out[j])) /\ ~Stops(out[i])
    BY DEF WellTerminated
  <2>1. out[i] \in Known /\ out[j] \in Known
    BY DEF ReadInv, KnownInv
  <2>2. (Closes(out[i]) <=> Terminal(out[i])) /\ (Closes(out[j]) <=> Terminal(out[j]))
    BY <2>1, SameVerdict
  <2>3. (Terminal(out[i]) => Terminal(out[j])) /\ ~Stops(out[i])
    BY DEF ReadInv, OrderInv, Ordered
  <2> QED
    BY <2>2, <2>3
<1> QED
  BY <1>1, ReadInit, ReadNext, PTL DEF Spec

(***************************************************************************)
(* Refinement.                                                             *)
(***************************************************************************)

LEMMA ClientInit == Init => Client!Init
  BY DEF Init, Client!Init, Ended

\* What may follow as the relay classifies events may follow as a client reads them.
LEMMA SameMayFollow ==
    ASSUME KnownInv, ClosersLead, NEW e \in Known,
           \A i \in DOMAIN out : ~Stops(out[i]) /\ (Terminal(out[i]) => Terminal(e))
    PROVE  Client!MayFollow(e)
<1>1. \A x : (Client!Closes(x) <=> Closes(x)) /\ (Client!Stops(x) <=> Stops(x))
  BY DEF Client!Closes, Closes, Client!Stops, Stops
<1>2. \A i \in DOMAIN out : out[i] \in Known
  BY DEF KnownInv
<1>3. \A i \in DOMAIN out : Closes(out[i]) => Closes(e)
  BY <1>2, SameVerdict
<1> QED
  BY <1>1, <1>3 DEF Client!MayFollow

\* Each step of the relay sends one event, rejects, finishes or stutters.
LEMMA ClientNext ==
    ASSUME OrderInv, KnownInv, ClosersLead, [Next]_vars
    PROVE  [Client!Next]_(Client!vars)
<1> USE DEF Client!vars
<1>1. TypeOK /\ StatusInv
  BY DEF OrderInv, LoopInv, TypeInv
<1>2. CASE Run
  BY <1>2 DEF Run, Connect, StoredAnswer, ConnectFails, UpstreamEvent,
       MockToken, BodyEnds, BodyFails, RunEnds, relayVars
<1>3. CASE HoldFrame
  BY <1>3 DEF HoldFrame, DequeueFrame, Ended
<1>4. CASE RelayFrame
  <2>1. HoldInv /\ pc = "wait" /\ pc' = "poll" /\ Head(queue) \in Sent
    BY <1>4, DequeueFacts DEF RelayFrame, OrderInv
  <2>2. Client!MayFollow(Head(queue))
    <3>1. Head(queue) \in Known
      BY <1>4, HeadTailProperties DEF KnownInv, RelayFrame, DequeueFrame
    <3> QED
      BY <2>1, <3>1, SameMayFollow DEF HoldInv
  <2>3. Client!Send
    BY <1>4, <2>1, <2>2 DEF RelayFrame, Yield, Client!Send, Sent, Ended
  <2> QED
    BY <2>3 DEF Client!Next
<1>5. CASE Settle
  <2>1. pc = "poll" /\ pc' \in {"send", "raised"} /\ UNCHANGED out
    BY <1>5 DEF Settle
  <2>2. CASE ~Raises
    BY <1>5, <2>1, <2>2 DEF Settle, Ended
  <2>3. CASE Raises /\ status = 0
    <3>1. Client!Reject
      BY <1>5, <2>1, <2>3 DEF Settle, ErrorStatus, Client!Reject, Ended
    <3> QED
      BY <3>1 DEF Client!Next
  <2>4. CASE Raises /\ status # 0
    <3>1. Client!Finish
      BY <1>1, <1>5, <2>1, <2>4 DEF Settle, StatusInv, TypeOK, Client!Finish, Ended
    <3> QED
      BY <3>1 DEF Client!Next
  <2> QED
    BY <2>2, <2>3, <2>4
<1>6. CASE SendTail
  <2>1. /\ Head(tail) \in Sent /\ status' = 200
        /\ out' = Append(out, Head(tail))
        /\ pc = "send" /\ pc' = "send"
        /\ Client!MayFollow(Head(tail))
    <3>1. Head(tail) \in Known
      BY <1>6, HeadTailProperties DEF KnownInv, SendTail
    <3> QED
      BY <1>6, <3>1, SendFacts, SameMayFollow DEF SendTail
  <2>2. Client!Send
    BY <2>1 DEF Client!Send, Sent, Ended
  <2> QED
    BY <2>2 DEF Client!Next
<1>7. CASE Close
  <2>1. pc = "send" /\ pc' = "closed" /\ UNCHANGED out /\ status \in {0, 200}
    BY <1>1, <1>7 DEF Close, StatusInv, TypeOK, Ended
  <2>2. CASE status = 0
    <3>1. Client!Reject
      BY <1>7, <2>1, <2>2 DEF Close, Client!Reject, Ended
    <3> QED
      BY <3>1 DEF Client!Next
  <2>3. CASE status = 200
    <3>1. Client!Finish
      BY <1>7, <2>1, <2>3 DEF Close, Client!Finish, Ended
    <3> QED
      BY <3>1 DEF Client!Next
  <2> QED
    BY <2>1, <2>2, <2>3
<1>8. CASE Disconnect
  <2>1. Client!Finish
    BY <1>8 DEF Disconnect, Client!Finish, Ended
  <2> QED
    BY <2>1 DEF Client!Next
<1>9. CASE Poll \/ PollTimeout \/ UNCHANGED vars
  BY <1>9 DEF Poll, PollTimeout, vars, relayVars, Ended
<1> QED
  BY <1>2, <1>3, <1>4, <1>5, <1>6, <1>7, <1>8, <1>9 DEF Next, Relay

\* The task, the queue, the generator and the router together implement the
\* promise made to the client of a stream.
THEOREM Refinement == Spec => ImplementsClientStream
<1>1. ReadInv /\ [Next]_vars
        => [ClosersLead' => [Client!Next]_(Client!vars)]_vars
  <2> SUFFICES ASSUME ReadInv, [Next]_vars, ClosersLead'
               PROVE  [Client!Next]_(Client!vars)
    OBVIOUS
  <2>1. ClosersLead
    BY ClosersShrink DEF ReadInv, LoopInv, TypeInv
  <2> QED
    BY <2>1, ClientNext DEF ReadInv
<1> QED
  BY <1>1, ReadInit, ReadNext, ClientInit, PTL DEF Spec, ImplementsClientStream

(***************************************************************************)
(* How many pieces of text a sequence of events holds.                     *)
(***************************************************************************)

\* The pieces of text of a sequence of events: which line of which event.
Pieces(s) == UNION {{i} \X TokenLines(s[i], FALSE) : i \in DOMAIN s}

LEMMA FiniteTokenLines ==
    ASSUME NEW e \in Event
    PROVE  IsFiniteSet(TokenLines(e, FALSE))
<1>1. IsFiniteSet(DOMAIN e)
  BY FS_Interval DEF Event
<1>2. TokenLines(e, FALSE) \subseteq DOMAIN e
  BY DEF TokenLines, Read
<1> QED
  BY <1>1, <1>2, FS_Subset

\* One more event adds its lines, under a number of their own.
LEMMA PiecesOfAppend ==
    ASSUME NEW s \in Seq(Event), NEW e \in Event
    PROVE  /\ Pieces(Append(s, e)) = Pieces(s) \union ({Len(s) + 1} \X TokenLines(e, FALSE))
           /\ Pieces(s) \intersect ({Len(s) + 1} \X TokenLines(e, FALSE)) = {}
<1> DEFINE t == Append(s, e)
<1>1. /\ Len(s) \in Nat /\ DOMAIN s = 1..Len(s) /\ DOMAIN t = 1..(Len(s) + 1)
      /\ t[Len(s) + 1] = e /\ \A i \in 1..Len(s) : t[i] = s[i]
  BY AppendProperties, LenProperties
<1> HIDE DEF t
<1>2. DOMAIN t = DOMAIN s \union {Len(s) + 1} /\ Len(s) + 1 \notin DOMAIN s
  BY <1>1
<1>3. \A i \in DOMAIN s : t[i] = s[i]
  BY <1>1
<1>4. Pieces(t) = Pieces(s) \union ({Len(s) + 1} \X TokenLines(e, FALSE))
  <2>1. ASSUME NEW x \in Pieces(t)
        PROVE  x \in Pieces(s) \/ x \in {Len(s) + 1} \X TokenLines(e, FALSE)
    <3>1. PICK i \in DOMAIN t : x \in {i} \X TokenLines(t[i], FALSE)
      BY <2>1 DEF Pieces
    <3>2. CASE i \in DOMAIN s
      <4>1. x \in {i} \X TokenLines(s[i], FALSE)
        BY <1>3, <3>1, <3>2
      <4> QED
        BY <3>2, <4>1 DEF Pieces
    <3>3. CASE i = Len(s) + 1
      BY <1>1, <3>1, <3>3
    <3> QED
      BY <1>2, <3>2, <3>3
  <2>2. ASSUME NEW x \in Pieces(s) PROVE x \in Pieces(t)
    <3>1. PICK i \in DOMAIN s : x \in {i} \X TokenLines(s[i], FALSE)
      BY <2>2 DEF Pieces
    <3>2. i \in DOMAIN t /\ x \in {i} \X TokenLines(t[i], FALSE)
      BY <1>2, <1>3, <3>1
    <3> QED
      BY <3>2 DEF Pieces
  <2>3. ASSUME NEW x \in {Len(s) + 1} \X TokenLines(e, FALSE) PROVE x \in Pieces(t)
    <3>1. Len(s) + 1 \in DOMAIN t /\ x \in {Len(s) + 1} \X TokenLines(t[Len(s) + 1], FALSE)
      BY <1>1, <1>2, <2>3
    <3> QED
      BY <3>1 DEF Pieces
  <2> QED
    BY <2>1, <2>2, <2>3
<1>5. ASSUME NEW x \in Pieces(s), x \in {Len(s) + 1} \X TokenLines(e, FALSE) PROVE FALSE
  <2>1. PICK i \in DOMAIN s : x \in {i} \X TokenLines(s[i], FALSE)
    BY <1>5 DEF Pieces
  <2>2. x[1] = i /\ x[1] = Len(s) + 1
    BY <1>5, <2>1
  <2> QED
    BY <1>2, <2>1, <2>2
<1> QED
  BY <1>4, <1>5 DEF t

LEMMA PiecesFinite ==
    ASSUME NEW s \in Seq(Event)
    PROVE  IsFiniteSet(Pieces(s))
<1> DEFINE T == {t \in Seq(Event) : ~IsFiniteSet(Pieces(t))}
<1> SUFFICES ASSUME T # {} PROVE FALSE
  OBVIOUS
<1>1. PICK t \in T : \/ t = <<>>
                     \/ \E u \in Seq(Event), e \in Event : t = Append(u, e) /\ u \notin T
  <2> HIDE DEF T
  <2> QED
    BY ShortestSequence DEF T
<1>2. CASE t = <<>>
  <2>1. Pieces(<<>>) = {}
    BY DEF Pieces
  <2> QED
    BY <1>2, <2>1, FS_EmptySet
<1>3. ASSUME NEW u \in Seq(Event), NEW e \in Event, t = Append(u, e), u \notin T
      PROVE  FALSE
  <2> DEFINE own == {Len(u) + 1} \X TokenLines(e, FALSE)
  <2>1. IsFiniteSet(Pieces(u)) /\ ~IsFiniteSet(Pieces(t))
    BY <1>3
  <2>2. Pieces(t) = Pieces(u) \union own
    BY <1>3, PiecesOfAppend
  <2>3. IsFiniteSet(own)
    BY FS_Singleton, FiniteTokenLines, FS_Product
  <2> HIDE DEF own
  <2>4. IsFiniteSet(Pieces(u) \union own)
    BY <2>1, <2>3, FS_Union
  <2> QED
    BY <2>1, <2>2, <2>4
<1> QED
  BY <1>1, <1>2, <1>3

LEMMA TextPiecesType ==
    ASSUME NEW s \in Seq(Event) PROVE TextPieces(s) \in Nat
  BY PiecesFinite, FS_CardinalityType DEF TextPieces, Pieces

LEMMA TextPiecesOfEmpty == TextPieces(<<>>) = 0
<1>1. Pieces(<<>>) = {}
  BY DEF Pieces
<1> QED
  BY <1>1, FS_EmptySet DEF TextPieces, Pieces

\* One more event adds the pieces of its own text.
LEMMA TextPiecesOfAppend ==
    ASSUME NEW s \in Seq(Event), NEW e \in Event
    PROVE  TextPieces(Append(s, e)) = TextPieces(s) + Cardinality(TokenLines(e, FALSE))
<1> DEFINE lines == TokenLines(e, FALSE)
           own == {Len(s) + 1} \X lines
           p == Pieces(s)
<1>1. IsFiniteSet(lines) /\ IsFiniteSet(p)
  BY FiniteTokenLines, PiecesFinite
<1>2. IsFiniteSet({Len(s) + 1}) /\ Cardinality({Len(s) + 1}) = 1
  BY FS_Singleton
<1>3. Pieces(Append(s, e)) = p \union own /\ p \intersect own = {}
  BY PiecesOfAppend
<1>4. Cardinality(lines) \in Nat /\ Cardinality(p) \in Nat
  BY <1>1, FS_CardinalityType
<1>5. IsFiniteSet(own) /\ Cardinality(own) = 1 * Cardinality(lines)
  <2> DEFINE k == {Len(s) + 1}
  <2>1. IsFiniteSet(k) /\ Cardinality(k) = 1
    BY <1>2
  <2> HIDE DEF k, lines
  <2>2. IsFiniteSet(k \X lines) /\ Cardinality(k \X lines) = Cardinality(k) * Cardinality(lines)
    BY <1>1, <2>1, FS_Product
  <2> QED
    BY <2>1, <2>2 DEF k
<1> HIDE DEF own, lines, p
<1>6. Cardinality(p \union own)
        = Cardinality(p) + Cardinality(own) - Cardinality(p \intersect own)
  BY <1>1, <1>5, FS_Union
<1>7. Cardinality(p \intersect own) = 0
  BY <1>3, FS_EmptySet
<1>8. Cardinality(Pieces(Append(s, e))) = Cardinality(p) + Cardinality(lines)
  BY <1>3, <1>4, <1>5, <1>6, <1>7
<1> QED
  BY <1>8 DEF p, lines, TextPieces, Pieces

\* The text of two sequences in a row is the text of each.
LEMMA TextPiecesOfConcat ==
    ASSUME NEW s \in Seq(Event), NEW r \in Seq(Event)
    PROVE  TextPieces(s \o r) = TextPieces(s) + TextPieces(r)
<1> DEFINE T == {t \in Seq(Event) : TextPieces(s \o t) # TextPieces(s) + TextPieces(t)}
<1> SUFFICES ASSUME T # {} PROVE FALSE
  OBVIOUS
<1>1. PICK t \in T : \/ t = <<>>
                     \/ \E u \in Seq(Event), e \in Event : t = Append(u, e) /\ u \notin T
  <2> HIDE DEF T
  <2> QED
    BY ShortestSequence DEF T
<1>2. CASE t = <<>>
  <2>1. s \o <<>> = s /\ TextPieces(s) \in Nat
    BY TextPiecesType, ConcatEmptySeq
  <2> QED
    BY <1>2, <2>1, TextPiecesOfEmpty
<1>3. ASSUME NEW u \in Seq(Event), NEW e \in Event, t = Append(u, e), u \notin T
      PROVE  FALSE
  <2> DEFINE one == <<e>>
             su == s \o u
             k == Cardinality(TokenLines(e, FALSE))
  <2>1. /\ TextPieces(su) = TextPieces(s) + TextPieces(u)
        /\ TextPieces(s \o t) # TextPieces(s) + TextPieces(t)
    BY <1>3
  <2> HIDE DEF T
  <2>2. one \in Seq(Event) /\ t = u \o one /\ \A x \in Seq(Event) : Append(x, e) = x \o one
    BY <1>3, OneMore
  <2>3. \A x \in Seq(Event) : TextPieces(Append(x, e)) = TextPieces(x) + k
    BY <1>3, TextPiecesOfAppend
  <2>4. su \in Seq(Event) /\ TextPieces(s) \in Nat /\ TextPieces(u) \in Nat /\ k \in Nat
    BY <1>3, TextPiecesType, ConcatProperties, TokenCount
  <2> HIDE DEF one, k
  <2>5. s \o t = su \o one
    <3>1. Associates(s, u, one)
      BY <1>3, <2>2, ConcatAssociates
    <3> QED
      BY <2>2, <3>1 DEF Associates
  <2> HIDE DEF su
  <2>6. TextPieces(s \o t) = TextPieces(su) + k
    <3>1. su \o one = Append(su, e)
      BY <2>2, <2>4
    <3> QED
      BY <2>3, <2>4, <2>5, <3>1
  <2>7. TextPieces(t) = TextPieces(u) + k
    BY <1>3, <2>3
  <2> QED
    BY <2>1, <2>4, <2>6, <2>7
<1> QED
  BY <1>1, <1>2, <1>3

\* How much text stream() adds itself.
LEMMA OwnText ==
    /\ TextPieces(<<ContentChunk, FinishChunk, DoneChunk>>) = 1
    /\ TextPieces(<<FinishChunk, DoneChunk>>) = 0
<1>1. TokenLines(ContentChunk, FALSE) = {1}
  BY DEF TokenLines, Read, ContentChunk
<1>2. TokenLines(FinishChunk, FALSE) = {} /\ TokenLines(DoneChunk, FALSE) = {}
  BY DEF TokenLines, Read, FinishChunk, DoneChunk
<1>3. Cardinality({1}) = 1 /\ Cardinality({}) = 0
  BY FS_Singleton, FS_EmptySet
<1>4. /\ ContentChunk \in Event /\ FinishChunk \in Event /\ DoneChunk \in Event
      /\ <<>> \in Seq(Event)
  BY OwnChunks
<1>5. \A s \in Seq(Event) : \A e \in Event :
        TextPieces(Append(s, e)) = TextPieces(s) + Cardinality(TokenLines(e, FALSE))
  BY TextPiecesOfAppend
<1> DEFINE c(s) == Append(s, ContentChunk)
           f(s) == Append(s, FinishChunk)
           d(s) == Append(s, DoneChunk)
<1>6. \A s \in Seq(Event) :
        /\ c(s) \in Seq(Event) /\ f(s) \in Seq(Event)
        /\ TextPieces(s) \in Nat
        /\ TextPieces(c(s)) = TextPieces(s) + 1
        /\ TextPieces(f(s)) = TextPieces(s) + 0
        /\ TextPieces(d(s)) = TextPieces(s) + 0
  <2> SUFFICES ASSUME NEW s \in Seq(Event)
               PROVE  /\ c(s) \in Seq(Event) /\ f(s) \in Seq(Event)
                      /\ TextPieces(s) \in Nat
                      /\ TextPieces(c(s)) = TextPieces(s) + 1
                      /\ TextPieces(f(s)) = TextPieces(s) + 0
                      /\ TextPieces(d(s)) = TextPieces(s) + 0
    OBVIOUS
  <2>1. c(s) \in Seq(Event) /\ f(s) \in Seq(Event) /\ TextPieces(s) \in Nat
    BY <1>4, TextPiecesType
  <2>2. TextPieces(c(s)) = TextPieces(s) + Cardinality({1})
    BY <1>1, <1>4, <1>5, Zenon
  <2>3. TextPieces(f(s)) = TextPieces(s) + Cardinality({})
    BY <1>2, <1>4, <1>5, Zenon
  <2>4. TextPieces(d(s)) = TextPieces(s) + Cardinality({})
    BY <1>2, <1>4, <1>5, Zenon
  <2> QED
    BY <1>3, <2>1, <2>2, <2>3, <2>4
<1>7. /\ <<ContentChunk, FinishChunk, DoneChunk>> = d(f(c(<<>>)))
      /\ <<FinishChunk, DoneChunk>> = d(f(<<>>))
  OBVIOUS
<1> HIDE DEF c, f, d
<1>8. TextPieces(d(f(<<>>))) = 0
  <2>1. f(<<>>) \in Seq(Event) /\ TextPieces(f(<<>>)) = TextPieces(<<>>) + 0
    BY <1>4, <1>6, Zenon
  <2>2. TextPieces(d(f(<<>>))) = TextPieces(f(<<>>)) + 0
    BY <1>6, <2>1, Zenon
  <2> QED
    BY <2>1, <2>2, TextPiecesOfEmpty
<1>9. TextPieces(d(f(c(<<>>)))) = 1
  <2>1. c(<<>>) \in Seq(Event) /\ TextPieces(c(<<>>)) = TextPieces(<<>>) + 1
    BY <1>4, <1>6, Zenon
  <2>2. f(c(<<>>)) \in Seq(Event) /\ TextPieces(f(c(<<>>))) = TextPieces(c(<<>>)) + 0
    BY <1>6, <2>1, Zenon
  <2>3. TextPieces(d(f(c(<<>>)))) = TextPieces(f(c(<<>>))) + 0
    BY <1>6, <2>2, Zenon
  <2> QED
    BY <2>1, <2>2, <2>3, TextPiecesOfEmpty
<1> QED
  BY <1>7, <1>8, <1>9

(***************************************************************************)
(* Where each frame of a run is, and where each piece of its text.         *)
(***************************************************************************)

\* The head of b moves to the end of a.
Moves(a, b, c, r) == b # <<>> /\ c = Append(a, Head(b)) /\ r = Tail(b)

LEMMA MoveHead ==
    ASSUME NEW a \in Seq(Event), NEW b \in Seq(Event), NEW c, NEW r, Moves(a, b, c, r)
    PROVE  c \in Seq(Event) /\ r \in Seq(Event) /\ c \o r = a \o b
<1> DEFINE one == <<Head(b)>>
<1>1. /\ Head(b) \in Event /\ Head(b) = b[1] /\ r = Tail(b) /\ c = Append(a, Head(b))
      /\ Len(b) \in Nat /\ Len(b) >= 1 /\ b # <<>>
  BY HeadTailProperties DEF Moves
<1>2. r \in Seq(Event)
  BY <1>1, HeadTailProperties
<1>3. b = one \o r
  <2>1. 1 \in 1..Len(b) /\ Len(b) \in 1..Len(b)
    BY <1>1
  <2>2. SubSeq(b, 1, Len(b)) = <<b[1]>> \o SubSeq(b, 2, Len(b))
    BY <2>1, SubSeqRecursiveFirst
  <2>3. SubSeq(b, 1, Len(b)) = b /\ SubSeq(b, 2, Len(b)) = Tail(b)
    BY <1>1, SubSeqFull, TailIsSubSeq
  <2> QED
    BY <1>1, <2>2, <2>3
<1>4. one \in Seq(Event) /\ c = a \o one
  BY <1>1, OneMore
<1> HIDE DEF one
<1>5. (a \o one) \o r = a \o (one \o r)
  <2>1. Associates(a, one, r)
    BY <1>2, <1>4, ConcatAssociates
  <2> QED
    BY <2>1 DEF Associates
<1>6. c \in Seq(Event)
  BY <1>4, ConcatProperties
<1> QED
  BY <1>2, <1>3, <1>4, <1>5, <1>6

\* An element that joins the end of b joins the end of a \o b.
Joins(a, b, e, c, d) == c = Append(b, e) /\ d = Append(a \o b, e)

LEMMA JoinEnd ==
    ASSUME NEW a \in Seq(Event), NEW b \in Seq(Event), NEW e \in Event,
           NEW c, NEW d, Joins(a, b, e, c, d)
    PROVE  d = a \o c
<1> DEFINE one == <<e>>
           ab == a \o b
<1>4. c = Append(b, e) /\ d = Append(ab, e)
  BY DEF Joins
<1>1. ab \in Seq(Event)
  BY ConcatProperties
<1>2. one \in Seq(Event) /\ c = b \o one /\ d = ab \o one
  BY <1>1, <1>4, OneMore
<1> HIDE DEF one
<1>3. (a \o b) \o one = a \o (b \o one)
  <2>1. Associates(a, b, one)
    BY <1>2, ConcatAssociates
  <2> QED
    BY <2>1 DEF Associates
<1> QED
  BY <1>2, <1>3

\* The frames taken off the queue are m.  Of a raw run those that are not
\* terminal were relayed and the others are held back; another run holds none
\* back.  No piece of their text is anywhere else.
Accounts(m) ==
    /\ emitted = m \o queue
    /\ RawFrames => /\ out = Part(m, OtherEvents)
                    /\ pending_terminal_events = Part(m, TerminalEvents)
    /\ ~RawFrames => pending_terminal_events = <<>>
    /\ TextPieces(m) = TextPieces(out) + TextPieces(pending_terminal_events)

TakenInv == pc \in {"poll", "wait"} => \E m \in Seq(Event) : Accounts(m)

LEMMA TakenInit == Init => TakenInv
<1> SUFFICES ASSUME Init PROVE TakenInv
  OBVIOUS
<1>1. /\ emitted = <<>> /\ queue = <<>> /\ out = <<>>
      /\ pending_terminal_events = <<>>
  BY DEF Init
<1>2. <<>> \in Seq(Event) /\ <<>> \o <<>> = <<>>
  BY ConcatEmptySeq
<1>3. Accounts(<<>>)
  BY <1>1, <1>2, PartOfEmpty, TextPiecesOfEmpty DEF Accounts
<1> QED
  BY <1>2, <1>3 DEF TakenInv

\* A frame the task emits joins the history and the queue.
LEMMA RunKeepsTaken == ASSUME TypeInv, TakenInv, Run PROVE TakenInv'
<1>1. UNCHANGED relayVars /\ UNCHANGED provider
  BY DEF Run, Connect, StoredAnswer, ConnectFails, UpstreamEvent, MockToken,
         BodyEnds, BodyFails, RunEnds
<1>2. \/ UNCHANGED <<emitted, queue>>
      \/ \E e \in Event : Emit(e)
  BY OwnChunks, EventsAssumption
     DEF Run, Connect, StoredAnswer, ConnectFails, UpstreamEvent, MockToken,
         BodyEnds, BodyFails, RunEnds
<1> SUFFICES ASSUME pc \in {"poll", "wait"}
             PROVE  \E m \in Seq(Event) : Accounts(m)'
  BY <1>1 DEF TakenInv, relayVars
<1>3. PICK m \in Seq(Event) : Accounts(m)
  BY DEF TakenInv
<1>4. emitted' = m \o queue'
  <2>1. CASE UNCHANGED <<emitted, queue>>
    BY <1>3, <2>1 DEF Accounts
  <2>2. ASSUME NEW e \in Event, Emit(e) PROVE emitted' = m \o queue'
    <3>1. emitted' = Append(m \o queue, e) /\ queue' = Append(queue, e)
      BY <1>3, <2>2 DEF Emit, Accounts
    <3>2. queue \in Seq(Event)
      BY DEF TypeInv, TypeOK
    <3>3. Joins(m, queue, e, queue', emitted')
      BY <3>1 DEF Joins
    <3> QED
      BY <3>2, <3>3, JoinEnd
  <2> QED
    BY <1>2, <2>1, <2>2
<1>5. Accounts(m)'
  <2>1. UNCHANGED <<out, pending_terminal_events>> /\ RawFrames' = RawFrames
    BY <1>1 DEF relayVars, RawFrames
  <2> QED
    BY <1>3, <1>4, <2>1 DEF Accounts
<1> QED
  BY <1>5

\* A frame leaves the queue and is held back or relayed.
LEMMA DequeueKeepsTaken ==
    ASSUME TypeInv, TakenInv, HoldFrame \/ RelayFrame PROVE TakenInv'
<1> DEFINE e == Head(queue)
           p == pending_terminal_events
<1>1. /\ pc = "wait" /\ queue # <<>> /\ queue' = Tail(queue)
      /\ UNCHANGED <<provider, emitted>>
  BY DEF HoldFrame, RelayFrame, DequeueFrame, taskVars
<1>2. /\ queue \in Seq(Event) /\ out \in Seq(Event) /\ p \in Seq(Event)
      /\ e \in Event
  BY <1>1, HeadTailProperties DEF TypeInv, TypeOK
<1>3. PICK m \in Seq(Event) : Accounts(m)
  BY <1>1 DEF TakenInv
<1>11. PICK n \in Seq(Event) : n = Append(m, e)
  <2>1. Append(m, e) \in Seq(Event)
    BY <1>2, AppendProperties
  <2> QED
    BY <2>1
<1>4. n \o queue' = emitted'
  <2>1. emitted' = m \o queue /\ queue # <<>> /\ queue' = Tail(queue)
    BY <1>1, <1>3 DEF Accounts
  <2>2. n \o queue' = m \o queue
    <3>1. Moves(m, queue, n, queue')
      BY <1>11, <2>1 DEF Moves
    <3>2. m \in Seq(Event) /\ queue \in Seq(Event)
      BY <1>2
    <3> QED
      BY <3>1, <3>2, MoveHead
  <2> QED
    BY <2>1, <2>2
<1>5. RawFrames' = RawFrames
  BY <1>1 DEF RawFrames
<1>6. /\ \A K : Part(n, K) = IF e \in K THEN Append(Part(m, K), e) ELSE Part(m, K)
      /\ \A s \in Seq(Event) : TextPieces(Append(s, e))
                                 = TextPieces(s) + Cardinality(TokenLines(e, FALSE))
  BY <1>2, <1>11, PartOfAppend, TextPiecesOfAppend
<1>12. /\ TextPieces(out) \in Nat /\ TextPieces(p) \in Nat
       /\ Cardinality(TokenLines(e, FALSE)) \in Nat
  BY <1>2, TextPiecesType, TokenCount
<1>7. (e \in TerminalEvents <=> Terminal(e)) /\ (e \in OtherEvents <=> ~Terminal(e))
  BY <1>2 DEF TerminalEvents, OtherEvents
<1>8. TextPieces(n) = TextPieces(out) + TextPieces(p) + Cardinality(TokenLines(e, FALSE))
  BY <1>3, <1>6, <1>11 DEF Accounts
<1> DEFINE k == Cardinality(TokenLines(e, FALSE))
<1>9. CASE HoldFrame
  <2>1. RawFrames /\ Terminal(e) /\ p' = Append(p, e) /\ out' = out
    BY <1>9 DEF HoldFrame, HeldBack
  <2>2. TextPieces(p') = TextPieces(p) + Cardinality(TokenLines(e, FALSE))
    BY <1>2, <1>6, <2>1
  <2>3. out' = Part(n, OtherEvents) /\ p' = Part(n, TerminalEvents)
    BY <1>3, <1>6, <1>7, <2>1 DEF Accounts
  <2>4. TextPieces(n) = TextPieces(out') + TextPieces(p')
    <3>1. TextPieces(out') = TextPieces(out)
      BY <2>1
    <3> HIDE DEF k
    <3>2. TextPieces(n) = TextPieces(out) + TextPieces(p) + k
      BY <1>8 DEF k
    <3>3. TextPieces(p') = TextPieces(p) + k /\ k \in Nat
      BY <1>12, <2>2 DEF k
    <3> QED
      BY <1>12, <3>1, <3>2, <3>3
  <2>5. Accounts(n)'
    BY <1>4, <1>5, <2>1, <2>3, <2>4 DEF Accounts
  <2> QED
    BY <1>4, <2>5 DEF TakenInv
<1>10. CASE RelayFrame
  <2>1. (RawFrames => ~Terminal(e)) /\ out' = Append(out, e) /\ p' = p
    BY <1>10 DEF RelayFrame, HeldBack, Yield
  <2>2. TextPieces(out') = TextPieces(out) + Cardinality(TokenLines(e, FALSE))
    BY <1>2, <1>6, <2>1
  <2>3. RawFrames => out' = Part(n, OtherEvents) /\ p' = Part(n, TerminalEvents)
    BY <1>3, <1>6, <1>7, <2>1 DEF Accounts
  <2>4. TextPieces(n) = TextPieces(out') + TextPieces(p')
    <3>1. TextPieces(p') = TextPieces(p)
      BY <2>1
    <3> HIDE DEF k
    <3>2. TextPieces(n) = TextPieces(out) + TextPieces(p) + k
      BY <1>8 DEF k
    <3>3. TextPieces(out') = TextPieces(out) + k /\ k \in Nat
      BY <1>12, <2>2 DEF k
    <3> QED
      BY <1>12, <3>1, <3>2, <3>3
  <2>6. ~RawFrames => p' = <<>>
    BY <1>3, <2>1 DEF Accounts
  <2>5. Accounts(n)'
    BY <1>4, <1>5, <2>1, <2>3, <2>4, <2>6 DEF Accounts
  <2> QED
    BY <1>4, <2>5 DEF TakenInv
<1> QED
  BY <1>9, <1>10

LEMMA TakenNext == ASSUME TypeInv, TakenInv, [Next]_vars PROVE TakenInv'
<1>1. CASE Run
  BY <1>1, RunKeepsTaken
<1>2. CASE HoldFrame \/ RelayFrame
  BY <1>2, DequeueKeepsTaken
<1>3. CASE Settle \/ SendTail \/ Close \/ Disconnect
  <2>1. pc' \notin {"poll", "wait"}
    BY <1>3 DEF Settle, SendTail, Close, Disconnect
  <2> QED
    BY <2>1 DEF TakenInv
<1>4. CASE Poll \/ PollTimeout \/ UNCHANGED vars
  <2>1. /\ UNCHANGED <<provider, emitted, queue, out, pending_terminal_events>>
        /\ pc' \in {"poll", "wait"} => pc \in {"poll", "wait"}
    BY <1>4 DEF Poll, PollTimeout, vars, taskVars, relayVars
  <2>2. ASSUME NEW m, Accounts(m) PROVE Accounts(m)'
    BY <2>1, <2>2 DEF Accounts, RawFrames
  <2> QED
    BY <2>1, <2>2 DEF TakenInv
<1> QED
  BY <1>1, <1>2, <1>3, <1>4 DEF Next, Relay

\* The frames of a raw stream that were taken from the queue and those that are
\* still in it make up what the task emitted: no poll, no timeout and no frame
\* held back loses one, doubles one or changes their order.
THEOREM FramesConservedCorrect == Spec => []FramesConserved
<1>1. TypeInv /\ TakenInv => FramesConserved
  <2> SUFFICES ASSUME TypeInv, TakenInv, pc \in {"poll", "wait"}, RawFrames
               PROVE  /\ Part(emitted, OtherEvents) = out \o Part(queue, OtherEvents)
                      /\ Part(emitted, TerminalEvents)
                           = pending_terminal_events \o Part(queue, TerminalEvents)
    BY DEF FramesConserved, RawFrames
  <2>1. PICK m \in Seq(Event) : Accounts(m)
    BY DEF TakenInv
  <2>2. queue \in Seq(Event)
    BY DEF TypeInv, TypeOK
  <2>3. \A K : Part(m \o queue, K) = Part(m, K) \o Part(queue, K)
    BY <2>2, PartOfConcat
  <2> QED
    BY <2>1, <2>3 DEF Accounts
<1> QED
  BY <1>1, TypeInit, TypeNext, TakenInit, TakenNext, PTL DEF Spec

(***************************************************************************)
(* What a client that reads to the end has read.                           *)
(***************************************************************************)

\* The answer of a run is the text it emitted, unless an error came with it; a
\* run that only replays a stored answer emits nothing.
AnswerInv ==
    /\ provider = "stored" => emitted = <<>> /\ answer \in {0, 1}
    /\ provider # "stored" /\ ~stream_error => answer = TextPieces(emitted)
    /\ result \in Success => ~stream_error

LEMMA AnswerInit == Init => AnswerInv
  BY TextPiecesOfEmpty DEF Init, AnswerInv, Success

LEMMA AnswerNext == ASSUME TypeInv, AnswerInv, [Next]_vars PROVE AnswerInv'
<1>1. /\ emitted \in Seq(Event) /\ answer \in Nat /\ stream_error \in BOOLEAN
      /\ phase # "done" => result \notin Success
  BY DEF TypeInv, TypeOK, ResultInv, Success
<1>2. CASE UpstreamEvent
  <2>1. PICK e \in Events :
          /\ Emit(e)
          /\ answer' = answer + Cardinality(TokenLines(e, stream_error))
          /\ stream_error' = (stream_error \/ HasError(e))
    BY <1>2 DEF UpstreamEvent
  <2>2. /\ e \in Event /\ emitted' = Append(emitted, e)
        /\ provider' = provider /\ provider # "stored"
        /\ result' \notin Success
    BY <1>1, <1>2, <2>1, EventsAssumption DEF UpstreamEvent, Emit
  <2>3. ASSUME ~stream_error' PROVE answer' = TextPieces(emitted')
    <3>1. stream_error = FALSE
      BY <1>1, <2>1, <2>3
    <3>2. answer = TextPieces(emitted)
      BY <2>2, <3>1 DEF AnswerInv
    <3>3. answer' = answer + Cardinality(TokenLines(e, FALSE))
      BY <2>1, <3>1
    <3>4. TextPieces(Append(emitted, e))
            = TextPieces(emitted) + Cardinality(TokenLines(e, FALSE))
      BY <1>1, <2>2, TextPiecesOfAppend
    <3> QED
      BY <2>2, <3>2, <3>3, <3>4
  <2> QED
    BY <2>2, <2>3 DEF AnswerInv
<1>3. CASE MockToken
  <2>1. /\ emitted' = Append(emitted, ContentChunk) /\ answer' = answer + 1
        /\ UNCHANGED <<provider, stream_error, result>>
        /\ provider # "stored" /\ result \notin Success
    BY <1>1, <1>3 DEF MockToken, Emit
  <2>2. TextPieces(Append(emitted, ContentChunk)) = TextPieces(emitted) + 1
    <3>1. TokenLines(ContentChunk, FALSE) = {1}
      BY DEF TokenLines, Read, ContentChunk
    <3>2. Cardinality({1}) = 1
      BY FS_Singleton
    <3>3. ContentChunk \in Event
      BY OwnChunks
    <3>4. TextPieces(Append(emitted, ContentChunk))
            = TextPieces(emitted) + Cardinality(TokenLines(ContentChunk, FALSE))
      BY <1>1, <3>3, TextPiecesOfAppend
    <3> QED
      BY <3>1, <3>2, <3>4
  <2>3. ~stream_error => answer = TextPieces(emitted)
    BY <2>1 DEF AnswerInv
  <2>4. ~stream_error' => answer' = TextPieces(emitted')
    BY <2>1, <2>2, <2>3
  <2> QED
    BY <2>1, <2>4 DEF AnswerInv
<1>4. CASE StoredAnswer
  BY <1>1, <1>4 DEF StoredAnswer, AnswerInv
<1>5. CASE Connect \/ ConnectFails \/ BodyEnds \/ BodyFails \/ RunEnds
  <2>1. UNCHANGED <<provider, emitted, answer, stream_error>>
    BY <1>5 DEF Connect, ConnectFails, BodyEnds, BodyFails, RunEnds
  <2>2. result' \in Success => ~stream_error
    BY <1>1, <1>5 DEF Connect, ConnectFails, BodyEnds, BodyFails, RunEnds,
         Return, Success, ClientErrors
  <2> QED
    BY <2>1, <2>2 DEF AnswerInv
<1>6. CASE Relay \/ Disconnect \/ UNCHANGED vars
  <2>1. UNCHANGED <<provider, emitted, answer, stream_error, result>>
    BY <1>6 DEF Relay, Disconnect, Poll, PollTimeout, HoldFrame, RelayFrame,
         DequeueFrame, Settle, SendTail, Close, vars, taskVars
  <2> QED
    BY <2>1 DEF AnswerInv
<1> QED
  BY <1>2, <1>3, <1>4, <1>5, <1>6 DEF Next, Run

\* What was sent and what remains to be sent: after the loop, all that the client
\* will have read at the end.
Shown == out \o tail

\* How a stream ends that shows s.
EndsWell(s) ==
    /\ RawFrames /\ emitted # <<>> =>
         s = Part(emitted, OtherEvents) \o
             IF result = "tool_calls" THEN <<ToolCallsChunk, FinishChunk, DoneChunk>>
                                      ELSE Part(emitted, TerminalEvents)
    /\ result = "answer" => TextPieces(s) = answer
    /\ result = "tool_calls" =>
         \E draft \in Seq(Event) :
            /\ NoTerminal(draft)
            /\ s = draft \o <<ToolCallsChunk, FinishChunk, DoneChunk>>

ShownInv ==
    /\ pc \in {"send", "closed"} => EndsWell(Shown)
    /\ pc = "closed" => tail = <<>>

StreamInv == LoopInv /\ EndInv /\ TakenInv /\ AnswerInv

\* The whole answer is shown: streamed, held back, or written by stream() itself
\* when no frame came.
LEMMA ClosingShowsAnswer ==
    ASSUME StreamInv, pc = "poll", TaskDone, queue = <<>>, result = "answer"
    PROVE  TextPieces(out \o Closing) = answer
<1> DEFINE p == pending_terminal_events
<1>1. /\ TypeOK /\ RawInv /\ CountInv /\ ~stream_error /\ result # "tool_calls"
      /\ out \in Seq(Event) /\ p \in Seq(Event) /\ answer \in Nat
  BY DEF StreamInv, LoopInv, TypeInv, TypeOK, AnswerInv, Success
<1>2. PICK m \in Seq(Event) : Accounts(m)
  BY DEF StreamInv, TakenInv
<1>3. /\ emitted = m
      /\ ~RawFrames => p = <<>>
      /\ TextPieces(m) = TextPieces(out) + TextPieces(p)
      /\ TextPieces(out) \in Nat /\ TextPieces(p) \in Nat
  BY <1>1, <1>2, ConcatEmptySeq, TextPiecesType DEF Accounts
<1>4. Closing \in Seq(Event)
  BY <1>1, ClosingType DEF Raises, ClientErrors
<1>5. TextPieces(out \o Closing) = TextPieces(out) + TextPieces(Closing)
  BY <1>1, <1>4, TextPiecesOfConcat
<1>6. CASE passthrough_mode
  <2>1. Closing = p /\ provider # "stored"
    BY <1>1, <1>6 DEF Closing, RawInv, RawFrames
  <2>2. answer = TextPieces(emitted)
    BY <1>1, <2>1 DEF StreamInv, AnswerInv
  <2> QED
    BY <1>3, <1>5, <2>1, <2>2
<1>7. CASE ~passthrough_mode /\ streamed_chunk_count = 0
  <2>1. Len(out) = 0 /\ Len(p) = 0 /\ Len(emitted) = 0
    BY <1>1, <1>7 DEF CountInv, TypeOK
  <2>2. out = <<>> /\ p = <<>> /\ emitted = <<>>
    BY <1>1, <2>1 DEF TypeOK
  <2>3. answer \in {0, 1}
    <3>1. provider # "stored" => answer = TextPieces(emitted)
      BY <1>1 DEF StreamInv, AnswerInv
    <3>2. provider = "stored" => answer \in {0, 1}
      BY DEF StreamInv, AnswerInv
    <3> QED
      BY <2>2, <3>1, <3>2, TextPiecesOfEmpty
  <2>4. TextPieces(out) = 0
    BY <2>2, TextPiecesOfEmpty
  <2>5. Closing = IF answer > 0 THEN <<ContentChunk, FinishChunk, DoneChunk>>
                                ELSE <<FinishChunk, DoneChunk>>
    BY <1>1, <1>7 DEF Closing
  <2>6. TextPieces(Closing) = answer
    BY <2>3, <2>5, OwnText
  <2> QED
    BY <1>1, <1>5, <2>4, <2>6
<1>8. CASE ~passthrough_mode /\ streamed_chunk_count # 0
  <2>1. streamed_chunk_count > 0 /\ ~RawFrames
    BY <1>1, <1>8 DEF TypeOK, RawInv
  <2>2. Closing = <<FinishChunk, DoneChunk>>
    BY <1>1, <1>8 DEF Closing
  <2>3. emitted # <<>>
    <3>1. Len(emitted) # 0
      BY <1>1, <1>8 DEF CountInv, TypeOK
    <3> QED
      BY <3>1, EmptySeq
  <2>4. answer = TextPieces(emitted)
    BY <1>1, <2>3 DEF StreamInv, AnswerInv
  <2>5. TextPieces(p) = 0 /\ TextPieces(Closing) = 0
    BY <1>3, <2>1, <2>2, TextPiecesOfEmpty, OwnText
  <2> QED
    BY <1>3, <1>5, <2>4, <2>5
<1> QED
  BY <1>6, <1>7, <1>8

\* Leaving the loop without an error: what was sent and what Closing adds.
LEMMA SettleEndsWell ==
    ASSUME StreamInv, pc = "poll", TaskDone, queue = <<>>, ~Raises
    PROVE  EndsWell(out \o Closing)
<1>1. CASE result = "tool_calls"
  <2>1. Closing = <<ToolCallsChunk, FinishChunk, DoneChunk>>
    BY <1>1 DEF Closing
  <2>2. NoTerminal(out) /\ out \in Seq(Event)
    BY DEF StreamInv, EndInv, LoopInv, TypeInv, TypeOK
  <2>3. RawFrames => out = Part(emitted, OtherEvents)
    <3>1. PICK m \in Seq(Event) : Accounts(m)
      BY DEF StreamInv, TakenInv
    <3> QED
      BY <3>1, ConcatEmptySeq DEF Accounts
  <2> QED
    BY <1>1, <2>1, <2>2, <2>3 DEF EndsWell
<1>2. CASE result # "tool_calls"
  <2>1. ASSUME RawFrames, emitted # <<>>
        PROVE  out \o Closing = Part(emitted, OtherEvents) \o Part(emitted, TerminalEvents)
    <3>1. PICK m \in Seq(Event) : Accounts(m)
      BY DEF StreamInv, TakenInv
    <3>2. /\ emitted = m /\ out = Part(m, OtherEvents)
          /\ pending_terminal_events = Part(m, TerminalEvents)
      BY <2>1, <3>1, ConcatEmptySeq DEF Accounts
    <3>3. passthrough_mode
      <4>1. Len(emitted) \in Nat /\ Len(emitted) # 0
        BY <2>1, EmptySeq DEF StreamInv, LoopInv, TypeInv, TypeOK
      <4>2. streamed_chunk_count > 0
        BY <4>1 DEF StreamInv, LoopInv, TypeInv, TypeOK, CountInv
      <4> QED
        BY <2>1, <4>2 DEF StreamInv, LoopInv, RawInv
    <3>4. Closing = pending_terminal_events
      BY <1>2, <3>3 DEF Closing
    <3> QED
      BY <3>2, <3>4
  <2>2. result = "answer" => TextPieces(out \o Closing) = answer
    BY ClosingShowsAnswer
  <2> QED
    BY <1>2, <2>1, <2>2 DEF EndsWell
<1> QED
  BY <1>1, <1>2

LEMMA ShownNext ==
    ASSUME StreamInv, ShownInv, [Next]_vars PROVE ShownInv'
<1>1. /\ out \in Seq(Event) /\ tail \in Seq(Event) /\ LoopDrained
  BY DEF StreamInv, LoopInv, TypeInv, TypeOK
<1>2. CASE Run
  <2>1. ~TaskDone /\ UNCHANGED pc
    BY <1>2 DEF Run, Connect, StoredAnswer, ConnectFails, UpstreamEvent, MockToken,
         BodyEnds, BodyFails, RunEnds, TaskDone, relayVars
  <2> QED
    BY <1>1, <2>1 DEF ShownInv, LoopDrained
<1>3. CASE Settle
  <2>1. CASE Raises
    BY <1>3, <2>1 DEF Settle, ShownInv
  <2>2. CASE ~Raises
    <3>1. /\ pc = "poll" /\ TaskDone /\ queue = <<>>
          /\ pc' = "send" /\ tail' = Closing
          /\ UNCHANGED <<provider, emitted, result, answer, out>>
      BY <1>3, <2>2 DEF Settle, LoopOver, taskVars
    <3>2. EndsWell(out \o Closing)
      BY <2>2, <3>1, SettleEndsWell
    <3>3. Shown' = out \o Closing
      BY <3>1 DEF Shown
    <3>4. EndsWell(Shown)'
      BY <3>1, <3>2, <3>3 DEF EndsWell, RawFrames
    <3> QED
      BY <3>1, <3>4 DEF ShownInv
  <2> QED
    BY <2>1, <2>2
<1>4. CASE SendTail
  <2>1. /\ pc = "send" /\ pc' = "send"
        /\ UNCHANGED <<provider, emitted, result, answer>>
        /\ Moves(out, tail, out', tail')
    BY <1>4 DEF SendTail, Yield, Moves, taskVars
  <2>2. Shown' = Shown
    BY <1>1, <2>1, MoveHead DEF Shown
  <2>3. EndsWell(Shown)'
    BY <2>1, <2>2 DEF ShownInv, EndsWell, RawFrames
  <2> QED
    BY <2>1, <2>3 DEF ShownInv
<1>5. CASE Close \/ UNCHANGED vars
  <2>1. /\ UNCHANGED <<provider, emitted, result, answer, out, tail>>
        /\ pc' \in {"send", "closed"} => pc \in {"send", "closed"}
        /\ pc' = "closed" => tail = <<>>
    BY <1>5 DEF Close, vars, taskVars, relayVars, ShownInv
  <2>2. Shown' = Shown
    BY <2>1 DEF Shown
  <2>3. EndsWell(Shown) => EndsWell(Shown)'
    BY <2>1, <2>2 DEF EndsWell, RawFrames
  <2> QED
    BY <2>1, <2>3 DEF ShownInv
<1>6. CASE \/ Poll \/ PollTimeout \/ HoldFrame \/ RelayFrame \/ Disconnect
  <2>1. pc' \notin {"send", "closed"}
    BY <1>6 DEF Poll, PollTimeout, HoldFrame, RelayFrame, DequeueFrame, Disconnect
  <2> QED
    BY <2>1 DEF ShownInv
<1> QED
  BY <1>2, <1>3, <1>4, <1>5, <1>6 DEF Next, Relay

LEMMA EndInit == Init => EndInv
  BY DEF Init, EndInv, NoTerminal

LEMMA StreamInit == Init => StreamInv /\ ShownInv
<1>1. Init => ShownInv
  BY DEF Init, ShownInv
<1> QED
  BY <1>1, LoopInit, EndInit, TakenInit, AnswerInit DEF StreamInv

LEMMA StreamNext ==
    ASSUME StreamInv, ShownInv, [Next]_vars PROVE StreamInv' /\ ShownInv'
<1>1. LoopInv' /\ EndInv' /\ TakenInv' /\ AnswerInv'
  BY LoopNext, EndNext, TakenNext, AnswerNext DEF StreamInv, LoopInv
<1> QED
  BY <1>1, ShownNext DEF StreamInv

\* A client that read to the end has read what the stream was to show.
LEMMA ClosedEndsWell ==
    ASSUME StreamInv, ShownInv, pc = "closed"
    PROVE  out \in Seq(Event) /\ EndsWell(out)
<1>1. out \in Seq(Event) /\ tail = <<>> /\ EndsWell(Shown)
  BY DEF StreamInv, LoopInv, TypeInv, TypeOK, ShownInv
<1>2. Shown = out
  BY <1>1, ConcatEmptySeq DEF Shown
<1> QED
  BY <1>1, <1>2

\* A raw stream read to its end is the upstream's: every event that is not
\* terminal, in its order, and then the terminal ones, or tool_calls, finish and
\* [DONE] where it was the draft of a review.
THEOREM RelayCompleteCorrect == Spec => []RelayComplete
<1>1. StreamInv /\ ShownInv => RelayComplete
  BY ClosedEndsWell DEF RelayComplete, EndsWell, RawFrames
<1>2. StreamInv /\ ShownInv /\ [Next]_vars => (StreamInv /\ ShownInv)'
  BY StreamNext
<1> QED
  BY <1>1, <1>2, StreamInit, PTL DEF Spec

\* The conversation a client read to its end holds the answer the graph saved,
\* piece for piece: relayed raw, streamed by the mock, or replayed from storage.
THEOREM AnswerStreamedCorrect == Spec => []AnswerStreamed
<1>1. StreamInv /\ ShownInv => AnswerStreamed
  BY ClosedEndsWell DEF AnswerStreamed, EndsWell
<1>2. StreamInv /\ ShownInv /\ [Next]_vars => (StreamInv /\ ShownInv)'
  BY StreamNext
<1> QED
  BY <1>1, <1>2, StreamInit, PTL DEF Spec

\* The three last events of a stream that shows draft and then three of its own.
LEMMA LastThree ==
    ASSUME NEW draft \in Seq(Event), NEW own \in Seq(Event), Len(own) = 3,
           ~Terminal(own[1]), NoTerminal(draft), NEW s, s = draft \o own
    PROVE  /\ Len(s) >= 3
           /\ SubSeq(s, Len(s) - 2, Len(s)) = own
           /\ \A i \in 1..(Len(s) - 2) : ~Terminal(s[i])
<1>1. /\ s \in Seq(Event) /\ Len(s) = Len(draft) + Len(own)
      /\ \A i \in 1..Len(draft) + Len(own) :
            s[i] = IF i <= Len(draft) THEN draft[i] ELSE own[i - Len(draft)]
      /\ Len(draft) \in Nat /\ DOMAIN draft = 1..Len(draft)
  BY ConcatProperties, LenProperties
<1>2. SubSeq(s, Len(s) - 2, Len(s)) = own
  <2> DEFINE a == Len(draft) + 1
             b == Len(draft) + 3
  <2>1. /\ a \in Len(draft) + 1..Len(draft) + Len(own)
        /\ b \in Len(draft) + 1..Len(draft) + Len(own)
        /\ a - Len(draft) = 1 /\ b - Len(draft) = 3
        /\ Len(s) - 2 = a /\ Len(s) = b
    BY <1>1
  <2> HIDE DEF a, b
  <2>2. SubSeq(draft \o own, a, b) = SubSeq(own, a - Len(draft), b - Len(draft))
    BY <2>1, SubSeqOfConcat2
  <2>3. SubSeq(own, 1, Len(own)) = own
    BY SubSeqFull
  <2> QED
    BY <2>1, <2>2, <2>3
<1>3. ASSUME NEW i \in 1..(Len(s) - 2) PROVE ~Terminal(s[i])
  <2>1. CASE i <= Len(draft)
    <3>1. i \in DOMAIN draft /\ s[i] = draft[i]
      BY <1>1, <1>3, <2>1
    <3> QED
      BY <3>1 DEF NoTerminal
  <2>2. CASE i > Len(draft)
    <3>1. i = Len(draft) + 1 /\ i - Len(draft) = 1
      BY <1>1, <1>3, <2>2
    <3>2. s[i] = own[1]
      BY <1>1, <1>3, <3>1
    <3> QED
      BY <3>2
  <2> QED
    BY <1>1, <1>3, <2>1, <2>2
<1> QED
  BY <1>1, <1>2, <1>3

\* An interrupted review shows its draft, then tool_calls, one finish and [DONE].
\* A client that reads every line meets no finish and no [DONE] of the draft's own
\* stream, for every upstream whose closing lines lead.
THEOREM ReviewEndsWithToolCallsCorrect == Spec => []ReviewEndsWithToolCalls
<1>1. StreamInv /\ ShownInv /\ KnownInv => ReviewEndsWithToolCalls
  <2> SUFFICES ASSUME StreamInv, ShownInv, KnownInv, ClosersLead,
                      pc = "closed", result = "tool_calls"
               PROVE  /\ Len(out) >= 3
                      /\ SubSeq(out, Len(out) - 2, Len(out))
                           = <<ToolCallsChunk, FinishChunk, DoneChunk>>
                      /\ \A i \in 1..(Len(out) - 2) : ~Closes(out[i])
    BY DEF ReviewEndsWithToolCalls
  <2> DEFINE own == <<ToolCallsChunk, FinishChunk, DoneChunk>>
  <2>1. PICK draft \in Seq(Event) : NoTerminal(draft) /\ out = draft \o own
    BY ClosedEndsWell DEF EndsWell
  <2>2. own \in Seq(Event) /\ Len(own) = 3 /\ ~Terminal(own[1])
    BY OwnChunks
  <2> HIDE DEF own
  <2>3. /\ Len(out) >= 3
        /\ SubSeq(out, Len(out) - 2, Len(out)) = own
        /\ \A i \in 1..(Len(out) - 2) : ~Terminal(out[i])
    BY <2>1, <2>2, LastThree
  <2>4. ASSUME NEW i \in 1..(Len(out) - 2) PROVE ~Closes(out[i])
    <3>1. out[i] \in Known
      BY <2>4 DEF KnownInv
    <3> QED
      BY <2>3, <2>4, <3>1, SameVerdict
  <2> QED
    BY <2>3, <2>4 DEF own
<1>2. StreamInv /\ ShownInv /\ KnownInv /\ [Next]_vars
        => (StreamInv /\ ShownInv /\ KnownInv)'
  BY StreamNext, KnownNext DEF StreamInv, LoopInv
<1> QED
  BY <1>1, <1>2, StreamInit, KnownInit, PTL DEF Spec
================================================================================
