------------------------------ MODULE SseEvents ------------------------------
(***************************************************************************)
(* Server-sent events as the gateway and the relay see them.               *)
(*                                                                         *)
(* An event is the sequence of its "data:" lines (comments and other       *)
(* fields carry none), and a data line is one of a few payloads:           *)
(*   role        delta with role, no text, finish_reason null              *)
(*   content     delta with text, finish_reason null                       *)
(*   usage       chunk whose choices are empty, or no chunk at all         *)
(*   finish      finish_reason set, no text                                *)
(*   last        finish_reason set AND text in the delta                   *)
(*   error       chunk with an "error" member, no choices                  *)
(*   tool_calls  delta with tool_calls, finish_reason null                 *)
(*   done        the literal [DONE]                                        *)
(***************************************************************************)
EXTENDS Naturals, Sequences, FiniteSets, Functions

Payload == {"role", "content", "usage", "finish", "last", "error",
            "tool_calls", "done"}

Event == Seq(Payload)

\* The relay classifies an event by its FIRST data line only.
Terminal(e) == e # <<>> /\ e[1] \in {"finish", "last", "done"}

\* A client reads every data line: this event tells it that the answer is over.
Closes(e) == \E i \in DOMAIN e : e[i] \in {"finish", "last", "done"}

\* The gateway reads the data lines of an event up to its first [DONE].
Read(e) == {i \in DOMAIN e : \A j \in 1..i : e[j] # "done"}

Stops(e) == \E i \in DOMAIN e : e[i] = "done"

HasError(e) == \E i \in Read(e) : e[i] = "error"

\* The lines of an event whose text the gateway hands to the node: none once
\* an error was seen, in an earlier event or on an earlier line.
TokenLines(e, stream_error) ==
    {i \in Read(e) : /\ ~stream_error
                     /\ e[i] \in {"content", "last"}
                     /\ \A j \in 1..i : e[j] # "error"}

\* The chunks stream() writes itself.
ContentChunk   == <<"content">>
ToolCallsChunk == <<"tool_calls">>
FinishChunk    == <<"finish">>
DoneChunk      == <<"done">>
==============================================================================
