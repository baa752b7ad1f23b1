------------------------------ MODULE HitlReview ------------------------------
(***************************************************************************)
(* One thread of demo-hitl, whose graph drafts an answer and interrupts    *)
(* for a human review, and the client that asks and reviews.               *)
(*                                                                         *)
(* run_once takes a request that carries a tool message with a string      *)
(* anywhere for the review of the draft and resumes the graph with it; any *)
(* other request starts the graph again, also one whose tool messages are  *)
(* lists of text parts, or null.                                           *)
(*                                                                         *)
(* LangGraph (external): a run works on its own copy of the checkpoint and *)
(* saves it after each step; new input abandons a pending interrupt and    *)
(* leaves the other keys of the state; a resume goes on at the node that   *)
(* is next, which takes the resume value only when it interrupts, and      *)
(* gives back the state of a graph that has ended.                         *)
(***************************************************************************)
EXTENDS Naturals

CONSTANTS
    MaxRequests, \* bound: the HTTP requests of the conversation
    Leaving,     \* can the client give up on a request that is under way?
    Question,    \* the user's questions
    Edits,       \* the texts a reviewer puts in place of a draft
    Forms,       \* how clients write the content of a tool message
    Resends      \* does the client resend its whole transcript?

CONSTANTS None, NoText

Requests == 1..MaxRequests

\* A draft for a question; the LLM may write another one each time.
DraftOf(q, r) == [for |-> q, by |-> r]

Drafts == [for : Question \union Edits, by : Requests]
Texts  == Edits \union Drafts

\* What a tool message holds; a null is a list of parts without text to the code.
Content == [form : Forms, text : Edits \union {NoText}]

Written(text) == [form |-> "string", text |-> text]

ASSUME FlagsAssumption == Resends \in BOOLEAN /\ Leaving \subseteq BOOLEAN
ASSUME FormsAssumption == Forms \subseteq {"string", "parts"}
ASSUME BoundAssumption == MaxRequests \in Nat
ASSUME TextsAssumption ==
    /\ None \notin Requests \union Question \union Texts \union Content
    /\ NoText \notin Texts /\ Edits \intersect Drafts = {}

VARIABLES
    thread,   \* the checkpoint: the node that is next, the draft and the final text
    run,      \* what the server does for each request
    leaves,   \* does this client leave requests under way?
    want,     \* what the client wants: a draft for q, or tool to take effect
    about,    \* the question it asked last, or None
    seen,     \* the draft the client has to review, or None
    old,      \* the last string among the tool messages of its transcript, or None
    waiting   \* the request the client waits for, or None

clientVars == <<leaves, want, about, seen, old, waiting>>
vars       == <<thread, run, clientVars>>

Reply(kind, text)       == [kind |-> kind, text |-> text]
State(at, draft, final) == [at |-> at, draft |-> draft, final |-> final]

IsString(tool) == tool # None /\ tool.form = "string"

Unasked == [q |-> None, tool |-> None]

Request(st, q, tool, older) ==
    [st |-> st, q |-> q, tool |-> tool, older |-> older, copy |-> None, reply |-> None]

Idle == Request("idle", None, None, None)

Init ==
    /\ thread = State("start", None, None)
    /\ run = [r \in Requests |-> Idle]
    /\ leaves \in Leaving
    /\ want = Unasked /\ about = None /\ seen = None /\ old = None /\ waiting = None

------------------------------------------------------------------------------
(* The client.                                                             *)

\* The question comes after the tool messages of the transcript and before the
\* request's own.
Submit(r, q, tool) ==
    /\ waiting = None
    /\ run[r].st = "idle" /\ \A s \in 1..(r - 1) : run[s].st # "idle"
    /\ run' = [run EXCEPT ![r] =
         Request("sent", q, tool, IF Resends THEN old ELSE None)]
    /\ want' = [q |-> q, tool |-> tool] /\ about' = q /\ waiting' = r
    /\ UNCHANGED <<thread, leaves, old>>

\* A new question, also instead of the review of a draft.
Ask(r) ==
    /\ want = Unasked
    /\ \E q \in Question : Submit(r, q, None)
    /\ seen' = None

\* The draft is approved or replaced; the request repeats its question.
Review(r) ==
    /\ want = Unasked /\ seen # None
    /\ \E tool \in Content : Submit(r, about, tool)
    /\ UNCHANGED seen

Retry(r) ==
    /\ want # Unasked
    /\ Submit(r, want.q, want.tool)
    /\ UNCHANGED seen

Receive ==
    LET reply == run[waiting].reply
    IN  /\ waiting # None /\ run[waiting].st = "answered"
        /\ seen' = IF reply.kind = "tool_calls" THEN reply.text ELSE None
        /\ old' = IF IsString(want.tool) THEN want.tool ELSE old
        /\ want' = Unasked /\ waiting' = None
        /\ UNCHANGED <<thread, run, leaves, about>>

ReceiveError ==
    /\ waiting # None /\ run[waiting].st = "failed"
    /\ waiting' = None
    /\ UNCHANGED <<thread, run, leaves, want, about, seen, old>>

\* The response is lost, or the client does not wait for it and the run goes on;
\* the client will send the very same request again.
Lose ==
    /\ waiting # None /\ (run[waiting].st = "answered" \/ leaves)
    /\ run[waiting].st # "failed"
    /\ waiting' = None
    /\ UNCHANGED <<thread, run, leaves, want, about, seen, old>>

------------------------------------------------------------------------------
(* The server.                                                             *)

\* What the server does for r is st from now on.
Advance(r, st, copy, reply) ==
    run' = [run EXCEPT ![r] = [st |-> st, q |-> @.q, tool |-> @.tool,
                               older |-> @.older, copy |-> copy, reply |-> reply]]

\* Mutant: whatever arrives while a review is pending is taken for it.
ResumesPending(r) == thread.at = "human_review"

\* _resume_payload: the last tool message of the request that is a string.
Payload(r) == IF IsString(run[r].tool) THEN run[r].tool ELSE run[r].older

Resumes(r) == Payload(r) # None

\* The graph starts at generate_draft, or goes on where it is.
Begin(r, node) ==
    /\ thread' = State(node, thread.draft, thread.final)
    /\ Advance(r, node, thread', None)
    /\ UNCHANGED clientVars

Start(r) ==
    /\ run[r].st = "sent" /\ ~Resumes(r)
    /\ Begin(r, "generate_draft")

Resume(r) ==
    /\ run[r].st = "sent" /\ Resumes(r)
    /\ thread.at \in {"generate_draft", "human_review"}
    /\ Begin(r, thread.at)

\* Nothing is left to run: the state as it is, whose final text comes first.
ResumeEnded(r) ==
    /\ run[r].st = "sent" /\ Resumes(r) /\ thread.at = "end"
    /\ Advance(r, "answered", run[r].copy, Reply("stop", thread.final))
    /\ UNCHANGED <<thread, clientVars>>

\* The last tool or user message that has a text, in either form.
LastText(r) ==
    IF run[r].tool # None /\ run[r].tool.text # NoText THEN run[r].tool.text ELSE run[r].q

\* Mutant: the draft of an earlier question is kept.
GenerateOnce(r) ==
    LET draft == IF run[r].copy.draft = None THEN DraftOf(LastText(r), r)
                                             ELSE run[r].copy.draft
    IN  /\ run[r].st = "generate_draft"
        /\ thread' = State("human_review", draft, run[r].copy.final)
        /\ Advance(r, "answered", run[r].copy, Reply("tool_calls", DraftOf(LastText(r), r)))
        /\ UNCHANGED clientVars

\* generate_draft saves its draft and human_review interrupts with it.
Generate(r) ==
    LET draft == DraftOf(LastText(r), r)
    IN  /\ run[r].st = "generate_draft"
        /\ thread' = State("human_review", draft, run[r].copy.final)
        /\ Advance(r, "answered", run[r].copy, Reply("tool_calls", draft))
        /\ UNCHANGED clientVars

\* The LLM call raises.
Fail(r) ==
    /\ run[r].st = "generate_draft"
    /\ Advance(r, "failed", run[r].copy, None)
    /\ UNCHANGED <<thread, clientVars>>

\* Mutant: the draft wins over the reviewer's text.
FinalDraftFirst(r) == run[r].copy.draft

\* Mutant: the text of the tool message as it is, also when there is none.
FinalRaw(r) == Payload(r).text

\* The reviewer's text, or the draft when there is none.
Final(r) ==
    IF Payload(r) = None \/ Payload(r).text = NoText
    THEN run[r].copy.draft ELSE Payload(r).text

\* human_review runs again, now with the resume value.
Finish(r) ==
    /\ run[r].st = "human_review"
    /\ thread' = State("end", run[r].copy.draft, Final(r))
    /\ Advance(r, "answered", run[r].copy, Reply("stop", Final(r)))
    /\ UNCHANGED clientVars

Next ==
    \/ \E r \in Requests :
         \/ Ask(r) \/ Review(r) \/ Retry(r)
         \/ Start(r) \/ Resume(r) \/ ResumeEnded(r) \/ Generate(r) \/ Fail(r) \/ Finish(r)
    \/ Receive \/ ReceiveError \/ Lose

Spec == Init /\ [][Next]_vars

------------------------------------------------------------------------------
(* Properties.                                                             *)

Checkpoint ==
    [at : {"start", "generate_draft", "human_review", "end"},
     draft : Texts \union {None}, final : Texts \union {None}]

Strings == {tool \in Content : IsString(tool)}

\* Type invariant of the checkpoint, the runs and the client: a text is an edit
\* or a draft.
TypeOK ==
    /\ thread \in Checkpoint
    /\ run \in [Requests ->
         [st : {"idle", "sent", "generate_draft", "human_review", "answered", "failed"},
          q : Question \union {None},
          tool : Content \union {None},
          older : Strings \union {None},
          copy : Checkpoint \union {None},
          reply : [kind : {"tool_calls", "stop"}, text : Texts] \union {None}]]
    /\ want \in [q : Question \union {None}, tool : Content \union {None}]
    /\ leaves \in Leaving /\ seen \in Texts \union {None}
    /\ about \in Question \union {None} /\ old \in Strings \union {None}
    /\ waiting \in Requests \union {None}

Answered == waiting # None /\ run[waiting].st = "answered"

\* A question is answered with a draft for it, to be reviewed, whatever other runs
\* are under way.  README.md: "Draft generation followed by human review
\* interrupt".
QuestionGetsDraft ==
    Answered /\ want.tool = None =>
        /\ run[waiting].reply.kind = "tool_calls"
        /\ run[waiting].reply.text.for = want.q

\* The review of a client that waits, written as a string, is answered with the
\* final text: the reviewer's own, or the very draft that was shown.
ReviewDecides ==
    Answered /\ IsString(want.tool) /\ ~leaves =>
        run[waiting].reply =
            Reply("stop", IF want.tool.text = NoText THEN seen ELSE want.tool.text)

\* While a client that waits has a draft to review, the thread waits for that
\* review of that draft.
SeenDraftAwaitsReview ==
    seen # None /\ want = Unasked /\ ~leaves => thread.at = "human_review" /\ thread.draft = seen

Tools == {run[r].tool : r \in Requests} \ {None}

Reviewed(text) ==
    Written(text) \in Tools \/ (Written(NoText) \in Tools /\ text \notin Edits)

\* Whatever overlaps, no text becomes the final one, or is given out as final,
\* that no review has written as a string, and no draft without an approval.
NothingUnreviewed ==
    /\ thread.final # None => Reviewed(thread.final)
    /\ \A r \in Requests :
         run[r].reply # None =>
             (run[r].reply.kind = "stop" => Reviewed(run[r].reply.text))
===============================================================================
