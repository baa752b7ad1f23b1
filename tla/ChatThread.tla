------------------------------ MODULE ChatThread ------------------------------
(***************************************************************************)
(* One conversation (one thread_id) of a workflow that keeps its messages, *)
(* the worker processes that serve it, and the client that talks to it.    *)
(*                                                                         *)
(* run_once reads the checkpointed messages, computes what the request     *)
(* adds to them, and either answers from the history or invokes the graph. *)
(* The graph loads the checkpoint again, saves it with the new messages    *)
(* before its node runs, and saves the answer after it.  Between these     *)
(* awaits the runs of other requests on the thread proceed.                *)
(*                                                                         *)
(* LangGraph (external): a run works on its own copy of the messages and   *)
(* what it saves last is the thread; a failed node leaves the messages     *)
(* saved before it; a graph without a checkpointer has no state to read.   *)
(* gunicorn (external): any worker may get a request; a worker that dies   *)
(* is replaced.                                                            *)
(***************************************************************************)
EXTENDS MessagesDelta, SeqParts, SequencesExt

CONSTANTS
    MaxRequests, \* bound: the HTTP requests of the conversation
    MaxOverlap,  \* bound: those of a client that leaves requests under way
    MaxCrashes,  \* bound: the workers that die
    Workers,     \* the processes of one deployment
    Backends,    \* langgraph.checkpointer.backend
    Styles,      \* "full": resends its transcript; "new": only the question
    Leaving,     \* can the client give up on a request that is under way?
    MayFail,     \* can an LLM call fail?
    MayBeBlank   \* can an LLM answer without a text?

CONSTANTS None, Shared   \* no request or question; the store all workers share

ASSUME BoundsAssumption   == {MaxRequests, MaxOverlap, MaxCrashes} \subseteq Nat
ASSUME BackendsAssumption == Backends \subseteq {"null", "memory", "external"}
ASSUME StylesAssumption   == Styles \subseteq {"full", "new"}
ASSUME FlagsAssumption    == Leaving \subseteq BOOLEAN /\ {MayFail, MayBeBlank} \subseteq BOOLEAN
ASSUME SentinelAssumption == None \notin 1..MaxRequests /\ Shared \notin Workers

VARIABLES
    thread,     \* the checkpointed messages, of each store
    run,        \* what the server does for each request
    backend,
    client,     \* how this client behaves
    transcript, \* the conversation as the client saw it
    asked,      \* the question the client wants answered, or None
    waiting,    \* the request it waits for, or None
    crashes

setup      == <<backend, client>>
clientVars == <<transcript, asked, waiting>>
vars       == <<thread, run, setup, clientVars, crashes>>

\* A question is named after the request that asks it first.
Requests == 1..MaxRequests
Question == Requests
Stores   == Workers \union {Shared}

\* What is said about question q: itself, an answer, an answer without a text.
User(q)  == [role |-> "user",  about |-> q]
Ai(q)    == [role |-> "ai",    about |-> q]
Blank(q) == [role |-> "blank", about |-> q]

\* run_once drops the incoming messages without a text; saved ones stay.
Normalized(messages) == Part(messages, [role : {"user", "ai"}, about : Question])

Idle == [st |-> "idle", at |-> None, incoming |-> <<>>, delta |-> <<>>,
         messages |-> <<>>, reply |-> None]

Init ==
    /\ thread = [s \in Stores |-> <<>>]
    /\ run = [r \in Requests |-> Idle]
    /\ backend \in Backends
    /\ client \in [style : Styles, leaves : Leaving]
    /\ transcript = <<>>
    /\ asked = None /\ waiting = None
    /\ crashes = 0

\* Mutant: every worker keeps its own store.
HomeLocal(w) == w

\* Each process has a MemorySaver of its own; the other savers share a store.
Home(w) == IF backend = "memory" THEN w ELSE Shared

Saved(r) == thread[Home(run[r].at)]

Save(r, messages) == thread' = [thread EXCEPT ![Home(run[r].at)] = messages]

Of(s, role) == {i \in DOMAIN s : s[i].role = role}

\* Mutant: the search runs from the wrong end.
LastOfFirst(s, role) ==
    s[CHOOSE i \in Of(s, role) : \A j \in Of(s, role) : i <= j]

LastOf(s, role) ==
    s[CHOOSE i \in Of(s, role) : \A j \in Of(s, role) : j <= i]

------------------------------------------------------------------------------
(* The client.                                                             *)

\* Mutant: the role keeps LangChain's own name.
PayloadHuman(q) == Append(transcript, [role |-> "human", about |-> q])

Payload(q) ==
    IF client.style = "full" THEN Append(transcript, User(q)) ELSE <<User(q)>>

\* Requests are numbered in the order in which they are sent.
Submit(r, q) ==
    /\ waiting = None /\ (client.leaves => r <= MaxOverlap)
    /\ run[r].st = "idle" /\ \A s \in 1..(r - 1) : run[s].st # "idle"
    /\ \E w \in Workers :
         run' = [run EXCEPT ![r] = [Idle EXCEPT !.st = "sent", !.at = w,
                                                !.incoming = Payload(q)]]
    /\ asked' = q /\ waiting' = r
    /\ UNCHANGED <<thread, setup, transcript, crashes>>

Ask(r) == asked = None /\ Submit(r, r)

\* After a failure or a timeout the client sends the very same request.
Retry(r) == asked # None /\ Submit(r, asked)

Receive ==
    /\ waiting # None /\ run[waiting].st = "answered"
    /\ transcript' = transcript \o <<User(asked), run[waiting].reply>>
    /\ asked' = None /\ waiting' = None
    /\ UNCHANGED <<thread, run, setup, crashes>>

ReceiveError ==
    /\ waiting # None /\ run[waiting].st = "failed"
    /\ waiting' = None
    /\ UNCHANGED <<thread, run, setup, transcript, asked, crashes>>

\* The client times out or loses the connection; its run goes on.
Abandon ==
    /\ client.leaves
    /\ waiting # None /\ run[waiting].st # "failed"
    /\ waiting' = None
    /\ UNCHANGED <<thread, run, setup, transcript, asked, crashes>>

\* The user moves on to another question.
GiveUp ==
    /\ waiting = None /\ asked # None
    /\ asked' = None
    /\ UNCHANGED <<thread, run, setup, transcript, waiting, crashes>>

------------------------------------------------------------------------------
(* The server.                                                             *)

\* Mutant: any answer is reused, whether or not the request brings anything new.
ReusableAlways(r, delta) == Of(Saved(r), "ai") # {}

\* The history is enough when the request adds nothing to it and it has an
\* answer with a text.
Reusable(r, delta) == delta = <<>> /\ Of(Saved(r), "ai") # {}

ReadState(r) ==
    LET delta == Delta(Saved(r), Normalized(run[r].incoming))
    IN  /\ run[r].st = "sent" /\ backend # "null"
        /\ run' = [run EXCEPT ![r] =
             IF Reusable(r, delta)
             THEN [@ EXCEPT !.st = "answered", !.reply = LastOf(Saved(r), "ai")]
             ELSE [@ EXCEPT !.st = "read", !.delta = delta]]
        /\ UNCHANGED <<thread, setup, clientVars, crashes>>

\* aget_state raises on a graph that was compiled without a checkpointer.
NoState(r) ==
    /\ run[r].st = "sent" /\ backend = "null"
    /\ run' = [run EXCEPT ![r].st = "failed"]
    /\ UNCHANGED <<thread, setup, clientVars, crashes>>

\* Mutant: a lock on the thread that a failed run does not release.
StartRunLocked(r) ==
    LET messages == Saved(r) \o run[r].delta
    IN  /\ run[r].st = "read"
        /\ \A s \in Requests : run[s].st \notin {"running", "failed"}
        /\ Save(r, messages)
        /\ run' = [run EXCEPT ![r].st = "running", ![r].messages = messages]
        /\ UNCHANGED <<setup, clientVars, crashes>>

\* Mutant: the new messages, if there are any, replace the saved ones.
StartRunReplaces(r) ==
    LET messages == IF run[r].delta = <<>> THEN Saved(r) ELSE run[r].delta
    IN  /\ run[r].st = "read"
        /\ Save(r, messages)
        /\ run' = [run EXCEPT ![r].st = "running", ![r].messages = messages]
        /\ UNCHANGED <<setup, clientVars, crashes>>

\* ainvoke loads the checkpoint and saves it with the new messages.
StartRun(r) ==
    LET messages == Saved(r) \o run[r].delta
    IN  /\ run[r].st = "read"
        /\ Save(r, messages)
        /\ run' = [run EXCEPT ![r].st = "running", ![r].messages = messages]
        /\ UNCHANGED <<setup, clientVars, crashes>>

\* Mutant: the answer replaces the new messages instead of following them.
AnswerOver(r) ==
    LET old == SubSeq(run[r].messages, 1, Len(run[r].messages) - Len(run[r].delta))
        answer == Ai(LastOf(run[r].messages, "user").about)
    IN  /\ run[r].st = "running"
        /\ Save(r, Append(old, answer))
        /\ run' = [run EXCEPT ![r].st = "answered", ![r].reply = answer]
        /\ UNCHANGED <<setup, clientVars, crashes>>

Answers(q) == {Ai(q)} \union (IF MayBeBlank THEN {Blank(q)} ELSE {})

\* The node answers the last user message of ITS copy and the graph saves that
\* copy with the answer.
Answer(r) ==
    /\ run[r].st = "running"
    /\ \E answer \in Answers(LastOf(run[r].messages, "user").about) :
         /\ Save(r, Append(run[r].messages, answer))
         /\ run' = [run EXCEPT ![r].st = "answered", ![r].reply = answer]
    /\ UNCHANGED <<setup, clientVars, crashes>>

\* The LLM call raises: the messages saved before the node stay.
Fail(r) ==
    /\ MayFail /\ run[r].st = "running"
    /\ run' = [run EXCEPT ![r].st = "failed"]
    /\ UNCHANGED <<thread, setup, clientVars, crashes>>

\* A worker dies with its runs, the responses it has not sent and its memory.
Crash(w) ==
    /\ crashes < MaxCrashes
    /\ crashes' = crashes + 1
    /\ thread' = [thread EXCEPT ![w] = <<>>]
    /\ run' = [r \in Requests |->
         IF run[r].at = w /\ (run[r].st \in {"sent", "read", "running"} \/ waiting = r)
         THEN [run[r] EXCEPT !.st = "failed"] ELSE run[r]]
    /\ UNCHANGED <<setup, clientVars>>

Serve(r) == ReadState(r) \/ NoState(r) \/ StartRun(r) \/ Answer(r) \/ Fail(r)

Client == (\E r \in Requests : Ask(r) \/ Retry(r))
          \/ Receive \/ ReceiveError \/ Abandon \/ GiveUp

Next ==
    \/ Client
    \/ \E r \in Requests : Serve(r)
    \/ \E w \in Workers : Crash(w)

Spec == Init /\ [][Next]_vars

\* Runs are never cancelled, and a client that got its response reads it.
FairSpec ==
    /\ Spec
    /\ WF_vars(Receive \/ ReceiveError)
    /\ \A r \in Requests : WF_vars(Serve(r))

------------------------------------------------------------------------------
(* Properties.                                                             *)

Message == [role : {"user", "ai", "blank"}, about : Question]

\* Type invariant of the stores, the runs and the client.
TypeOK ==
    /\ thread \in [Stores -> Seq(Message)] /\ transcript \in Seq(Message)
    /\ backend \in Backends /\ client \in [style : Styles, leaves : Leaving]
    /\ asked \in Question \union {None} /\ waiting \in Requests \union {None}
    /\ crashes \in 0..MaxCrashes
    /\ run \in [Requests ->
         [st : {"idle", "sent", "read", "running", "answered", "failed"},
          at : Workers \union {None},
          incoming : Seq(Message), delta : Seq(Message), messages : Seq(Message),
          reply : Message \union {None}]]

\* No request has failed so far and none was left under way.
Steady == ~client.leaves /\ \A r \in Requests : run[r].st # "failed"

\* Between two turns the server's history is the client's transcript, whether the
\* client resends it or not; one that resends it must not have met an answer
\* without a text, which the server drops from what it is sent.
HistoryAgrees ==
    Steady /\ asked = None /\ (client.style = "full" => Of(transcript, "blank") = {})
    => thread[Shared] = transcript

\* The answer a client gets is the answer to the question it asked, also when it
\* was read from the history.  docs/releases/v0.1.3.md: "Request replay is
\* handled safely".
ReplyAnswersQuestion ==
    waiting # None /\ run[waiting].st = "answered" => run[waiting].reply.about = asked

\* The same as long as nothing has failed.
SteadyReplies == Steady => ReplyAnswersQuestion

\* A question is in the history once, however often the client resends it.
\* docs/releases/v0.1.3.md: "if callers resend already persisted history, the
\* runtime avoids appending duplicate turns".
NoDuplicateTurn ==
    \A s \in Stores : \A i, j \in Of(thread[s], "user") :
        thread[s][i] = thread[s][j] => i = j

\* While runs do not overlap, a call of the LLM answers the question of the
\* request that made it, whatever failed runs left on the thread.
CallAnswersQuestion ==
    ~client.leaves =>
    \A r \in Requests :
        run[r].st = "answered" /\ run[r].messages # <<>>
        => run[r].reply.about = Last(run[r].incoming).about

\* A request goes on from every turn the client has seen, whichever worker gets
\* it.  README.md: "Reusing the same user-id + session-id pair under the same
\* workflow continues the chat".
ContinuesChat ==
    ~client.leaves /\ waiting # None /\ run[waiting].st = "running"
    => ToSet(transcript) \subseteq ToSet(run[waiting].messages)

\* What was saved in the shared store is never lost or rewritten, whatever fails:
\* while runs do not overlap it only grows at its end.
HistoryGrows ==
    [][~client.leaves => IsPrefix(thread[Shared], thread[Shared]')]_vars

\* The history is a conversation: with a client that waits, and sends only its
\* question, and workers that live, every saved message is a new question or the
\* answer to the question before it.
Promised == INSTANCE Conversation WITH history <- thread[Shared]

ImplementsConversation ==
    [][~client.leaves /\ client.style = "new" /\ crashes = 0
       => [Promised!Next]_(thread[Shared])]_vars

\* Every request is answered or fails, and the client learns it or has left.
EveryRequestEnds == \A r \in Requests : waiting = r ~> waiting # r
===============================================================================
