--------------------------- MODULE HitlReviewProofs ---------------------------
(***************************************************************************)
(* Proofs about HitlReview, for every number of requests, all questions    *)
(* and edits, and clients that wait or do not.                             *)
(***************************************************************************)
EXTENDS HitlReview, TLAPS

(***************************************************************************)
(* Type correctness.                                                       *)
(***************************************************************************)

Replies == [kind : {"tool_calls", "stop"}, text : Texts]

\* What a request carries and what its run has, where the run is.
RunInv ==
    \A r \in Requests :
        /\ run[r].st = "idle" => run[r].tool = None
        /\ run[r].st # "idle" => run[r].q \in Question
        /\ run[r].st \in {"generate_draft", "human_review"} => run[r].copy \in Checkpoint
        /\ run[r].st = "human_review" =>
             Resumes(r) /\ run[r].copy.draft \in Drafts
        /\ run[r].reply \in IF run[r].st = "answered" THEN Replies ELSE {None}

\* A review has a draft and an ended thread has a final text.
ThreadInv ==
    /\ thread.at = "human_review" => thread.draft \in Drafts
    /\ thread.at = "end" => thread.final \in Texts

\* What the client wants and reviews goes back to a question it asked.
ClientInv ==
    /\ want # Unasked => want.q \in Question
    /\ want.tool # None => seen # None
    /\ want # Unasked \/ seen # None => about \in Question
    /\ waiting # None => want # Unasked /\ run[waiting].st # "idle"

TypeInv == TypeOK /\ RunInv /\ ThreadInv /\ ClientInv

\* The values that stand for nothing are none of the others.
LEMMA Distinct ==
    /\ None \notin Requests /\ None \notin Question /\ None \notin Texts
    /\ None \notin Content
    /\ NoText \notin Texts /\ Edits \subseteq Texts /\ Drafts \subseteq Texts
    /\ \A d \in Drafts : d \notin Edits
  BY TextsAssumption DEF Texts

\* A review with a string is one of the strings, which are contents.
LEMMA StringsAreContent ==
    /\ Strings \subseteq Content
    /\ \A tool \in Content \union {None} : IsString(tool) <=> tool \in Strings
    /\ \A tool \in Strings : tool = Written(tool.text) /\ tool.text \in Edits \union {NoText}
  BY Distinct DEF Strings, Content, IsString, Written

\* A run resumes with a string, its own or an older one.
LEMMA PayloadIsString ==
    ASSUME NEW r \in Requests, TypeOK
    PROVE  Payload(r) \in Strings \union {None}
  BY StringsAreContent DEF Payload, TypeOK

\* The text that a request's last message has makes a draft for it.
LEMMA DraftIsDraft ==
    ASSUME NEW r \in Requests, TypeInv, run[r].st # "idle"
    PROVE  DraftOf(LastText(r), r) \in Drafts
<1>1. run[r].q \in Question /\ run[r].tool \in Content \union {None}
  BY DEF TypeInv, TypeOK, RunInv
<1>2. LastText(r) \in Question \union Edits
  BY <1>1 DEF LastText, Content
<1> QED
  BY <1>2 DEF DraftOf, Drafts

LEMMA TypeInit == Init => TypeInv
<1> SUFFICES ASSUME Init PROVE TypeInv
  OBVIOUS
<1>1. TypeOK
  BY FlagsAssumption DEF Init, TypeOK, Checkpoint, State, Idle, Request, Unasked
<1>2. RunInv /\ ThreadInv /\ ClientInv
  BY DEF Init, RunInv, ThreadInv, ClientInv, State, Idle, Request, Unasked
<1> QED
  BY <1>1, <1>2 DEF TypeInv

\* A request is sent.
LEMMA SubmitKeepsType ==
    ASSUME TypeInv, NEW r \in Requests, NEW q \in Question,
           NEW tool \in Content \union {None},
           Submit(r, q, tool), tool # None => seen' # None,
           seen' \in Texts \union {None}
    PROVE  TypeInv'
<1> USE Distinct
<1> DEFINE t == IF Resends THEN old ELSE None
<1>1. /\ run[r].st = "idle" /\ run' = [run EXCEPT ![r] = Request("sent", q, tool, t)]
      /\ want' = [q |-> q, tool |-> tool] /\ about' = q /\ waiting' = r
      /\ UNCHANGED <<thread, leaves, old>>
  BY DEF Submit
<1>2. t \in Strings \union {None}
  BY DEF TypeInv, TypeOK
<1> HIDE DEF t
<1> DEFINE n == Request("sent", q, tool, t)
<1>3. n = [st |-> "sent", q |-> q, tool |-> tool, older |-> t, copy |-> None,
           reply |-> None]
  BY DEF Request
<1> HIDE DEF n
<1>4. \A s \in Requests : run'[s] = IF s = r THEN n ELSE run[s]
  BY <1>1 DEF n, TypeInv, TypeOK
<1>5. TypeOK'
  BY <1>1, <1>2, <1>3 DEF n, TypeInv, TypeOK
<1>6. RunInv'
  BY <1>3, <1>4 DEF TypeInv, RunInv, Resumes, Payload
<1>7. ThreadInv'
  BY <1>1 DEF TypeInv, ThreadInv
<1>8. ClientInv'
  BY <1>1, <1>3, <1>4 DEF TypeInv, ClientInv, Unasked
<1> QED
  BY <1>5, <1>6, <1>7, <1>8 DEF TypeInv

\* What the server does for a request, whatever it is, leaves the other runs alone.
LEMMA Advanced ==
    ASSUME TypeInv, NEW r \in Requests, NEW st, NEW copy, NEW reply,
           Advance(r, st, copy, reply)
    PROVE  /\ run' = [s \in Requests |->
                 IF s = r THEN [st |-> st, q |-> run[r].q, tool |-> run[r].tool,
                                older |-> run[r].older, copy |-> copy, reply |-> reply]
                          ELSE run[s]]
           /\ \A s \in Requests : /\ run'[s].q = run[s].q /\ run'[s].tool = run[s].tool
                                  /\ run'[s].older = run[s].older
                                  /\ Resumes(s)' = Resumes(s)
           /\ run'[r].st = st /\ run'[r].copy = copy /\ run'[r].reply = reply
           /\ \A s \in Requests : s # r => run'[s] = run[s]
  BY DEF TypeInv, TypeOK, Advance, Resumes, Payload

\* The states a run can get into keep the types.
LEMMA AdvanceKeepsType ==
    ASSUME TypeInv, NEW r \in Requests, run[r].st # "idle",
           NEW st \in {"generate_draft", "human_review", "answered", "failed"},
           NEW copy \in Checkpoint \union {None},
           NEW reply \in IF st = "answered" THEN Replies ELSE {None},
           Advance(r, st, copy, reply),
           st \in {"generate_draft", "human_review"} => copy \in Checkpoint,
           st = "human_review" => Resumes(r) /\ copy.draft \in Drafts,
           thread' \in Checkpoint, ThreadInv', UNCHANGED clientVars
    PROVE  TypeInv'
<1>1. TypeOK'
  BY Advanced DEF TypeInv, TypeOK, Replies, clientVars
<1>2. RunInv'
  BY Advanced DEF TypeInv, TypeOK, RunInv
<1>3. ClientInv'
  BY Advanced DEF TypeInv, TypeOK, ClientInv, clientVars
<1> QED
  BY <1>1, <1>2, <1>3 DEF TypeInv

LEMMA BeginKeepsType ==
    ASSUME TypeInv, NEW r \in Requests, NEW node \in {"generate_draft", "human_review"},
           run[r].st = "sent", Begin(r, node),
           node = "human_review" => thread.at = node /\ Resumes(r)
    PROVE  TypeInv'
<1>1. /\ thread' = State(node, thread.draft, thread.final)
      /\ Advance(r, node, thread', None) /\ UNCHANGED clientVars
  BY DEF Begin
<1>2. thread' \in Checkpoint /\ ThreadInv'
  <2>1. /\ thread' = [at |-> node, draft |-> thread.draft, final |-> thread.final]
        /\ thread \in Checkpoint
    BY <1>1 DEF State, TypeInv, TypeOK
  <2>2. thread' \in Checkpoint /\ thread'.at = node /\ thread'.draft = thread.draft
    BY <2>1 DEF Checkpoint
  <2>3. ThreadInv'
    BY <2>2 DEF TypeInv, ThreadInv
  <2> QED
    BY <2>1, <2>2, <2>3
<1>3. node = "human_review" => Resumes(r) /\ thread'.draft \in Drafts
  BY <1>1 DEF State, TypeInv, ThreadInv
<1> QED
  BY <1>1, <1>2, <1>3, AdvanceKeepsType

LEMMA ServeKeepsType ==
    ASSUME TypeInv, NEW r \in Requests,
           \/ Start(r) \/ Resume(r) \/ ResumeEnded(r) \/ Generate(r) \/ Fail(r) \/ Finish(r)
    PROVE  TypeInv'
<1> USE Distinct
<1>1. CASE Start(r)
  BY <1>1, BeginKeepsType DEF Start
<1>2. CASE Resume(r)
  BY <1>2, BeginKeepsType DEF Resume
<1>3. CASE ResumeEnded(r)
  <2>1. /\ Advance(r, "answered", run[r].copy, Reply("stop", thread.final))
        /\ run[r].st # "idle" /\ thread' = thread /\ UNCHANGED clientVars
        /\ thread.final \in Texts
    BY <1>3 DEF ResumeEnded, TypeInv, ThreadInv
  <2>2. run[r].copy \in Checkpoint \union {None} /\ thread' \in Checkpoint /\ ThreadInv'
    BY <2>1 DEF TypeInv, TypeOK, ThreadInv
  <2>3. Reply("stop", thread.final) \in Replies
    BY <2>1 DEF Reply, Replies
  <2> QED
    BY <2>1, <2>2, <2>3, AdvanceKeepsType
<1>4. CASE Generate(r)
  <2> DEFINE draft == DraftOf(LastText(r), r)
  <2>1. /\ thread' = State("human_review", draft, run[r].copy.final)
        /\ Advance(r, "answered", run[r].copy, Reply("tool_calls", draft))
        /\ run[r].st = "generate_draft" /\ UNCHANGED clientVars
    BY <1>4 DEF Generate
  <2>2. draft \in Drafts
    BY <2>1, DraftIsDraft
  <2>3. run[r].copy \in Checkpoint
    BY <2>1 DEF TypeInv, TypeOK, RunInv
  <2> HIDE DEF draft
  <2>4. thread' \in Checkpoint /\ ThreadInv'
    BY <2>1, <2>2, <2>3 DEF State, Checkpoint, ThreadInv
  <2>5. Reply("tool_calls", draft) \in Replies
    BY <2>2 DEF Reply, Replies
  <2> QED
    BY <2>1, <2>3, <2>4, <2>5, AdvanceKeepsType
<1>5. CASE Fail(r)
  <2>1. /\ Advance(r, "failed", run[r].copy, None)
        /\ run[r].st # "idle" /\ thread' = thread /\ UNCHANGED clientVars
    BY <1>5 DEF Fail
  <2>2. run[r].copy \in Checkpoint \union {None} /\ thread' \in Checkpoint /\ ThreadInv'
    BY <2>1 DEF TypeInv, TypeOK, ThreadInv
  <2> QED
    BY <2>1, <2>2, AdvanceKeepsType
<1>6. CASE Finish(r)
  <2>1. /\ thread' = State("end", run[r].copy.draft, Final(r))
        /\ Advance(r, "answered", run[r].copy, Reply("stop", Final(r)))
        /\ run[r].st = "human_review" /\ UNCHANGED clientVars
    BY <1>6 DEF Finish
  <2>2. run[r].copy \in Checkpoint /\ run[r].copy.draft \in Texts
    BY <2>1 DEF TypeInv, TypeOK, RunInv
  <2>5. Final(r) \in Texts
    BY <2>2, PayloadIsString, StringsAreContent DEF TypeInv, Final
  <2>3. thread' \in Checkpoint /\ ThreadInv'
    BY <2>1, <2>2, <2>5 DEF State, Checkpoint, ThreadInv
  <2>4. Reply("stop", Final(r)) \in Replies
    BY <2>5 DEF Reply, Replies
  <2> QED
    BY <2>1, <2>2, <2>3, <2>4, AdvanceKeepsType
<1> QED
  BY <1>1, <1>2, <1>3, <1>4, <1>5, <1>6

LEMMA ClientKeepsType ==
    ASSUME TypeInv,
           \/ \E r \in Requests : Ask(r) \/ Review(r) \/ Retry(r)
           \/ Receive \/ ReceiveError \/ Lose
    PROVE  TypeInv'
<1> USE Distinct
<1>1. ASSUME NEW r \in Requests, Ask(r) PROVE TypeInv'
  BY <1>1, SubmitKeepsType DEF Ask
<1>2. ASSUME NEW r \in Requests, Review(r) PROVE TypeInv'
  <2>1. seen \in Texts \union {None} /\ about \in Question
    BY <1>2 DEF Review, TypeInv, TypeOK, ClientInv
  <2> QED
    BY <1>2, <2>1, SubmitKeepsType DEF Review
<1>3. ASSUME NEW r \in Requests, Retry(r) PROVE TypeInv'
  <2>1. /\ want.q \in Question /\ want.tool \in Content \union {None}
        /\ want.tool # None => seen # None /\ seen \in Texts \union {None}
    BY <1>3 DEF Retry, TypeInv, TypeOK, ClientInv
  <2> QED
    BY <1>3, <2>1, SubmitKeepsType DEF Retry, TypeInv, TypeOK
<1>4. CASE Receive
  <2>1. /\ waiting \in Requests /\ run[waiting].st = "answered" /\ want # Unasked
        /\ seen' = IF run[waiting].reply.kind = "tool_calls"
                   THEN run[waiting].reply.text ELSE None
        /\ old' = IF IsString(want.tool) THEN want.tool ELSE old
        /\ want' = Unasked /\ waiting' = None
        /\ UNCHANGED <<thread, run, leaves, about>>
    BY <1>4 DEF Receive, TypeInv, TypeOK, ClientInv
  <2>2. run[waiting].reply.text \in Texts
    BY <2>1 DEF TypeInv, TypeOK, RunInv, Replies
  <2>3. TypeOK'
    BY <2>1, <2>2, StringsAreContent DEF TypeInv, TypeOK, Unasked
  <2>4. RunInv' /\ ThreadInv'
    BY <2>1 DEF TypeInv, RunInv, ThreadInv, Resumes, Payload
  <2>5. ClientInv'
    BY <2>1 DEF TypeInv, ClientInv, Unasked
  <2> QED
    BY <2>3, <2>4, <2>5 DEF TypeInv
<1>5. CASE ReceiveError \/ Lose
  BY <1>5 DEF ReceiveError, Lose, TypeInv, TypeOK, RunInv, ThreadInv, ClientInv,
              Resumes, Payload
<1> QED
  BY <1>1, <1>2, <1>3, <1>4, <1>5

LEMMA TypeNext == TypeInv /\ [Next]_vars => TypeInv'
<1> SUFFICES ASSUME TypeInv, [Next]_vars PROVE TypeInv'
  OBVIOUS
<1>1. CASE UNCHANGED vars
  BY <1>1 DEF vars, clientVars, TypeInv, TypeOK, RunInv, ThreadInv, ClientInv,
              Resumes, Payload
<1>2. CASE Next
  BY <1>2, ServeKeepsType, ClientKeepsType DEF Next
<1> QED
  BY <1>1, <1>2

\* Every reachable state is well typed, and a run at a node, an answer and a
\* thread have what their state says.
THEOREM TypeCorrect == Spec => []TypeInv
  BY TypeInit, TypeNext, PTL DEF Spec

\* The type invariant that TLC checks.
THEOREM TypeOKCorrect == Spec => []TypeOK
<1>1. TypeInv => TypeOK
  BY DEF TypeInv
<1> QED
  BY <1>1, TypeCorrect, PTL

(***************************************************************************)
(* Nothing becomes final that was not reviewed.                            *)
(***************************************************************************)

\* Also the copy that a run will save has no final text that was not reviewed, and
\* what the transcript holds of earlier reviews was sent.
ReviewedInv ==
    /\ want.tool # None => want.tool \in Tools
    /\ old # None => old \in Tools
    /\ \A r \in Requests : run[r].older # None => run[r].older \in Tools
    /\ thread.final # None => Reviewed(thread.final)
    /\ \A r \in Requests :
         /\ run[r].st \in {"generate_draft", "human_review"} =>
              (run[r].copy.final # None => Reviewed(run[r].copy.final))
         /\ run[r].st = "answered" =>
              (run[r].reply.kind = "stop" => Reviewed(run[r].reply.text))

LEMMA ReviewedInit == Init => ReviewedInv
  BY DEF Init, State, ReviewedInv, Idle, Request, Unasked

\* No request loses its tool message.
LEMMA ToolsStay ==
    ASSUME TypeInv, [Next]_vars
    PROVE  Tools \subseteq Tools'
<1> SUFFICES \A r \in Requests : run[r].tool # None => run'[r].tool = run[r].tool
  BY DEF Tools
<1>1. CASE UNCHANGED vars
  BY <1>1 DEF vars
<1>2. ASSUME NEW r \in Requests, NEW q, NEW tool, Submit(r, q, tool)
      PROVE  \A s \in Requests : run[s].tool # None => run'[s].tool = run[s].tool
  BY <1>2 DEF Submit, TypeInv, TypeOK, RunInv
<1>3. ASSUME NEW r \in Requests, NEW st, NEW copy, NEW reply, Advance(r, st, copy, reply)
      PROVE  \A s \in Requests : run[s].tool # None => run'[s].tool = run[s].tool
  BY <1>3, Advanced
<1>4. CASE Receive \/ ReceiveError \/ Lose
  BY <1>4 DEF Receive, ReceiveError, Lose
<1>5. CASE \E r \in Requests : Ask(r) \/ Review(r) \/ Retry(r)
  BY <1>5, <1>2 DEF Ask, Review, Retry
<1>6. CASE \E r \in Requests : Start(r) \/ Resume(r) \/ ResumeEnded(r) \/ Generate(r)
                                 \/ Fail(r) \/ Finish(r)
  BY <1>6, <1>3 DEF Start, Resume, ResumeEnded, Generate, Fail, Finish, Begin
<1> QED
  BY <1>1, <1>4, <1>5, <1>6 DEF Next

LEMMA ReviewedNext == TypeInv /\ ReviewedInv /\ [Next]_vars => ReviewedInv'
<1> SUFFICES ASSUME TypeInv, ReviewedInv, [Next]_vars PROVE ReviewedInv'
  OBVIOUS
<1>a. Tools \subseteq Tools'
  BY ToolsStay
<1>b. \A r \in Requests : run[r].st = "answered" => run[r].reply.text # None
  BY Distinct DEF TypeInv, RunInv, Replies
<1> USE <1>a, <1>b, Distinct
<1>1. CASE UNCHANGED vars
  BY <1>1 DEF vars, clientVars, ReviewedInv, Reviewed, Tools
<1>2. ASSUME NEW r \in Requests, NEW q, NEW tool, Submit(r, q, tool)
      PROVE  ReviewedInv'
  <2> DEFINE t == IF Resends THEN old ELSE None
  <2>3. /\ thread' = thread /\ old' = old /\ want' = [q |-> q, tool |-> tool]
        /\ run' = [run EXCEPT ![r] = Request("sent", q, tool, t)]
    BY <1>2 DEF Submit
  <2>4. t \in {old, None}
    OBVIOUS
  <2> HIDE DEF t
  <2>1. /\ want'.tool = tool /\ run'[r].tool = tool /\ run'[r].older = t
        /\ run'[r].st = "sent" /\ \A s \in Requests : s # r => run'[s] = run[s]
    BY <2>3 DEF TypeInv, TypeOK, Request
  <2>2. tool # None => tool \in Tools'
    BY <2>1 DEF Tools
  <2> QED
    BY <2>1, <2>2, <2>3, <2>4 DEF ReviewedInv, Reviewed
<1>3. CASE Receive \/ ReceiveError \/ Lose
  BY <1>3 DEF Receive, ReceiveError, Lose, ReviewedInv, Reviewed, Tools, Unasked, IsString
<1>4. ASSUME NEW r \in Requests, NEW node \in {"generate_draft", "human_review"},
             Begin(r, node)
      PROVE  ReviewedInv'
  <2>1. /\ thread'.final = thread.final
        /\ run'[r].st = node /\ run'[r].copy = thread'
        /\ \A s \in Requests : s # r => run'[s] = run[s]
        /\ UNCHANGED <<want, old>> /\ run'[r].older = run[r].older
    BY <1>4, Advanced DEF Begin, State, clientVars
  <2> QED
    BY <2>1 DEF ReviewedInv, Reviewed
<1>5. ASSUME NEW r \in Requests, ResumeEnded(r)
      PROVE  ReviewedInv'
  <2>1. /\ thread' = thread /\ thread.final # None
        /\ run'[r].st = "answered" /\ run'[r].reply.text = thread.final
        /\ \A s \in Requests : s # r => run'[s] = run[s]
        /\ UNCHANGED <<want, old>> /\ run'[r].older = run[r].older
    BY <1>5, Advanced, Distinct DEF ResumeEnded, Reply, TypeInv, ThreadInv, clientVars
  <2> QED
    BY <2>1 DEF ReviewedInv, Reviewed
<1>6. ASSUME NEW r \in Requests, Generate(r)
      PROVE  ReviewedInv'
  <2>1. /\ thread'.final = run[r].copy.final /\ run[r].st = "generate_draft"
        /\ run'[r].st = "answered" /\ run'[r].reply.kind = "tool_calls"
        /\ \A s \in Requests : s # r => run'[s] = run[s]
        /\ UNCHANGED <<want, old>> /\ run'[r].older = run[r].older
    BY <1>6, Advanced DEF Generate, Reply, State, clientVars
  <2> QED
    BY <2>1 DEF ReviewedInv, Reviewed
<1>7. ASSUME NEW r \in Requests, Fail(r)
      PROVE  ReviewedInv'
  <2>1. /\ thread' = thread /\ run'[r].st = "failed"
        /\ \A s \in Requests : s # r => run'[s] = run[s]
        /\ UNCHANGED <<want, old>> /\ run'[r].older = run[r].older
    BY <1>7, Advanced DEF Fail, clientVars
  <2> QED
    BY <2>1 DEF ReviewedInv, Reviewed
<1>8. ASSUME NEW r \in Requests, Finish(r)
      PROVE  ReviewedInv'
  <2>1. /\ thread'.final = Final(r) /\ run[r].st = "human_review"
        /\ run'[r].st = "answered" /\ run'[r].reply.text = Final(r)
        /\ \A s \in Requests : s # r => run'[s] = run[s]
        /\ UNCHANGED <<want, old>> /\ run'[r].older = run[r].older
    BY <1>8, Advanced DEF Finish, Reply, State, clientVars
  <2>2. Payload(r) # None /\ run[r].copy.draft \notin Edits
    BY <2>1, Distinct DEF TypeInv, RunInv, Resumes
  <2>3. Payload(r) \in Tools'
    BY <2>2 DEF Tools, Payload, ReviewedInv
  <2>5. Payload(r) = Written(Payload(r).text)
    BY <2>2, PayloadIsString, StringsAreContent DEF TypeInv
  <2>4. \/ Written(Final(r)) \in Tools'
        \/ Written(NoText) \in Tools' /\ Final(r) \notin Edits
    BY <2>2, <2>3, <2>5 DEF Final
  <2> QED
    BY <2>1, <2>4 DEF ReviewedInv, Reviewed
<1>9. CASE Next
  <2>1. CASE \E r \in Requests : Ask(r) \/ Review(r) \/ Retry(r)
    BY <2>1, <1>2 DEF Ask, Review, Retry
  <2>2. CASE \E r \in Requests : Start(r) \/ Resume(r)
    BY <2>2, <1>4 DEF Start, Resume
  <2> QED
    BY <1>3, <1>5, <1>6, <1>7, <1>8, <1>9, <2>1, <2>2 DEF Next
<1> QED
  BY <1>1, <1>9

\* However the client's requests overlap, are lost or are sent again, the thread
\* and the answers show no final text but what some review has written or
\* approved.
THEOREM NothingUnreviewedCorrect == Spec => []NothingUnreviewed
<1>1. TypeInv /\ ReviewedInv => NothingUnreviewed
  BY DEF TypeInv, TypeOK, RunInv, ReviewedInv, NothingUnreviewed
<1>2. Spec => []ReviewedInv
  BY ReviewedInit, ReviewedNext, TypeCorrect, PTL DEF Spec
<1> QED
  BY <1>1, <1>2, TypeCorrect, PTL

(***************************************************************************)
(* Questions and reviews are told apart: what a client that does not       *)
(* resend its transcript gets.                                             *)
(***************************************************************************)

\* The request the client waits for is the one for what it wants, no request brings
\* an older review along, and one without a review of its own is answered with a
\* draft for its last text.
AskInv ==
    /\ waiting # None => run[waiting].q = want.q /\ run[waiting].tool = want.tool
    /\ \A r \in Requests :
         /\ run[r].older = None
         /\ run[r].st = "answered" /\ ~Resumes(r) =>
              run[r].reply = Reply("tool_calls", DraftOf(LastText(r), r))

\* Then a run resumes only with its own string.
LEMMA OwnPayload ==
    ASSUME AskInv, NEW r \in Requests
    PROVE  /\ Resumes(r) <=> IsString(run[r].tool)
           /\ Resumes(r) => Payload(r) = run[r].tool
  BY DEF AskInv, Resumes, Payload, IsString

LEMMA AskInit == Init => AskInv
  BY DEF Init, AskInv, Idle, Request

LEMMA AskNext ==
    ASSUME ~Resends, TypeInv, AskInv, [Next]_vars
    PROVE  AskInv'
<1>1. CASE UNCHANGED vars
  BY <1>1 DEF vars, clientVars, AskInv, Resumes, Payload, LastText
<1>2. ASSUME NEW r \in Requests, NEW q, NEW tool, Submit(r, q, tool)
      PROVE  AskInv'
  <2>1. run' = [run EXCEPT ![r] = Request("sent", q, tool, None)] /\ waiting' = r
        /\ want' = [q |-> q, tool |-> tool]
    BY <1>2 DEF Submit
  <2>2. /\ run'[r] = [st |-> "sent", q |-> q, tool |-> tool, older |-> None,
                      copy |-> None, reply |-> None]
        /\ \A s \in Requests : s # r => run'[s] = run[s]
    BY <2>1 DEF Request, TypeInv, TypeOK
  <2> QED
    BY <2>1, <2>2 DEF AskInv, Resumes, Payload, LastText
<1>3. CASE Receive \/ ReceiveError \/ Lose
  BY <1>3 DEF Receive, ReceiveError, Lose, AskInv, Resumes, Payload, LastText
<1>4. ASSUME NEW r \in Requests, NEW st, NEW copy, NEW reply,
             Advance(r, st, copy, reply), UNCHANGED clientVars,
             st = "answered" /\ ~Resumes(r) =>
                 reply = Reply("tool_calls", DraftOf(LastText(r), r))
      PROVE  AskInv'
  <2>1. \A s \in Requests : LastText(s)' = LastText(s)
    BY <1>4, Advanced DEF LastText
  <2> QED
    BY <1>4, <2>1, Advanced DEF AskInv, clientVars, TypeInv, TypeOK
<1>5. ASSUME NEW r \in Requests, Generate(r)
      PROVE  AskInv'
  BY <1>4, <1>5 DEF Generate
<1>6. ASSUME NEW r \in Requests, ResumeEnded(r) \/ Finish(r)
      PROVE  AskInv'
  <2>1. Resumes(r)
    BY <1>6 DEF ResumeEnded, Finish, TypeInv, RunInv
  <2> QED
    BY <1>4, <1>6, <2>1 DEF ResumeEnded, Finish
<1>7. ASSUME NEW r \in Requests, Start(r) \/ Resume(r) \/ Fail(r)
      PROVE  AskInv'
  <2>1. ASSUME NEW node \in {"generate_draft", "human_review"}, Begin(r, node)
        PROVE  AskInv'
    BY <2>1, <1>4 DEF Begin
  <2>2. CASE Start(r) \/ Resume(r)
    BY <2>1, <2>2 DEF Start, Resume
  <2>3. CASE Fail(r)
    BY <1>4, <2>3 DEF Fail
  <2> QED
    BY <1>7, <2>2, <2>3
<1>8. ASSUME NEW r \in Requests, Ask(r) \/ Review(r) \/ Retry(r)
      PROVE  AskInv'
  BY <1>8, <1>2 DEF Ask, Review, Retry
<1> QED
  BY <1>1, <1>3, <1>5, <1>6, <1>7, <1>8 DEF Next

\* Whatever overlaps, a client that sends only its question and its review gets a
\* draft for its question.
THEOREM QuestionGetsDraftCorrect ==
    ASSUME ~Resends
    PROVE  Spec => []QuestionGetsDraft
<1>1. TypeInv /\ AskInv => QuestionGetsDraft
  <2> SUFFICES ASSUME TypeInv, AskInv, Answered, want.tool = None
               PROVE  /\ run[waiting].reply.kind = "tool_calls"
                      /\ run[waiting].reply.text.for = want.q
    BY DEF QuestionGetsDraft
  <2>1. waiting \in Requests /\ run[waiting].st = "answered"
    BY DEF Answered, TypeInv, TypeOK
  <2>2. run[waiting].reply = Reply("tool_calls", DraftOf(want.q, waiting))
    BY <2>1, OwnPayload DEF Answered, AskInv, IsString, LastText
  <2> QED
    BY <2>2 DEF Reply, DraftOf
<1>2. TypeInv /\ AskInv /\ [Next]_vars => AskInv'
  BY AskNext
<1>3. Spec => []AskInv
  BY <1>2, AskInit, TypeCorrect, PTL DEF Spec
<1> QED
  BY <1>1, <1>3, TypeCorrect, PTL

(***************************************************************************)
(* A client that waits reviews the draft it sees.                          *)
(***************************************************************************)

UnderWay(r) == run[r].st \in {"sent", "generate_draft", "human_review"}

\* What a review makes the final text.
Decided == IF want.tool.text = NoText THEN seen ELSE want.tool.text

AtReview == thread.at = "human_review" /\ thread.draft = seen
AtEnd    == thread.at = "end" /\ thread.final = Decided

\* The thread has the draft that the client sees until the review it decides on
\* has taken effect, and after that what it decided, however often it is sent.
ReviewInv ==
    /\ \A r \in Requests : UnderWay(r) => waiting = r
    /\ want = Unasked /\ seen # None => AtReview
    /\ IsString(want.tool) => AtReview \/ AtEnd
    /\ waiting # None /\ IsString(want.tool) =>
         /\ run[waiting].st \in {"sent", "human_review", "answered"}
         /\ run[waiting].st = "human_review" =>
              AtReview /\ run[waiting].copy.draft = seen
         /\ run[waiting].st = "answered" =>
              AtEnd /\ run[waiting].reply = Reply("stop", Decided)
    /\ waiting # None /\ ~IsString(want.tool) /\ run[waiting].st = "answered" =>
         /\ run[waiting].reply.kind = "tool_calls"
         /\ thread.at = "human_review" /\ thread.draft = run[waiting].reply.text

LEMMA ReviewInit == Init => ReviewInv
  BY DEF Init, ReviewInv, UnderWay, Idle, Request, Unasked, IsString

LEMMA SubmitKeepsReview ==
    ASSUME TypeInv, ReviewInv, ~Resends, NEW r \in Requests,
           Ask(r) \/ Review(r) \/ Retry(r)
    PROVE  ReviewInv'
<1> USE Distinct
<1>1. ASSUME NEW q \in Question, NEW tool \in Content \union {None},
             Submit(r, q, tool), IsString(tool) => (AtReview \/ AtEnd)',
             tool # None => seen' # None
      PROVE  ReviewInv'
  <2>1. /\ waiting = None /\ waiting' = r /\ want' = [q |-> q, tool |-> tool]
        /\ run' = [run EXCEPT ![r] = Request("sent", q, tool, None)]
    BY <1>1 DEF Submit
  <2>2. run'[r].st = "sent" /\ \A s \in Requests : s # r => run'[s] = run[s]
    BY <2>1 DEF Request, TypeInv, TypeOK
  <2>3. want' # Unasked
    BY <2>1 DEF Unasked
  <2>4. \A s \in Requests : UnderWay(s)' => waiting' = s
    BY <2>1, <2>2 DEF ReviewInv, UnderWay
  <2> QED
    BY <1>1, <2>1, <2>2, <2>3, <2>4 DEF ReviewInv, IsString
<1>2. CASE Ask(r)
  BY <1>1, <1>2 DEF Ask, IsString
<1>3. CASE Review(r)
  <2>1. AtReview /\ about \in Question /\ seen' = seen
    BY <1>3 DEF Review, ReviewInv, TypeInv, ClientInv
  <2>2. PICK tool \in Content : Submit(r, about, tool)
    BY <1>3 DEF Review
  <2>3. AtReview' /\ seen' # None
    BY <1>3, <2>1, <2>2 DEF AtReview, Submit, Review
  <2> QED
    BY <1>1, <2>1, <2>2, <2>3
<1>4. CASE Retry(r)
  <2>1. /\ want.q \in Question /\ want.tool \in Content \union {None}
        /\ want.tool # None => seen # None
        /\ Submit(r, want.q, want.tool) /\ seen' = seen
    BY <1>4 DEF Retry, TypeInv, TypeOK, ClientInv
  <2>2. thread' = thread /\ want' = [q |-> want.q, tool |-> want.tool]
    BY <2>1 DEF Submit
  <2>3. IsString(want.tool) => (AtReview \/ AtEnd)'
    BY <2>1, <2>2 DEF ReviewInv, AtReview, AtEnd, Decided
  <2> QED
    BY <1>1, <2>1, <2>3
<1> QED
  BY <1>2, <1>3, <1>4

LEMMA ReceiveKeepsReview ==
    ASSUME TypeInv, ReviewInv, ~leaves, Receive \/ ReceiveError \/ Lose
    PROVE  ReviewInv'
<1> USE Distinct
<1>1. /\ waiting \in Requests /\ run[waiting].st \in {"answered", "failed"}
      /\ waiting' = None /\ thread' = thread /\ run' = run
      /\ want # Unasked /\ want.q \in Question
  BY DEF Receive, ReceiveError, Lose, TypeInv, TypeOK, ClientInv
<1>2. \A r \in Requests : ~UnderWay(r)
  BY <1>1 DEF ReviewInv, UnderWay
<1>3. CASE Receive
  <2>1. /\ want' = Unasked /\ run[waiting].st = "answered"
        /\ seen' = IF run[waiting].reply.kind = "tool_calls"
                   THEN run[waiting].reply.text ELSE None
    BY <1>3 DEF Receive
  <2>2. seen' # None => AtReview'
    <3>1. CASE ~IsString(want.tool)
      BY <1>1, <2>1, <3>1 DEF ReviewInv, AtReview
    <3>2. CASE IsString(want.tool)
      BY <1>1, <2>1, <3>2 DEF ReviewInv, Reply
    <3> QED
      BY <3>1, <3>2
  <2> QED
    BY <1>1, <1>2, <2>1, <2>2 DEF ReviewInv, UnderWay, Unasked, IsString
<1>4. CASE ReceiveError \/ Lose
  <2>1. want' = want /\ seen' = seen
    BY <1>4 DEF ReceiveError, Lose
  <2> QED
    BY <1>1, <1>2, <2>1 DEF ReviewInv, UnderWay, AtReview, AtEnd, Decided
<1> QED
  BY <1>3, <1>4

LEMMA ServeKeepsReview ==
    ASSUME TypeInv, AskInv, ReviewInv, NEW r \in Requests,
           \/ Start(r) \/ Resume(r) \/ ResumeEnded(r) \/ Generate(r) \/ Fail(r) \/ Finish(r)
    PROVE  ReviewInv'
<1> USE Distinct
<1>1. UnderWay(r)
  BY DEF UnderWay, Start, Resume, ResumeEnded, Generate, Fail, Finish
<1>2. waiting = r /\ want # Unasked /\ run[r].tool = want.tool
  BY <1>1 DEF ReviewInv, AskInv, TypeInv, ClientInv
<1>a. /\ Resumes(r) <=> IsString(want.tool)
      /\ Resumes(r) => Payload(r) = want.tool
  BY <1>2, OwnPayload
<1>3. ASSUME NEW st, NEW copy, NEW reply, Advance(r, st, copy, reply),
             UNCHANGED clientVars,
             IsString(want.tool) =>
                /\ st \in {"sent", "human_review", "answered"}
                /\ (AtReview \/ AtEnd)'
                /\ st = "human_review" => AtReview' /\ copy.draft = seen
                /\ st = "answered" => AtEnd' /\ reply = Reply("stop", Decided),
             ~IsString(want.tool) /\ st = "answered" =>
                /\ reply.kind = "tool_calls"
                /\ thread'.at = "human_review" /\ thread'.draft = reply.text
      PROVE  ReviewInv'
  <2>1. /\ waiting' = r /\ want' = want /\ seen' = seen /\ Decided' = Decided
        /\ run'[r].st = st /\ run'[r].copy = copy /\ run'[r].reply = reply
        /\ \A s \in Requests : s # r => run'[s] = run[s]
    BY <1>2, <1>3, Advanced DEF clientVars, Decided
  <2>2. \A s \in Requests : UnderWay(s)' => waiting' = s
    BY <1>2, <2>1 DEF ReviewInv, UnderWay
  <2> QED
    BY <1>2, <1>3, <2>1, <2>2 DEF ReviewInv
<1>4. CASE Start(r)
  <2>1. ~IsString(want.tool)
    BY <1>a, <1>4 DEF Start
  <2> QED
    BY <1>3, <1>4, <2>1 DEF Start, Begin
<1>5. CASE Resume(r)
  <2>1. IsString(want.tool) /\ run[r].st = "sent" /\ thread.at # "end"
    BY <1>a, <1>5 DEF Resume
  <2>2. AtReview
    BY <2>1 DEF ReviewInv, AtEnd
  <2>3. /\ thread' = State("human_review", thread.draft, thread.final)
        /\ Advance(r, "human_review", thread', None) /\ UNCHANGED clientVars
    BY <1>5, <2>2 DEF Resume, Begin, AtReview
  <2>4. AtReview' /\ thread'.draft = seen
    BY <2>2, <2>3 DEF AtReview, State, clientVars
  <2> QED
    BY <1>3, <2>1, <2>3, <2>4
<1>6. CASE ResumeEnded(r)
  <2>1. IsString(want.tool) /\ thread.at = "end"
    BY <1>a, <1>6 DEF ResumeEnded
  <2>2. AtEnd
    BY <2>1 DEF ReviewInv, AtReview
  <2>3. AtEnd' /\ thread.final = Decided
    BY <1>6, <2>2 DEF ResumeEnded, AtEnd, Decided, clientVars
  <2> QED
    BY <1>3, <1>6, <2>1, <2>3 DEF ResumeEnded
<1>7. CASE Generate(r)
  <2>1. ~IsString(want.tool)
    BY <1>2, <1>7 DEF Generate, ReviewInv
  <2> QED
    BY <1>3, <1>7, <2>1 DEF Generate, State, Reply
<1>8. CASE Fail(r)
  <2>1. ~IsString(want.tool)
    BY <1>2, <1>8 DEF Fail, ReviewInv
  <2> QED
    BY <1>3, <1>8, <2>1 DEF Fail
<1>9. CASE Finish(r)
  <2>1. IsString(want.tool) /\ run[r].copy.draft = seen
    BY <1>2, <1>a, <1>9 DEF Finish, ReviewInv, TypeInv, RunInv
  <2>2. Final(r) = Decided
    BY <1>a, <2>1 DEF Final, Decided, IsString
  <2>3. /\ thread' = State("end", run[r].copy.draft, Decided)
        /\ Advance(r, "answered", run[r].copy, Reply("stop", Decided))
        /\ UNCHANGED clientVars
    BY <1>9, <2>2 DEF Finish
  <2>4. AtEnd'
    BY <2>3 DEF AtEnd, State, Decided, clientVars
  <2> QED
    BY <1>3, <2>1, <2>3, <2>4
<1> QED
  BY <1>4, <1>5, <1>6, <1>7, <1>8, <1>9

WaitInv == leaves \/ ReviewInv

LEMMA ReviewNext ==
    ASSUME ~Resends, TypeInv, AskInv, WaitInv, [Next]_vars
    PROVE  WaitInv'
<1>1. leaves' = leaves
  BY DEF Next, vars, clientVars, Ask, Review, Retry, Submit, Receive, ReceiveError, Lose,
         Start, Resume, Begin, ResumeEnded, Generate, Fail, Finish
<1> SUFFICES ASSUME ~leaves, ReviewInv PROVE ReviewInv'
  BY <1>1 DEF WaitInv
<1>2. CASE UNCHANGED vars
  BY <1>2 DEF vars, clientVars, ReviewInv, UnderWay, AtReview, AtEnd, Decided
<1>3. CASE Next
  BY <1>3, SubmitKeepsReview, ReceiveKeepsReview, ServeKeepsReview DEF Next
<1> QED
  BY <1>2, <1>3

LEMMA WaitInvCorrect ==
    ASSUME ~Resends
    PROVE  Spec => [](TypeInv /\ AskInv /\ WaitInv)
<1>1. Init => TypeInv /\ AskInv /\ WaitInv
  BY TypeInit, AskInit, ReviewInit DEF WaitInv
<1>2. TypeInv /\ AskInv /\ WaitInv /\ [Next]_vars => (TypeInv /\ AskInv /\ WaitInv)'
  BY TypeNext, AskNext, ReviewNext
<1> QED
  BY <1>1, <1>2, PTL DEF Spec

\* A client that waits and sees a draft: the thread waits for its review of that
\* draft.
THEOREM SeenDraftAwaitsReviewCorrect ==
    ASSUME ~Resends
    PROVE  Spec => []SeenDraftAwaitsReview
<1>1. WaitInv => SeenDraftAwaitsReview
  BY DEF WaitInv, ReviewInv, AtReview, SeenDraftAwaitsReview
<1> QED
  BY <1>1, WaitInvCorrect, PTL

\* The review of a client that waits, when it is a string, decides the final text, and
\* the client gets that text, also when the answer was lost and the review is sent again.
THEOREM ReviewDecidesCorrect ==
    ASSUME ~Resends
    PROVE  Spec => []ReviewDecides
<1>1. WaitInv => ReviewDecides
  BY DEF WaitInv, ReviewInv, Decided, ReviewDecides, Answered
<1> QED
  BY <1>1, WaitInvCorrect, PTL
=============================================================================
