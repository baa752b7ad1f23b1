--------------------------- MODULE ChatThreadProofs ---------------------------
(***************************************************************************)
(* Proofs about ChatThread, for every number of requests and crashes and   *)
(* every set of workers.                                                   *)
(***************************************************************************)
EXTENDS ChatThread, MessagesDeltaProofs

(***************************************************************************)
(* Messages and sequences of messages.                                     *)
(***************************************************************************)

LEMMA MessageFacts ==
    /\ \A q \in Question :
         /\ User(q) \in Message /\ User(q).role = "user" /\ User(q).about = q
         /\ \A a \in {Ai(q), Blank(q)} : a \in Message /\ a.role # "user" /\ a.about = q
    /\ \A m \in Message :
         /\ m.about \in Question
         /\ m.role = "user" => m = User(m.about)
<1>1. ASSUME NEW m \in Message, m.role = "user" PROVE m = User(m.about)
  BY <1>1 DEF Message, User
<1> QED
  BY <1>1 DEF Message, User, Ai, Blank

LEMMA AnswerFacts ==
    ASSUME NEW q \in Question, NEW a \in Answers(q)
    PROVE  a \in {Ai(q), Blank(q)} /\ a \in Message /\ a.role # "user" /\ a.about = q
<1>1. a \in {Ai(q), Blank(q)}
  BY DEF Answers
<1> QED
  BY <1>1, MessageFacts

\* Elements of a concatenation.
LEMMA ContainsConcat ==
    ASSUME NEW s \in Seq(Message), NEW t \in Seq(Message), NEW e
    PROVE  Contains(s \o t, e) <=> Contains(s, e) \/ Contains(t, e)
<1>1. /\ Len(s) \in Nat /\ Len(t) \in Nat /\ Len(s \o t) = Len(s) + Len(t)
      /\ \A i \in 1..(Len(s) + Len(t)) :
           (s \o t)[i] = IF i <= Len(s) THEN s[i] ELSE t[i - Len(s)]
  BY ConcatProperties, LenProperties
<1>2. ASSUME Contains(s \o t, e) PROVE Contains(s, e) \/ Contains(t, e)
  <2>1. PICK i \in 1..(Len(s) + Len(t)) : (s \o t)[i] = e
    BY <1>1, <1>2 DEF Contains
  <2>2. CASE i <= Len(s)
    BY <1>1, <2>1, <2>2 DEF Contains
  <2>3. CASE ~(i <= Len(s))
    <3>1. i - Len(s) \in 1..Len(t) /\ t[i - Len(s)] = e
      BY <1>1, <2>1, <2>3
    <3> QED
      BY <3>1 DEF Contains
  <2> QED
    BY <2>2, <2>3
<1>3. ASSUME Contains(s, e) PROVE Contains(s \o t, e)
  BY <1>1, <1>3 DEF Contains
<1>4. ASSUME Contains(t, e) PROVE Contains(s \o t, e)
  <2>1. PICK i \in 1..Len(t) : t[i] = e
    BY <1>4 DEF Contains
  <2>2. i + Len(s) \in 1..(Len(s) + Len(t)) /\ (s \o t)[i + Len(s)] = e
    BY <1>1, <2>1
  <2> QED
    BY <1>1, <2>2 DEF Contains
<1> QED
  BY <1>2, <1>3, <1>4

LEMMA ContainsAppend ==
    ASSUME NEW s \in Seq(Message), NEW m \in Message, NEW e
    PROVE  Contains(Append(s, m), e) <=> Contains(s, e) \/ m = e
<1> DEFINE t == Append(s, m)
<1>1. /\ Len(t) = Len(s) + 1 /\ Len(s) \in Nat
      /\ t[Len(s) + 1] = m /\ \A i \in 1..Len(s) : t[i] = s[i]
  BY AppendProperties, LenProperties
<1> HIDE DEF t
<1>2. \A i : i \in 1..Len(t) <=> i \in 1..Len(s) \/ i = Len(s) + 1
  BY <1>1
<1>3. (\E i \in 1..Len(t) : t[i] = e) <=> (\E i \in 1..Len(s) : s[i] = e) \/ m = e
  BY <1>1, <1>2
<1> QED
  BY <1>3 DEF Contains, t

LEMMA ToSetContains ==
    ASSUME NEW s \in Seq(Message), NEW e
    PROVE  e \in ToSet(s) <=> Contains(s, e)
  BY LenProperties DEF ToSet, Contains

\* Normalization adds nothing, keeps a question at the end, and leaves a request
\* without blank answers alone.
LEMMA NormalizedFacts ==
    ASSUME NEW s \in Seq(Message)
    PROVE  /\ Normalized(s) \in Seq(Message)
           /\ \A e : Contains(Normalized(s), e) => Contains(s, e)
           /\ s # <<>> /\ Last(s).role = "user"
                => Normalized(s) # <<>> /\ Last(Normalized(s)) = Last(s)
<1> DEFINE K == [role : {"user", "ai"}, about : Question]
<1>1. Normalized(s) = Part(s, K)
  BY DEF Normalized
<1> HIDE DEF K
<1>2. Part(s, K) \in Seq(Message)
  BY PartType
<1>3. \A i \in 1..Len(Part(s, K)) : \E j \in 1..Len(s) : s[j] = Part(s, K)[i]
  BY PartElements
<1>4. ASSUME s # <<>>, Last(s).role = "user"
      PROVE  Part(s, K) # <<>> /\ Last(Part(s, K)) = Last(s)
  <2>1. PICK u \in Seq(Message), e \in Message : s = Append(u, e)
    BY <1>4, SequenceEmptyOrAppend
  <2>2. Last(s) = e
    BY <2>1, AppendProperties, LenProperties DEF Last
  <2>3. e \in K
    BY <1>4, <2>2 DEF Message, K
  <2>4. Part(s, K) = Append(Part(u, K), e) /\ Part(u, K) \in Seq(Message)
    BY <2>1, <2>3, PartOfAppend, PartType
  <2> DEFINE v == Part(u, K)
             w == Append(v, e)
  <2>5. /\ Len(v) \in Nat /\ Len(w) = Len(v) + 1 /\ w[Len(v) + 1] = e
        /\ w \in Seq(Message)
    BY <2>4, AppendProperties, LenProperties
  <2> HIDE DEF v, w
  <2>6. w # <<>> /\ Last(w) = e
    BY <2>5, EmptySeq DEF Last
  <2> QED
    BY <2>2, <2>4, <2>6 DEF v, w
<1> QED
  BY <1>1, <1>2, <1>3, <1>4 DEF Contains

LEMMA NothingBlank ==
    ASSUME NEW s \in Seq(Message), Of(s, "blank") = {}
    PROVE  Normalized(s) = s
<1> DEFINE K == [role : {"user", "ai"}, about : Question]
<1>1. ASSUME NEW i \in 1..Len(s) PROVE s[i] \in K
  <2>1. s[i] \in Message
    BY ElementOfSeq
  <2>2. s[i].role # "blank"
    BY LenProperties DEF Of
  <2> QED
    BY <2>1, <2>2 DEF Message
<1> HIDE DEF K
<1>2. Part(s, K) = s
  BY <1>1, PartOfAll
<1> QED
  BY <1>2 DEF Normalized, K

\* The last message of a role.
LEMMA LastOfIs ==
    ASSUME NEW s \in Seq(Message), NEW role, NEW i \in 1..Len(s), s[i].role = role,
           \A j \in 1..Len(s) : s[j].role = role => j <= i
    PROVE  LastOf(s, role) = s[i] /\ Of(s, role) # {}
<1>1. Of(s, role) = {j \in 1..Len(s) : s[j].role = role} /\ Len(s) \in Nat
  BY LenProperties DEF Of
<1>2. i \in Of(s, role) /\ \A j \in Of(s, role) : j <= i
  BY <1>1
<1>3. \A k \in Of(s, role) : (\A j \in Of(s, role) : j <= k) => k = i
  BY <1>1, <1>2
<1>4. (CHOOSE k \in Of(s, role) : \A j \in Of(s, role) : j <= k) = i
  BY <1>2, <1>3
<1> QED
  BY <1>2, <1>4 DEF LastOf

LEMMA LastOfExists ==
    ASSUME NEW s \in Seq(Message), NEW role, Of(s, role) # {}
    PROVE  \E i \in 1..Len(s) :
             /\ LastOf(s, role) = s[i] /\ s[i].role = role
             /\ \A j \in 1..Len(s) : s[j].role = role => j <= i
<1>1. Of(s, role) = {j \in 1..Len(s) : s[j].role = role} /\ Len(s) \in Nat
  BY LenProperties DEF Of
<1>2. PICK i \in Of(s, role) : \A j \in Of(s, role) : j <= i
  <2>1. Of(s, role) \in SUBSET 0..Len(s)
    BY <1>1
  <2> QED
    BY <1>1, <2>1, GreatestNatural
<1>3. i \in 1..Len(s) /\ s[i].role = role
      /\ \A j \in 1..Len(s) : s[j].role = role => j <= i
  BY <1>1, <1>2
<1> QED
  BY <1>3, LastOfIs

LEMMA LastOfAppend ==
    ASSUME NEW s \in Seq(Message), NEW m \in Message, NEW role
    PROVE  /\ m.role = role => LastOf(Append(s, m), role) = m
           /\ m.role # role /\ Of(s, role) # {} =>
                LastOf(Append(s, m), role) = LastOf(s, role)
<1> DEFINE t == Append(s, m)
<1>1. /\ t \in Seq(Message) /\ Len(t) = Len(s) + 1 /\ Len(s) \in Nat
      /\ t[Len(s) + 1] = m /\ \A i \in 1..Len(s) : t[i] = s[i]
  BY AppendProperties, LenProperties
<1> HIDE DEF t
<1>2. ASSUME m.role = role PROVE LastOf(t, role) = m
  <2>1. Len(t) \in 1..Len(t) /\ t[Len(t)] = m /\ \A j \in 1..Len(t) : j <= Len(t)
    BY <1>1
  <2> QED
    BY <1>1, <1>2, <2>1, LastOfIs
<1>3. ASSUME m.role # role, Of(s, role) # {}
      PROVE  LastOf(t, role) = LastOf(s, role)
  <2>1. PICK i \in 1..Len(s) :
          /\ LastOf(s, role) = s[i] /\ s[i].role = role
          /\ \A j \in 1..Len(s) : s[j].role = role => j <= i
    BY <1>3, LastOfExists
  <2>2. i \in 1..Len(t) /\ t[i] = s[i] /\ t[i].role = role
    BY <1>1, <2>1
  <2>3. ASSUME NEW j \in 1..Len(t), t[j].role = role PROVE j <= i
    <3>1. j # Len(s) + 1
      BY <1>1, <1>3, <2>3
    <3>2. j \in 1..Len(s) /\ t[j] = s[j]
      BY <1>1, <3>1
    <3> QED
      BY <2>1, <2>3, <3>2
  <2>4. LastOf(t, role) = t[i]
    BY <1>1, <2>2, <2>3, LastOfIs
  <2> QED
    BY <2>1, <2>2, <2>4
<1> QED
  BY <1>2, <1>3 DEF t

LEMMA LastOfConcat ==
    ASSUME NEW s \in Seq(Message), NEW d \in Seq(Message), d # <<>>
    PROVE  /\ s \o d \in Seq(Message) /\ s \o d # <<>>
           /\ Last(s \o d) = Last(d)
           /\ LastOf(s \o d, Last(d).role) = Last(d)
           /\ Of(s \o d, Last(d).role) # {}
<1> DEFINE t == s \o d
<1>1. /\ t \in Seq(Message) /\ Len(t) = Len(s) + Len(d)
      /\ Len(s) \in Nat /\ Len(d) \in Nat /\ Len(d) >= 1
      /\ t[Len(s) + Len(d)] = d[Len(d)]
  BY ConcatProperties, LenProperties, EmptySeq
<1> HIDE DEF t
<1>2. t # <<>> /\ Last(t) = Last(d)
  BY <1>1, EmptySeq DEF Last
<1>3. Len(t) \in 1..Len(t) /\ t[Len(t)] = Last(d) /\ \A j \in 1..Len(t) : j <= Len(t)
  BY <1>1 DEF Last
<1>4. LastOf(t, Last(d).role) = Last(d) /\ Of(t, Last(d).role) # {}
  BY <1>1, <1>3, LastOfIs
<1> QED
  BY <1>1, <1>2, <1>4 DEF t

(***************************************************************************)
(* One step of a run.                                                      *)
(***************************************************************************)

Statuses == {"idle", "sent", "read", "running", "answered", "failed"}

RunRecord ==
    [st : Statuses, at : Workers \union {None},
     incoming : Seq(Message), delta : Seq(Message), messages : Seq(Message),
     reply : Message \union {None}]

\* The run of r now is q, all the others are as they were.
Becomes(r, q) ==
    /\ run' \in [Requests -> RunRecord] /\ run'[r] = q
    /\ \A x \in Requests : x # r => run'[x] = run[x]

LEMMA Updated ==
    ASSUME TypeOK, NEW r \in Requests, NEW q \in RunRecord,
           run' = [run EXCEPT ![r] = q]
    PROVE  Becomes(r, q)
  BY DEF TypeOK, Becomes, RunRecord, Statuses

LEMMA RunTypes ==
    ASSUME TypeOK, NEW r \in Requests
    PROVE  /\ run \in [Requests -> RunRecord] /\ run[r] \in RunRecord
           /\ run[r].st \in Statuses /\ run[r].at \in Workers \union {None}
           /\ run[r].incoming \in Seq(Message) /\ run[r].delta \in Seq(Message)
           /\ run[r].messages \in Seq(Message)
           /\ run[r].reply \in Message \union {None}
  BY DEF TypeOK, RunRecord, Statuses

(***************************************************************************)
(* Type correctness.  A run always has a question to answer: its request   *)
(* ends with one, and what the merge drops of it the history has.          *)
(***************************************************************************)

HasUser(s) == Of(s, "user") # {}

RunInv(r) ==
    /\ run[r].st # "idle" => /\ run[r].at \in Workers
                             /\ run[r].incoming # <<>>
                             /\ Last(run[r].incoming).role = "user"
    /\ run[r].st = "read" => HasUser(Saved(r)) \/ HasUser(run[r].delta)
    /\ run[r].st = "running" => HasUser(run[r].messages)
    /\ run[r].st = "answered" => run[r].reply \in Message /\ run[r].reply.role # "user"

TypeInv ==
    /\ TypeOK
    /\ waiting # None => asked # None /\ run[waiting].st # "idle"
    /\ \A s \in Stores : thread[s] # <<>> => HasUser(thread[s])
    /\ \A r \in Requests : RunInv(r)

LEMMA HasUserIff ==
    ASSUME NEW s \in Seq(Message)
    PROVE  HasUser(s) <=> \E i \in 1..Len(s) : s[i].role = "user"
  BY LenProperties DEF HasUser, Of

LEMMA HasUserConcat ==
    ASSUME NEW s \in Seq(Message), NEW t \in Seq(Message)
    PROVE  HasUser(s \o t) <=> HasUser(s) \/ HasUser(t)
<1>1. /\ s \o t \in Seq(Message) /\ Len(s) \in Nat /\ Len(t) \in Nat
      /\ Len(s \o t) = Len(s) + Len(t)
      /\ \A i \in 1..(Len(s) + Len(t)) :
           (s \o t)[i] = IF i <= Len(s) THEN s[i] ELSE t[i - Len(s)]
  BY ConcatProperties, LenProperties
<1>2. ASSUME HasUser(s \o t) PROVE HasUser(s) \/ HasUser(t)
  <2>1. PICK i \in 1..(Len(s) + Len(t)) : (s \o t)[i].role = "user"
    BY <1>1, <1>2, HasUserIff
  <2>2. CASE i <= Len(s)
    <3>1. i \in 1..Len(s) /\ s[i].role = "user"
      BY <1>1, <2>1, <2>2
    <3> QED
      BY <3>1, HasUserIff
  <2>3. CASE ~(i <= Len(s))
    <3>1. i - Len(s) \in 1..Len(t) /\ t[i - Len(s)].role = "user"
      BY <1>1, <2>1, <2>3
    <3> QED
      BY <3>1, HasUserIff
  <2> QED
    BY <2>2, <2>3
<1>3. ASSUME HasUser(s) PROVE HasUser(s \o t)
  <2>1. PICK i \in 1..Len(s) : s[i].role = "user"
    BY <1>3, HasUserIff
  <2>2. i \in 1..Len(s \o t) /\ (s \o t)[i].role = "user"
    BY <1>1, <2>1
  <2> QED
    BY <1>1, <2>2, HasUserIff
<1>4. ASSUME HasUser(t) PROVE HasUser(s \o t)
  <2>1. PICK i \in 1..Len(t) : t[i].role = "user"
    BY <1>4, HasUserIff
  <2>2. i + Len(s) \in 1..Len(s \o t) /\ (s \o t)[i + Len(s)].role = "user"
    BY <1>1, <2>1
  <2> QED
    BY <1>1, <2>2, HasUserIff
<1> QED
  BY <1>2, <1>3, <1>4

LEMMA HasUserAppend ==
    ASSUME NEW s \in Seq(Message), NEW m \in Message, HasUser(s)
    PROVE  HasUser(Append(s, m))
<1>1. Append(s, m) = s \o <<m>> /\ <<m>> \in Seq(Message)
  BY AppendIsConcat
<1> QED
  BY <1>1, HasUserConcat

\* The store a run works on.
LEMMA SavedFacts ==
    ASSUME TypeInv, NEW r \in Requests, run[r].st # "idle"
    PROVE  /\ run[r].at \in Workers /\ Home(run[r].at) \in Stores
           /\ Saved(r) \in Seq(Message) /\ Saved(r) = thread[Home(run[r].at)]
           /\ Saved(r) # <<>> => HasUser(Saved(r))
           /\ run[r].incoming \in Seq(Message) /\ run[r].incoming # <<>>
           /\ Last(run[r].incoming).role = "user"
           /\ Normalized(run[r].incoming) \in Seq(Message)
           /\ Normalized(run[r].incoming) # <<>>
           /\ Last(Normalized(run[r].incoming)) = Last(run[r].incoming)
<1>1. run[r].at \in Workers /\ run[r].incoming # <<>>
      /\ Last(run[r].incoming).role = "user"
  BY DEF TypeInv, RunInv
<1>2. Home(run[r].at) \in Stores
  BY <1>1 DEF Home, Stores
<1>3. run[r].incoming \in Seq(Message)
  BY RunTypes DEF TypeInv
<1> QED
  BY <1>1, <1>2, <1>3, NormalizedFacts DEF TypeInv, TypeOK, Saved

LEMMA SaveFacts ==
    ASSUME TypeInv, NEW r \in Requests, run[r].st # "idle",
           NEW m \in Seq(Message), Save(r, m)
    PROVE  /\ thread' \in [Stores -> Seq(Message)]
           /\ thread'[Home(run[r].at)] = m
           /\ \A s \in Stores : s # Home(run[r].at) => thread'[s] = thread[s]
  BY SavedFacts DEF TypeInv, TypeOK, Save

\* The runs a step leaves alone keep their part of the invariant, if the stores
\* it changes have a question afterwards.
LEMMA OtherRuns ==
    ASSUME TypeInv, NEW r \in Requests, NEW q, Becomes(r, q), UNCHANGED backend,
           \A s \in Stores : thread'[s] = thread[s] \/ HasUser(thread'[s])
    PROVE  /\ \A s \in Stores : thread'[s] # <<>> => HasUser(thread'[s])
           /\ \A x \in Requests : x # r => RunInv(x)'
<1>1. ASSUME NEW x \in Requests, x # r PROVE RunInv(x)'
  <2>1. run'[x] = run[x] /\ RunInv(x)
    BY <1>1 DEF Becomes, TypeInv
  <2>2. ASSUME run[x].st = "read", HasUser(Saved(x)) PROVE HasUser(Saved(x)')
    <3>1. Home(run[x].at) \in Stores
      BY <2>2, SavedFacts
    <3>2. Saved(x)' = thread'[Home(run[x].at)]
      BY <2>1 DEF Saved, Home
    <3> QED
      BY <2>2, <3>1, <3>2 DEF Saved
  <2> QED
    BY <2>1, <2>2 DEF RunInv
<1> QED
  BY <1>1 DEF TypeInv

(***************************************************************************)
(* What each step of the server does to its run.                           *)
(***************************************************************************)

LEMMA ReadStep ==
    ASSUME TypeInv, NEW r \in Requests, ReadState(r)
    PROVE  /\ run[r].st = "sent" /\ backend # "null"
           /\ UNCHANGED <<thread, backend, client, transcript, asked, waiting, crashes>>
           /\ \E q \in RunRecord :
                /\ Becomes(r, q) /\ q.at = run[r].at /\ q.incoming = run[r].incoming
                /\ q.messages = run[r].messages
                /\ \/ /\ q.st = "answered" /\ q.delta = run[r].delta
                      /\ Delta(Saved(r), Normalized(run[r].incoming)) = <<>>
                      /\ Of(Saved(r), "ai") # {}
                      /\ q.reply = LastOf(Saved(r), "ai")
                      /\ q.reply \in Message /\ q.reply.role # "user"
                   \/ /\ q.st = "read" /\ q.reply = run[r].reply
                      /\ q.delta = Delta(Saved(r), Normalized(run[r].incoming))
<1> DEFINE d == Delta(Saved(r), Normalized(run[r].incoming))
<1>1. /\ run[r].st = "sent" /\ backend # "null"
      /\ run' = [run EXCEPT ![r] = IF Reusable(r, d)
             THEN [@ EXCEPT !.st = "answered", !.reply = LastOf(Saved(r), "ai")]
             ELSE [@ EXCEPT !.st = "read", !.delta = d]]
      /\ UNCHANGED <<thread, backend, client, transcript, asked, waiting, crashes>>
  BY DEF ReadState, setup, clientVars
<1>2. TypeOK /\ Saved(r) \in Seq(Message) /\ d \in Seq(Message)
  BY <1>1, SavedFacts, DeltaType DEF TypeInv
<1>3. CASE Reusable(r, d)
  <2>1. d = <<>> /\ Of(Saved(r), "ai") # {}
    BY <1>3 DEF Reusable
  <2> DEFINE a == LastOf(Saved(r), "ai")
  <2>3. a \in Message /\ a.role # "user"
    <3>1. \E i \in 1..Len(Saved(r)) : a = Saved(r)[i] /\ a.role = "ai"
      BY <1>2, <2>1, LastOfExists
    <3> QED
      BY <1>2, <3>1, ElementOfSeq
  <2> HIDE DEF a
  <2>4. PICK q : q = [run[r] EXCEPT !.st = "answered", !.reply = a]
    OBVIOUS
  <2>5. /\ q \in RunRecord /\ q.st = "answered" /\ q.delta = run[r].delta
        /\ q.messages = run[r].messages /\ q.reply = a
        /\ q.at = run[r].at /\ q.incoming = run[r].incoming
    BY <1>2, <2>3, <2>4, RunTypes DEF RunRecord, Statuses
  <2>6. run' = [run EXCEPT ![r] = q]
    BY <1>1, <1>3, <2>4 DEF a
  <2> QED
    BY <1>1, <1>2, <2>1, <2>3, <2>5, <2>6, Updated DEF a
<1>4. CASE ~Reusable(r, d)
  <2> HIDE DEF d
  <2>1. PICK q : q = [run[r] EXCEPT !.st = "read", !.delta = d]
    OBVIOUS
  <2>2. /\ q \in RunRecord /\ q.st = "read" /\ q.delta = d
        /\ q.messages = run[r].messages /\ q.reply = run[r].reply
        /\ q.at = run[r].at /\ q.incoming = run[r].incoming
    BY <1>2, <2>1, RunTypes DEF RunRecord, Statuses
  <2>3. run' = [run EXCEPT ![r] = q]
    BY <1>1, <1>4, <2>1
  <2> QED
    BY <1>1, <1>2, <2>2, <2>3, Updated DEF d
<1> QED
  BY <1>3, <1>4

LEMMA StartStep ==
    ASSUME TypeInv, NEW r \in Requests, StartRun(r)
    PROVE  /\ run[r].st = "read"
           /\ UNCHANGED <<backend, client, transcript, asked, waiting, crashes>>
           /\ Saved(r) \o run[r].delta \in Seq(Message)
           /\ Save(r, Saved(r) \o run[r].delta)
           /\ \E q \in RunRecord :
                /\ Becomes(r, q) /\ q.at = run[r].at /\ q.incoming = run[r].incoming
                /\ q.st = "running" /\ q.delta = run[r].delta /\ q.reply = run[r].reply
                /\ q.messages = Saved(r) \o run[r].delta
<1> DEFINE m == Saved(r) \o run[r].delta
<1>1. /\ run[r].st = "read" /\ Save(r, m)
      /\ run' = [run EXCEPT ![r].st = "running", ![r].messages = m]
      /\ UNCHANGED <<backend, client, transcript, asked, waiting, crashes>>
  BY DEF StartRun, setup, clientVars
<1>2. TypeOK /\ m \in Seq(Message)
  BY <1>1, SavedFacts, RunTypes, ConcatProperties DEF TypeInv
<1> HIDE DEF m
<1>3. PICK q : q = [run[r] EXCEPT !.st = "running", !.messages = m]
  OBVIOUS
<1>4. /\ q \in RunRecord /\ q.st = "running" /\ q.delta = run[r].delta
      /\ q.messages = m /\ q.reply = run[r].reply
      /\ q.at = run[r].at /\ q.incoming = run[r].incoming
  BY <1>2, <1>3, RunTypes DEF RunRecord, Statuses
<1>5. run' = [run EXCEPT ![r] = q]
  BY <1>1, <1>3, Zenon
<1> QED
  BY <1>1, <1>2, <1>4, <1>5, Updated DEF m

LEMMA AnswerStep ==
    ASSUME TypeInv, NEW r \in Requests, Answer(r)
    PROVE  LET q == LastOf(run[r].messages, "user").about IN
           /\ run[r].st = "running" /\ q \in Question
           /\ UNCHANGED <<backend, client, transcript, asked, waiting, crashes>>
           /\ HasUser(run[r].messages)
           /\ \E a \in Answers(q) :
                /\ Append(run[r].messages, a) \in Seq(Message)
                /\ Save(r, Append(run[r].messages, a))
                /\ \E e \in RunRecord :
                     /\ Becomes(r, e) /\ e.at = run[r].at /\ e.incoming = run[r].incoming
                     /\ e.st = "answered" /\ e.delta = run[r].delta /\ e.reply = a
                     /\ e.messages = run[r].messages
<1> DEFINE q == LastOf(run[r].messages, "user").about
<1>1. /\ run[r].st = "running"
      /\ UNCHANGED <<backend, client, transcript, asked, waiting, crashes>>
  BY DEF Answer, setup, clientVars
<1>2. PICK a \in Answers(q) :
        /\ Save(r, Append(run[r].messages, a))
        /\ run' = [run EXCEPT ![r].st = "answered", ![r].reply = a]
  BY DEF Answer
<1>3. TypeOK /\ run[r].messages \in Seq(Message) /\ HasUser(run[r].messages)
  BY <1>1, RunTypes DEF TypeInv, RunInv
<1>4. q \in Question
  <2>1. LastOf(run[r].messages, "user") \in Message
    BY <1>3, LastOfExists, ElementOfSeq DEF HasUser
  <2> QED
    BY <2>1, MessageFacts
<1> HIDE DEF q
<1>5. a \in Message /\ Append(run[r].messages, a) \in Seq(Message)
  BY <1>3, <1>4, AnswerFacts, AppendProperties
<1>6. PICK e : e = [run[r] EXCEPT !.st = "answered", !.reply = a]
  OBVIOUS
<1>7. /\ e \in RunRecord /\ e.st = "answered" /\ e.delta = run[r].delta
      /\ e.messages = run[r].messages /\ e.reply = a
      /\ e.at = run[r].at /\ e.incoming = run[r].incoming
  BY <1>3, <1>5, <1>6, RunTypes DEF RunRecord, Statuses
<1>8. run' = [run EXCEPT ![r] = e]
  BY <1>2, <1>6, Zenon
<1>9. Becomes(r, e)
  BY <1>3, <1>7, <1>8, Updated
<1> QED
  BY <1>1, <1>2, <1>3, <1>4, <1>5, <1>7, <1>9 DEF q

LEMMA FailStep ==
    ASSUME TypeInv, NEW r \in Requests, Fail(r) \/ NoState(r)
    PROVE  /\ run[r].st \in {"sent", "running"}
           /\ UNCHANGED <<thread, backend, client, transcript, asked, waiting, crashes>>
           /\ \E q \in RunRecord :
                /\ Becomes(r, q) /\ q.at = run[r].at /\ q.incoming = run[r].incoming
                /\ q.st = "failed" /\ q.delta = run[r].delta /\ q.reply = run[r].reply
                /\ q.messages = run[r].messages
<1>1. /\ run[r].st \in {"sent", "running"}
      /\ run' = [run EXCEPT ![r].st = "failed"]
      /\ UNCHANGED <<thread, backend, client, transcript, asked, waiting, crashes>>
  BY DEF Fail, NoState, setup, clientVars
<1>2. PICK q : q = [run[r] EXCEPT !.st = "failed"]
  OBVIOUS
<1>3. /\ q \in RunRecord /\ q.st = "failed" /\ q.delta = run[r].delta
      /\ q.messages = run[r].messages /\ q.reply = run[r].reply
      /\ q.at = run[r].at /\ q.incoming = run[r].incoming
  BY <1>2, RunTypes DEF RunRecord, Statuses, TypeInv
<1>4. run' = [run EXCEPT ![r] = q]
  BY <1>1, <1>2
<1> QED
  BY <1>1, <1>3, <1>4, Updated DEF TypeInv

\* A worker's death only fails runs, all those it serves among them.
LEMMA CrashStep ==
    ASSUME TypeInv, NEW w \in Workers, Crash(w)
    PROVE  /\ UNCHANGED <<backend, client, transcript, asked, waiting>>
           /\ crashes' \in 0..MaxCrashes /\ crashes' # 0
           /\ thread' \in [Stores -> Seq(Message)] /\ thread'[w] = <<>>
           /\ \A s \in Stores : s # w => thread'[s] = thread[s]
           /\ run' \in [Requests -> RunRecord]
           /\ \A r \in Requests :
                /\ run'[r] = run[r] \/ (run'[r].st = "failed" /\ run[r].st # "idle")
                /\ run'[r].at = run[r].at /\ run'[r].incoming = run[r].incoming
                /\ run'[r].delta = run[r].delta /\ run'[r].messages = run[r].messages
                /\ run'[r].reply = run[r].reply
                /\ run[r].at = w /\ (run[r].st \in {"sent", "read", "running"} \/ waiting = r)
                     => run'[r].st = "failed"
<1> USE DEF TypeInv
<1>1. /\ UNCHANGED <<backend, client, transcript, asked, waiting>>
      /\ crashes < MaxCrashes /\ crashes' = crashes + 1
      /\ thread' = [thread EXCEPT ![w] = <<>>]
      /\ run' = [r \in Requests |->
           IF run[r].at = w /\ (run[r].st \in {"sent", "read", "running"} \/ waiting = r)
           THEN [run[r] EXCEPT !.st = "failed"] ELSE run[r]]
  BY DEF Crash, setup, clientVars
<1>2. crashes' \in 0..MaxCrashes /\ crashes' # 0
  BY <1>1, BoundsAssumption DEF TypeOK
<1>3. /\ thread' \in [Stores -> Seq(Message)] /\ thread'[w] = <<>>
      /\ \A s \in Stores : s # w => thread'[s] = thread[s]
  BY <1>1, EmptySeq DEF TypeOK, Stores
<1>4. ASSUME NEW r \in Requests
      PROVE  /\ run'[r] \in RunRecord
             /\ run'[r] = run[r] \/ (run'[r].st = "failed" /\ run[r].st # "idle")
             /\ run'[r].at = run[r].at /\ run'[r].incoming = run[r].incoming
             /\ run'[r].delta = run[r].delta /\ run'[r].messages = run[r].messages
             /\ run'[r].reply = run[r].reply
             /\ run[r].at = w /\ (run[r].st \in {"sent", "read", "running"} \/ waiting = r)
                  => run'[r].st = "failed"
  <2>1. CASE run[r].at = w /\ (run[r].st \in {"sent", "read", "running"} \/ waiting = r)
    <3>1. run'[r] = [run[r] EXCEPT !.st = "failed"]
      BY <1>1, <2>1
    <3>2. PICK q : q = [run[r] EXCEPT !.st = "failed"]
      OBVIOUS
    <3>3. /\ q \in RunRecord /\ q.st = "failed" /\ q.delta = run[r].delta
          /\ q.messages = run[r].messages /\ q.reply = run[r].reply
          /\ q.at = run[r].at /\ q.incoming = run[r].incoming
      BY <3>2, RunTypes DEF RunRecord, Statuses
    <3>4. r # None /\ run[r].st # "idle"
      BY <2>1, SentinelAssumption DEF Requests
    <3> QED
      BY <3>1, <3>2, <3>3, <3>4
  <2>2. CASE ~(run[r].at = w /\ (run[r].st \in {"sent", "read", "running"} \/ waiting = r))
    BY <1>1, <2>2, RunTypes
  <2> QED
    BY <2>1, <2>2
<1>5. run' \in [Requests -> RunRecord]
  BY <1>1, <1>4
<1> QED
  BY <1>1, <1>2, <1>3, <1>4, <1>5

(***************************************************************************)
(* What each step of the client does.                                      *)
(***************************************************************************)

LEMMA PayloadFacts ==
    ASSUME TypeOK, NEW q \in Question
    PROVE  /\ Payload(q) \in Seq(Message) /\ Payload(q) # <<>>
           /\ Last(Payload(q)) = User(q)
           /\ \A e : Contains(Payload(q), e) => Contains(transcript, e) \/ e = User(q)
<1>1. transcript \in Seq(Message) /\ User(q) \in Message
  BY MessageFacts DEF TypeOK
<1>2. CASE client.style = "full"
  <2>1. Payload(q) = Append(transcript, User(q))
    BY <1>2 DEF Payload
  <2> QED
    BY <1>1, <2>1, AppendProperties, LenProperties, ContainsAppend DEF Last
<1>3. CASE client.style # "full"
  <2>1. Payload(q) = <<User(q)>>
    BY <1>3 DEF Payload
  <2> DEFINE u == User(q)
  <2>2. u \in Message
    BY <1>1
  <2> HIDE DEF u
  <2>3. <<u>> \in Seq(Message) /\ <<u>> # <<>> /\ Len(<<u>>) = 1 /\ <<u>>[1] = u
    BY <2>2
  <2>4. Last(<<u>>) = u
    BY <2>3, Zenon DEF Last
  <2>5. \A e : Contains(<<u>>, e) => e = u
    BY <2>3 DEF Contains
  <2> QED
    BY <2>1, <2>3, <2>4, <2>5 DEF u
<1> QED
  BY <1>2, <1>3

LEMMA SubmitStep ==
    ASSUME TypeInv, NEW r \in Requests, NEW q \in Question, Submit(r, q)
    PROVE  /\ waiting = None /\ run[r].st = "idle" /\ asked' = q /\ waiting' = r
           /\ UNCHANGED <<thread, backend, client, transcript, crashes>>
           /\ \E e \in RunRecord :
                /\ Becomes(r, e) /\ e.st = "sent" /\ e.at \in Workers
                /\ e.incoming = Payload(q) /\ e.messages = <<>>
<1>1. /\ waiting = None /\ run[r].st = "idle" /\ asked' = q /\ waiting' = r
      /\ UNCHANGED <<thread, backend, client, transcript, crashes>>
  BY DEF Submit, setup
<1> DEFINE p == Payload(q)
<1>2. TypeOK /\ p \in Seq(Message)
  BY PayloadFacts DEF TypeInv
<1>3. PICK w \in Workers :
        run' = [run EXCEPT ![r] = [Idle EXCEPT !.st = "sent", !.at = w, !.incoming = p]]
  BY DEF Submit
<1> HIDE DEF p
<1>4. PICK e : e = [Idle EXCEPT !.st = "sent", !.at = w, !.incoming = p]
  OBVIOUS
<1>5. e = [st |-> "sent", at |-> w, incoming |-> p, delta |-> <<>>,
           messages |-> <<>>, reply |-> None]
  BY <1>4 DEF Idle
<1>6. /\ e \in RunRecord /\ e.st = "sent" /\ e.at \in Workers
      /\ e.incoming = p /\ e.messages = <<>>
  BY <1>2, <1>5, EmptySeq DEF RunRecord, Statuses
<1>7. Becomes(r, e)
  BY <1>2, <1>3, <1>4, <1>6, Updated
<1> QED
  BY <1>1, <1>6, <1>7 DEF p

LEMMA AskStep ==
    ASSUME TypeInv, NEW r \in Requests, Ask(r) \/ Retry(r)
    PROVE  \E q \in Question : /\ Submit(r, q)
                               /\ (asked = None /\ q = r) \/ (asked # None /\ q = asked)
<1>1. CASE Ask(r)
  BY <1>1 DEF Ask, Question
<1>2. CASE Retry(r)
  BY <1>2 DEF Retry, TypeInv, TypeOK
<1> QED
  BY <1>1, <1>2

\* The client's other steps touch neither the server nor a run.
LEMMA ClientStep ==
    ASSUME TypeInv, Receive \/ ReceiveError \/ Abandon \/ GiveUp
    PROVE  /\ UNCHANGED <<thread, run, backend, client, crashes>>
           /\ asked' \in {asked, None} /\ waiting' = None
           /\ transcript' \in Seq(Message)
<1>1. /\ UNCHANGED <<thread, run, backend, client, crashes>>
      /\ asked' \in {asked, None} /\ waiting' = None
  BY DEF Receive, ReceiveError, Abandon, GiveUp, setup
<1>2. CASE ReceiveError \/ Abandon \/ GiveUp
  BY <1>1, <1>2 DEF ReceiveError, Abandon, GiveUp, TypeInv, TypeOK
<1>3. CASE Receive
  <2>1. /\ waiting # None /\ run[waiting].st = "answered"
        /\ transcript' = transcript \o <<User(asked), run[waiting].reply>>
    BY <1>3 DEF Receive
  <2>2. waiting \in Requests /\ asked \in Question /\ run[waiting].reply \in Message
    BY <2>1 DEF TypeInv, TypeOK, RunInv
  <2>3. <<User(asked), run[waiting].reply>> \in Seq(Message)
    BY <2>2, MessageFacts
  <2> QED
    BY <1>1, <2>1, <2>3, ConcatProperties DEF TypeInv, TypeOK
<1> QED
  BY <1>1, <1>2, <1>3

(***************************************************************************)
(* Every step keeps the types.                                             *)
(***************************************************************************)

LEMMA TypeInit == Init => TypeInv
<1> SUFFICES ASSUME Init PROVE TypeInv
  OBVIOUS
<1>1. <<>> \in Seq(Message)
  BY EmptySeq
<1>2. Idle \in RunRecord /\ Idle.st = "idle"
  BY <1>1 DEF Idle, RunRecord, Statuses
<1>3. TypeOK
  BY <1>1, <1>2, BoundsAssumption DEF Init, TypeOK, RunRecord, Statuses
<1>4. \A r \in Requests : run[r].st = "idle"
  BY <1>2 DEF Init
<1> QED
  BY <1>3, <1>4 DEF Init, TypeInv, RunInv

\* A step that makes q of the run of r and keeps or grows the stores.
RunStep(r, q) ==
    /\ Becomes(r, q) /\ q.st # "idle" /\ RunInv(r)'
    /\ UNCHANGED <<backend, client, crashes>>
    /\ thread' \in [Stores -> Seq(Message)]
    /\ \A s \in Stores : thread'[s] = thread[s] \/ HasUser(thread'[s])
    /\ transcript' \in Seq(Message) /\ asked' \in Question \union {None}
    /\ waiting' \in Requests \union {None} /\ (waiting' # None => asked' # None)
    /\ waiting' = waiting \/ waiting' = r

LEMMA RunStepTypes ==
    ASSUME TypeInv, NEW r \in Requests, NEW q \in RunRecord, RunStep(r, q)
    PROVE  TypeInv'
<1>1. TypeOK /\ (waiting # None => asked # None /\ run[waiting].st # "idle")
  BY DEF TypeInv
<1>2. /\ \A s \in Stores : thread'[s] # <<>> => HasUser(thread'[s])
      /\ \A x \in Requests : x # r => RunInv(x)'
  BY OtherRuns DEF RunStep
<1>3. \A x \in Requests : RunInv(x)'
  BY <1>2 DEF RunStep
<1>4. TypeOK'
  BY <1>1 DEF RunStep, TypeOK, Becomes, RunRecord, Statuses, Stores, Requests,
     Question, Message
<1>5. ASSUME waiting' # None PROVE run'[waiting'].st # "idle"
  <2>1. CASE waiting' = r
    BY <2>1 DEF RunStep, Becomes
  <2>2. CASE waiting' # r
    <3>1. waiting' = waiting /\ waiting \in Requests
      BY <1>1, <1>5, <2>2 DEF RunStep, TypeOK
    <3>2. run'[waiting] = run[waiting] /\ run[waiting].st # "idle"
      BY <1>1, <1>5, <2>2, <3>1 DEF RunStep, Becomes
    <3> QED
      BY <3>1, <3>2
  <2> QED
    BY <2>1, <2>2
<1> QED
  BY <1>2, <1>3, <1>4, <1>5 DEF RunStep, TypeInv, Stores, Requests

LEMMA TypeNext == TypeInv /\ [Next]_vars => TypeInv'
<1> SUFFICES ASSUME TypeInv, [Next]_vars PROVE TypeInv'
  OBVIOUS
<1>1. /\ TypeOK /\ (waiting # None => asked # None /\ run[waiting].st # "idle")
      /\ \A s \in Stores : thread[s] # <<>> => HasUser(thread[s])
      /\ \A r \in Requests : RunInv(r)
  BY DEF TypeInv
<1>2. ASSUME NEW r \in Requests, Ask(r) \/ Retry(r) PROVE TypeInv'
  <2>1. PICK q \in Question : Submit(r, q)
    BY <1>2, AskStep
  <2>2. /\ waiting = None /\ run[r].st = "idle" /\ asked' = q /\ waiting' = r
        /\ UNCHANGED <<thread, backend, client, transcript, crashes>>
    BY <2>1, SubmitStep
  <2>3. PICK e \in RunRecord :
          /\ Becomes(r, e) /\ e.st = "sent" /\ e.at \in Workers
          /\ e.incoming = Payload(q) /\ e.messages = <<>>
    BY <2>1, SubmitStep
  <2>4. RunInv(r)'
    BY <1>1, <2>3, PayloadFacts, MessageFacts DEF RunInv, Becomes
  <2>5. q # None
    BY SentinelAssumption DEF Question, Requests
  <2>6. RunStep(r, e)
    BY <1>1, <2>2, <2>3, <2>4, <2>5 DEF RunStep, TypeOK
  <2> QED
    BY <2>6, RunStepTypes
<1>3. CASE Receive \/ ReceiveError \/ Abandon \/ GiveUp
  <2>1. /\ UNCHANGED <<thread, run, backend, client, crashes>>
        /\ asked' \in {asked, None} /\ waiting' = None
        /\ transcript' \in Seq(Message)
    BY <1>3, ClientStep
  <2>2. TypeOK'
    BY <1>1, <2>1 DEF TypeOK, Stores, Requests, Question, Message
  <2>3. \A r \in Requests : RunInv(r)'
    BY <1>1, <2>1 DEF RunInv, Saved, Home
  <2> QED
    BY <1>1, <2>1, <2>2, <2>3 DEF TypeInv, Stores, Requests
<1>4. ASSUME NEW r \in Requests, ReadState(r) PROVE TypeInv'
  <2>1. /\ run[r].st = "sent"
        /\ UNCHANGED <<thread, backend, client, transcript, asked, waiting, crashes>>
    BY <1>4, ReadStep
  <2>2. PICK q \in RunRecord :
          /\ Becomes(r, q) /\ q.at = run[r].at /\ q.incoming = run[r].incoming
          /\ q.messages = run[r].messages
          /\ \/ /\ q.st = "answered" /\ q.reply \in Message /\ q.reply.role # "user"
             \/ /\ q.st = "read" /\ q.delta = Delta(Saved(r), Normalized(run[r].incoming))
    BY <1>4, ReadStep
  <2>3. /\ Saved(r) \in Seq(Message) /\ run[r].incoming # <<>>
        /\ Last(run[r].incoming).role = "user" /\ run[r].at \in Workers
    BY <2>1, SavedFacts
  \* What the merge drops of the request, the history has.
  <2>4. HasUser(Saved(r)) \/ HasUser(Delta(Saved(r), Normalized(run[r].incoming)))
    <3> DEFINE t == Normalized(run[r].incoming)
               d == Delta(Saved(r), t)
    <3>0. t \in Seq(Message) /\ t # <<>> /\ Last(t).role = "user"
      BY <2>1, SavedFacts
    <3> HIDE DEF t
    <3>1. CASE d = <<>>
      <4>1. \E i \in 1..Len(Saved(r)) : Saved(r)[i] = t[Len(t)]
        BY <2>3, <3>0, <3>1, NothingNew
      <4> QED
        BY <2>3, <3>0, <4>1, HasUserIff DEF Last
    <3>2. CASE d # <<>>
      <4>1. /\ d \in Seq(Message) /\ Len(d) \in 1..Len(t) /\ d[Len(d)] = t[Len(t)]
        BY <2>3, <3>0, <3>2, NewestLast, DeltaType
      <4> HIDE DEF d
      <4>2. Len(d) \in 1..Len(d) /\ d[Len(d)].role = "user"
        BY <3>0, <4>1, LenProperties DEF Last
      <4>3. HasUser(d)
        BY <4>1, <4>2, HasUserIff
      <4> QED
        BY <4>3 DEF d, t
    <3> QED
      BY <3>1, <3>2
  <2>5. run'[r] = q /\ Saved(r)' = Saved(r)
    BY <2>1, <2>2 DEF Becomes, Saved, Home
  <2>6. RunInv(r)'
    BY <2>2, <2>3, <2>4, <2>5 DEF RunInv
  <2>7. RunStep(r, q)
    BY <1>1, <2>1, <2>2, <2>6 DEF RunStep, TypeOK
  <2> QED
    BY <2>7, RunStepTypes
<1>5. ASSUME NEW r \in Requests, StartRun(r) PROVE TypeInv'
  <2> DEFINE m == Saved(r) \o run[r].delta
  <2>1. /\ run[r].st = "read" /\ m \in Seq(Message) /\ Save(r, m)
        /\ UNCHANGED <<backend, client, transcript, asked, waiting, crashes>>
    BY <1>5, StartStep
  <2>2. PICK q \in RunRecord :
          /\ Becomes(r, q) /\ q.at = run[r].at /\ q.incoming = run[r].incoming
          /\ q.st = "running" /\ q.messages = m
    BY <1>5, StartStep
  <2>3. HasUser(m)
    BY <1>1, <2>1, SavedFacts, RunTypes, HasUserConcat DEF RunInv
  <2> HIDE DEF m
  <2>4. /\ thread' \in [Stores -> Seq(Message)]
        /\ \A s \in Stores : thread'[s] = thread[s] \/ HasUser(thread'[s])
    BY <2>1, <2>3, SaveFacts
  <2>5. RunInv(r)'
    BY <1>1, <2>1, <2>2, <2>3 DEF RunInv, Becomes
  <2>6. RunStep(r, q)
    BY <1>1, <2>1, <2>2, <2>4, <2>5 DEF RunStep, TypeOK
  <2> QED
    BY <2>6, RunStepTypes
<1>6. ASSUME NEW r \in Requests, Answer(r) PROVE TypeInv'
  <2> DEFINE q == LastOf(run[r].messages, "user").about
  <2>1. /\ run[r].st = "running" /\ q \in Question /\ HasUser(run[r].messages)
        /\ UNCHANGED <<backend, client, transcript, asked, waiting, crashes>>
    BY <1>6, AnswerStep
  <2>2. PICK a \in Answers(q) :
          /\ Append(run[r].messages, a) \in Seq(Message)
          /\ Save(r, Append(run[r].messages, a))
          /\ \E e \in RunRecord :
               /\ Becomes(r, e) /\ e.at = run[r].at /\ e.incoming = run[r].incoming
               /\ e.st = "answered" /\ e.reply = a
    BY <1>6, AnswerStep
  <2> DEFINE m == Append(run[r].messages, a)
  <2>3. /\ HasUser(m) /\ m \in Seq(Message) /\ Save(r, m)
        /\ a \in Message /\ a.role # "user"
    BY <2>1, <2>2, RunTypes, AnswerFacts, HasUserAppend DEF TypeInv
  <2>4. PICK e \in RunRecord :
          /\ Becomes(r, e) /\ e.at = run[r].at /\ e.incoming = run[r].incoming
          /\ e.st = "answered" /\ e.reply = a
    BY <2>2
  <2> HIDE DEF m, q
  <2>5. /\ thread' \in [Stores -> Seq(Message)]
        /\ \A s \in Stores : thread'[s] = thread[s] \/ HasUser(thread'[s])
    BY <2>1, <2>3, SaveFacts
  <2>6. RunInv(r)'
    BY <1>1, <2>1, <2>3, <2>4 DEF RunInv, Becomes
  <2>7. RunStep(r, e)
    BY <1>1, <2>1, <2>5, <2>6, <2>4 DEF RunStep, TypeOK
  <2> QED
    BY <2>7, RunStepTypes
<1>7. ASSUME NEW r \in Requests, Fail(r) \/ NoState(r) PROVE TypeInv'
  <2>1. /\ run[r].st \in {"sent", "running"}
        /\ UNCHANGED <<thread, backend, client, transcript, asked, waiting, crashes>>
    BY <1>7, FailStep
  <2>2. PICK q \in RunRecord :
          /\ Becomes(r, q) /\ q.at = run[r].at /\ q.incoming = run[r].incoming
          /\ q.st = "failed"
    BY <1>7, FailStep
  <2>3. RunInv(r)'
    BY <1>1, <2>1, <2>2 DEF RunInv, Becomes
  <2>4. RunStep(r, q)
    BY <1>1, <2>1, <2>2, <2>3 DEF RunStep, TypeOK
  <2> QED
    BY <2>4, RunStepTypes
<1>8. ASSUME NEW w \in Workers, Crash(w) PROVE TypeInv'
  <2>1. /\ UNCHANGED <<backend, client, transcript, asked, waiting>>
        /\ crashes' \in 0..MaxCrashes
        /\ thread' \in [Stores -> Seq(Message)] /\ thread'[w] = <<>>
        /\ \A s \in Stores : s # w => thread'[s] = thread[s]
        /\ run' \in [Requests -> RunRecord]
        /\ \A r \in Requests :
             /\ run'[r] = run[r] \/ (run'[r].st = "failed" /\ run[r].st # "idle")
             /\ run'[r].at = run[r].at /\ run'[r].incoming = run[r].incoming
             /\ run[r].at = w /\ run[r].st = "read" => run'[r].st = "failed"
    BY <1>8, CrashStep
  <2>2. TypeOK'
    BY <1>1, <2>1 DEF TypeOK, RunRecord, Statuses, Stores, Requests, Question, Message
  <2>3. ASSUME NEW r \in Requests PROVE RunInv(r)'
    <3>1. RunInv(r) /\ run[r].st \in Statuses
      BY <1>1, RunTypes
    <3>2. CASE run'[r].st = "failed" /\ run[r].st # "idle"
      BY <2>1, <3>1, <3>2 DEF RunInv
    <3>3. CASE run'[r] = run[r] /\ run'[r].st # "failed"
      <4>1. ASSUME run[r].st = "read" PROVE Saved(r)' = Saved(r)
        <5>1. run[r].at # w /\ Home(run[r].at) \in Stores /\ run[r].at \in Workers
          BY <2>1, <3>3, <4>1, SavedFacts
        <5>2. Home(run[r].at) # w
          BY <5>1, SentinelAssumption DEF Home
        <5> QED
          BY <2>1, <3>3, <5>1, <5>2 DEF Saved, Home
      <4> QED
        BY <3>1, <3>3, <4>1 DEF RunInv
    <3> QED
      BY <2>1, <3>2, <3>3
  <2>4. waiting' # None => asked' # None /\ run'[waiting'].st # "idle"
    BY <1>1, <2>1 DEF TypeOK
  <2>5. \A s \in Stores : thread'[s] # <<>> => HasUser(thread'[s])
    BY <1>1, <2>1
  <2> QED
    BY <2>2, <2>3, <2>4, <2>5 DEF TypeInv, Stores, Requests
<1>9. CASE UNCHANGED vars
  BY <1>1, <1>9 DEF vars, setup, clientVars, TypeInv, TypeOK, RunInv, Saved, Home,
     Stores, Requests, Question, Message
<1> QED
  BY <1>2, <1>3, <1>4, <1>5, <1>6, <1>7, <1>8, <1>9 DEF Next, Client, Serve

LEMMA TypeAlways == Spec => []TypeInv
  BY TypeInit, TypeNext, PTL DEF Spec

\* Stores, runs and client keep their types, whatever the client and the workers
\* do: in particular the node always finds a question to answer.
THEOREM TypeCorrect == Spec => []TypeOK
<1>1. TypeInv => TypeOK
  BY DEF TypeInv
<1> QED
  BY <1>1, TypeAlways, PTL

(***************************************************************************)
(* A client that waits.  At most one run is under way, the one it waits    *)
(* for; that run works on what its store holds; and a question that the    *)
(* server has seen is the last one it has seen until it is answered.       *)
(***************************************************************************)

InFlight == {"sent", "read", "running"}

OneRun == \A r \in Requests : run[r].st \in InFlight => waiting = r

WaitInv == waiting # None => run[waiting].incoming = Payload(asked)

\* A question that was not asked yet is nowhere.
FreshInv ==
    \A r \in Requests : run[r].st = "idle" =>
        /\ asked # r /\ ~Contains(transcript, User(r))
        /\ \A s \in Stores : ~Contains(thread[s], User(r))

AskedLast(s) == Contains(s, User(asked)) => LastOf(s, "user") = User(asked)

LastInv == asked # None => \A s \in Stores : AskedLast(thread[s])

CopyInv ==
    \A r \in Requests :
        /\ run[r].st \in {"sent", "read"} => run[r].messages = <<>>
        /\ run[r].st = "read" =>
             run[r].delta = Delta(Saved(r), Normalized(run[r].incoming))
        /\ run[r].st = "running" => /\ run[r].messages = Saved(r)
                                    /\ Contains(run[r].messages, User(asked))
        /\ run[r].st = "answered" /\ run[r].messages # <<>>
             => run[r].reply.about = Last(run[r].incoming).about

WaitingClient == OneRun /\ WaitInv /\ FreshInv /\ LastInv /\ CopyInv

SerialInv == ~client.leaves => WaitingClient

\* The messages of a merge come from the request.
LEMMA DeltaFromRequest ==
    ASSUME NEW s \in Seq(Message), NEW t \in Seq(Message), NEW e,
           Contains(Delta(s, t), e)
    PROVE  Contains(t, e)
<1>1. PICK n \in 0..Len(t) : Delta(s, t) = Drop(t, n)
  BY DeltaIsDrop
<1>2. /\ Len(t) \in Nat /\ Len(Drop(t, n)) = Len(t) - n
      /\ \A i \in 1..(Len(t) - n) : Drop(t, n)[i] = t[n + i]
  BY DropProperties, LenProperties
<1>3. PICK i \in 1..(Len(t) - n) : t[n + i] = e
  BY <1>1, <1>2 DEF Contains
<1>4. n + i \in 1..Len(t)
  BY <1>2
<1> QED
  BY <1>3, <1>4 DEF Contains

LEMMA SameUser ==
    ASSUME NEW p \in Question, NEW q \in Question
    PROVE  /\ User(p) = User(q) => p = q
           /\ \A a \in Message : a.role # "user" => User(p) # a
  BY MessageFacts

\* The run that the client waits for.
LEMMA RunInFlight ==
    ASSUME TypeInv, WaitingClient, NEW r \in Requests, run[r].st \in InFlight
    PROVE  /\ waiting = r /\ asked # None /\ asked \in Question
           /\ run[r].incoming = Payload(asked) /\ Last(run[r].incoming) = User(asked)
           /\ \A x \in Requests : x # r => run[x].st \notin InFlight
<1>1. waiting = r /\ r # None /\ asked # None /\ asked \in Question
  BY SentinelAssumption DEF WaitingClient, OneRun, TypeInv, TypeOK, Requests
<1> QED
  BY <1>1, PayloadFacts DEF WaitingClient, OneRun, WaitInv, TypeInv

\* What a run adds to the history: its store then ends, among the questions, with
\* the one that is asked.
LEMMA Merged ==
    ASSUME TypeInv, WaitingClient, NEW r \in Requests, run[r].st = "read"
    PROVE  LET m == Saved(r) \o run[r].delta IN
           /\ m \in Seq(Message)
           /\ Contains(m, User(asked)) /\ LastOf(m, "user") = User(asked)
           /\ \A x \in Requests : run[x].st = "idle" => ~Contains(m, User(x))
           /\ run[r].delta = <<>> => Contains(Saved(r), User(asked))
<1> DEFINE s == Saved(r)
           d == run[r].delta
           t == Normalized(run[r].incoming)
<1>1. /\ s \in Seq(Message) /\ d \in Seq(Message) /\ t \in Seq(Message) /\ t # <<>>
      /\ d = Delta(s, t) /\ s = thread[Home(run[r].at)] /\ Home(run[r].at) \in Stores
  BY SavedFacts, RunTypes DEF WaitingClient, CopyInv, TypeInv
<1>2. /\ asked # None /\ asked \in Question /\ Last(t) = User(asked)
      /\ \A e : Contains(t, e) => Contains(Payload(asked), e)
  <2>1. asked # None /\ asked \in Question /\ run[r].incoming = Payload(asked)
        /\ Last(run[r].incoming) = User(asked)
    BY RunInFlight DEF InFlight
  <2> QED
    BY <2>1, SavedFacts, NormalizedFacts
<1> HIDE DEF s, d, t
<1>3. s \o d \in Seq(Message)
  BY <1>1, ConcatProperties
<1>4. ASSUME NEW x \in Requests, run[x].st = "idle" PROVE ~Contains(s \o d, User(x))
  <2>1. asked # x /\ ~Contains(transcript, User(x)) /\ ~Contains(s, User(x))
    BY <1>1, <1>4 DEF WaitingClient, FreshInv
  <2>2. Contains(d, User(x)) => Contains(t, User(x))
    BY <1>1, DeltaFromRequest
  <2>3. ~Contains(t, User(x))
    BY <1>2, <2>1, PayloadFacts, SameUser DEF TypeInv, Question
  <2> QED
    BY <1>1, <2>1, <2>2, <2>3, ContainsConcat
<1>5. CASE d = <<>>
  <2>1. Contains(s, User(asked))
    <3>1. \E i \in 1..Len(s) : s[i] = t[Len(t)]
      BY <1>1, <1>5, NothingNew
    <3> QED
      BY <1>2, <3>1 DEF Contains, Last
  <2>2. s \o d = s
    BY <1>1, <1>5, ConcatEmptySeq
  <2>3. LastOf(s, "user") = User(asked)
    BY <1>1, <1>2, <2>1 DEF WaitingClient, LastInv, AskedLast
  <2> QED
    BY <1>3, <1>4, <2>1, <2>2, <2>3 DEF s, d
<1>6. CASE d # <<>>
  <2>1. Last(d) = User(asked)
    <3>1. d[Len(d)] = t[Len(t)]
      BY <1>1, <1>6, NewestLast
    <3> QED
      BY <1>2, <3>1 DEF Last
  <2>2. LastOf(s \o d, "user") = User(asked)
    BY <1>1, <1>2, <1>6, <2>1, LastOfConcat, MessageFacts
  <2>3. Contains(d, User(asked))
    <3>1. Len(d) \in 1..Len(d)
      BY <1>1, <1>6, LenProperties, EmptySeq
    <3> QED
      BY <2>1, <3>1 DEF Contains, Last
  <2>4. Contains(s \o d, User(asked))
    BY <1>1, <2>3, ContainsConcat
  <2> QED
    BY <1>3, <1>4, <1>6, <2>2, <2>4 DEF s, d
<1> QED
  BY <1>5, <1>6

\* What a run answers: the question of its client.
LEMMA AnswersAsked ==
    ASSUME TypeInv, WaitingClient, NEW r \in Requests, run[r].st = "running"
    PROVE  /\ run[r].messages = Saved(r) /\ Saved(r) \in Seq(Message)
           /\ LastOf(run[r].messages, "user") = User(asked)
           /\ LastOf(run[r].messages, "user").about = asked
           /\ Contains(run[r].messages, User(asked))
<1>1. asked # None /\ asked \in Question
  BY RunInFlight DEF InFlight
<1>2. run[r].messages = Saved(r) /\ Contains(Saved(r), User(asked))
  BY DEF WaitingClient, CopyInv
<1>3. /\ Saved(r) = thread[Home(run[r].at)] /\ Home(run[r].at) \in Stores
      /\ Saved(r) \in Seq(Message)
  BY SavedFacts
<1>4. LastOf(Saved(r), "user") = User(asked)
  BY <1>1, <1>2, <1>3 DEF WaitingClient, LastInv, AskedLast
<1> QED
  BY <1>1, <1>2, <1>3, <1>4, MessageFacts

(***************************************************************************)
(* Every step keeps the account of a client that waits.                    *)
(***************************************************************************)

LEMMA SubmitKeepsWaiting ==
    ASSUME TypeInv, WaitingClient, NEW r \in Requests, Ask(r) \/ Retry(r)
    PROVE  WaitingClient'
<1>1. PICK q \in Question :
        Submit(r, q) /\ ((asked = None /\ q = r) \/ (asked # None /\ q = asked))
  BY AskStep
<1>2. /\ waiting = None /\ run[r].st = "idle" /\ asked' = q /\ waiting' = r
      /\ UNCHANGED <<thread, backend, client, transcript, crashes>>
  BY <1>1, SubmitStep
<1>3. PICK e \in RunRecord :
        /\ Becomes(r, e) /\ e.st = "sent" /\ e.at \in Workers
        /\ e.incoming = Payload(q) /\ e.messages = <<>>
  BY <1>1, SubmitStep
<1>4. /\ run'[r] = e
      /\ \A x \in Requests : x # r => run'[x] = run[x] /\ run[x].st \notin InFlight
  <2>1. \A x \in Requests : x # None
    BY SentinelAssumption DEF Requests
  <2> QED
    BY <1>2, <1>3, <2>1 DEF Becomes, WaitingClient, OneRun
<1>5. OneRun'
  BY <1>2, <1>4 DEF OneRun, Requests
<1>6. WaitInv'
  BY <1>2, <1>3, <1>4 DEF WaitInv, Payload
<1>7. FreshInv'
  <2> SUFFICES ASSUME NEW x \in Requests, run'[x].st = "idle"
               PROVE  /\ asked' # x /\ ~Contains(transcript', User(x))
                      /\ \A s \in Stores : ~Contains(thread'[s], User(x))
    BY DEF FreshInv, Requests, Stores
  <2>1. x # r /\ run[x].st = "idle"
    BY <1>3, <1>4
  <2> QED
    BY <1>1, <1>2, <2>1 DEF WaitingClient, FreshInv
<1>8. LastInv'
  <2> SUFFICES ASSUME NEW s \in Stores PROVE AskedLast(thread[s])'
    BY DEF LastInv, Stores
  <2>1. CASE q = r
    <3>1. ~Contains(thread[s], User(q))
      BY <1>2, <2>1 DEF WaitingClient, FreshInv
    <3> QED
      BY <1>2, <3>1 DEF AskedLast
  <2>2. CASE q = asked /\ asked # None
    BY <1>2, <2>2 DEF WaitingClient, LastInv, AskedLast
  <2> QED
    BY <1>1, <2>1, <2>2
<1>9. CopyInv'
  <2> SUFFICES ASSUME NEW x \in Requests
               PROVE  /\ run'[x].st \in {"sent", "read"} => run'[x].messages = <<>>
                      /\ run'[x].st \notin {"read", "running"}
                      /\ run'[x].st = "answered" /\ run'[x].messages # <<>>
                           => run'[x].reply.about = Last(run'[x].incoming).about
    BY DEF CopyInv, Requests
  <2>1. CASE x = r
    BY <1>3, <1>4, <2>1
  <2>2. CASE x # r
    BY <1>4, <2>2 DEF WaitingClient, CopyInv, InFlight
  <2> QED
    BY <2>1, <2>2
<1> QED
  BY <1>5, <1>6, <1>7, <1>8, <1>9 DEF WaitingClient

LEMMA ClientKeepsWaiting ==
    ASSUME TypeInv, WaitingClient, ~client.leaves,
           Receive \/ ReceiveError \/ Abandon \/ GiveUp
    PROVE  WaitingClient'
<1>1. /\ UNCHANGED <<thread, run, backend, client, crashes>>
      /\ asked' \in {asked, None} /\ waiting' = None
  BY ClientStep
<1>2. \A x \in Requests : run[x].st \notin InFlight
  BY SentinelAssumption DEF Receive, ReceiveError, Abandon, GiveUp, WaitingClient,
     OneRun, InFlight, Requests
<1>3. OneRun' /\ WaitInv' /\ CopyInv'
  BY <1>1, <1>2 DEF WaitingClient, OneRun, WaitInv, CopyInv, InFlight, Requests
<1>4. FreshInv'
  <2> SUFFICES ASSUME NEW x \in Requests, run[x].st = "idle"
               PROVE  asked' # x /\ ~Contains(transcript', User(x))
    BY <1>1 DEF WaitingClient, FreshInv, Requests, Stores
  <2>1. asked # x /\ ~Contains(transcript, User(x)) /\ None # x
    BY SentinelAssumption DEF WaitingClient, FreshInv, Requests
  <2>2. CASE ReceiveError \/ Abandon \/ GiveUp
    BY <1>1, <2>1, <2>2 DEF ReceiveError, Abandon, GiveUp
  <2>3. CASE Receive
    <3> DEFINE a == run[waiting].reply
               t == <<User(asked), a>>
    <3>1. waiting # None /\ run[waiting].st = "answered" /\ transcript' = transcript \o t
      BY <2>3 DEF Receive
    <3>2. waiting \in Requests /\ asked \in Question /\ a \in Message /\ a.role # "user"
      BY <3>1 DEF TypeInv, TypeOK, RunInv
    <3> HIDE DEF a
    <3>3. transcript \in Seq(Message) /\ t \in Seq(Message) /\ x \in Question
      BY <3>2, MessageFacts DEF TypeInv, TypeOK, Question
    <3>4. User(x) # User(asked) /\ User(x) # a
      BY <2>1, <3>2, <3>3, SameUser
    <3>5. ~Contains(t, User(x))
      <4>1. Len(t) = 2 /\ t[1] = User(asked) /\ t[2] = a
        OBVIOUS
      <4>2. \A i \in 1..2 : i = 1 \/ i = 2
        OBVIOUS
      <4> HIDE DEF t
      <4> QED
        BY <3>4, <4>1, <4>2 DEF Contains
    <3> HIDE DEF t
    <3> QED
      BY <1>1, <2>1, <3>1, <3>3, <3>5, ContainsConcat
  <2> QED
    BY <2>2, <2>3
<1>5. LastInv'
  BY <1>1 DEF WaitingClient, LastInv, AskedLast, Stores
<1> QED
  BY <1>3, <1>4, <1>5 DEF WaitingClient

\* A step of the server's run of r.
LEMMA RunKeepsWaiting ==
    ASSUME TypeInv, WaitingClient, NEW r \in Requests, NEW q, Becomes(r, q),
           run[r].st \in InFlight, q.st # "idle", q.incoming = run[r].incoming,
           UNCHANGED <<backend, client, transcript, asked, waiting>>
    PROVE  /\ OneRun' /\ WaitInv'
           /\ \A x \in Requests : run'[x].st = "idle" => x # r /\ run[x].st = "idle"
           /\ \A x \in Requests : x # r => run'[x] = run[x] /\ run[x].st \notin InFlight
<1>1. waiting = r /\ \A x \in Requests : x # r => run[x].st \notin InFlight
  BY RunInFlight
<1>2. run'[r] = q /\ \A x \in Requests : x # r => run'[x] = run[x]
  BY DEF Becomes
<1>3. OneRun'
  BY <1>1, <1>2 DEF OneRun, Requests
<1>4. WaitInv'
  BY <1>1, <1>2 DEF WaitingClient, WaitInv, Payload
<1> QED
  BY <1>1, <1>2, <1>3, <1>4

LEMMA ReadKeepsWaiting ==
    ASSUME TypeInv, WaitingClient, NEW r \in Requests, ReadState(r)
    PROVE  WaitingClient'
<1>1. /\ run[r].st = "sent"
      /\ UNCHANGED <<thread, backend, client, transcript, asked, waiting, crashes>>
  BY ReadStep
<1>2. PICK q \in RunRecord :
        /\ Becomes(r, q) /\ q.at = run[r].at /\ q.incoming = run[r].incoming
        /\ q.messages = run[r].messages
        /\ \/ q.st = "answered"
           \/ q.st = "read" /\ q.delta = Delta(Saved(r), Normalized(run[r].incoming))
  BY ReadStep
<1>3. /\ OneRun' /\ WaitInv'
      /\ \A x \in Requests : run'[x].st = "idle" => x # r /\ run[x].st = "idle"
      /\ \A x \in Requests : x # r => run'[x] = run[x] /\ run[x].st \notin InFlight
  BY <1>1, <1>2, RunKeepsWaiting DEF InFlight
<1>4. FreshInv'
  BY <1>1, <1>3 DEF WaitingClient, FreshInv, Requests, Stores
<1>5. LastInv'
  BY <1>1 DEF WaitingClient, LastInv, AskedLast, Stores
<1>6. CopyInv'
  <2> SUFFICES ASSUME NEW x \in Requests
               PROVE  /\ run'[x].st \in {"sent", "read"} => run'[x].messages = <<>>
                      /\ run'[x].st = "read" =>
                           run'[x].delta = Delta(Saved(x)', Normalized(run'[x].incoming))
                      /\ run'[x].st # "running"
                      /\ run'[x].st = "answered" /\ run'[x].messages # <<>>
                           => run'[x].reply.about = Last(run'[x].incoming).about
    BY DEF CopyInv, Requests
  <2>1. CASE x = r
    <3>1. run'[r] = q /\ Saved(r)' = Saved(r) /\ run[r].messages = <<>>
      BY <1>1, <1>2 DEF Becomes, Saved, Home, WaitingClient, CopyInv
    <3> QED
      BY <1>2, <2>1, <3>1
  <2>2. CASE x # r
    BY <1>3, <2>2 DEF WaitingClient, CopyInv, InFlight
  <2> QED
    BY <2>1, <2>2
<1> QED
  BY <1>3, <1>4, <1>5, <1>6 DEF WaitingClient

LEMMA StartKeepsWaiting ==
    ASSUME TypeInv, WaitingClient, NEW r \in Requests, StartRun(r)
    PROVE  WaitingClient'
<1> DEFINE m == Saved(r) \o run[r].delta
<1>1. /\ run[r].st = "read" /\ m \in Seq(Message) /\ Save(r, m)
      /\ UNCHANGED <<backend, client, transcript, asked, waiting, crashes>>
  BY StartStep
<1>2. PICK q \in RunRecord :
        /\ Becomes(r, q) /\ q.at = run[r].at /\ q.incoming = run[r].incoming
        /\ q.st = "running" /\ q.messages = m
  BY StartStep
<1>3. /\ OneRun' /\ WaitInv'
      /\ \A x \in Requests : run'[x].st = "idle" => x # r /\ run[x].st = "idle"
      /\ \A x \in Requests : x # r => run'[x] = run[x] /\ run[x].st \notin InFlight
  BY <1>1, <1>2, RunKeepsWaiting DEF InFlight
<1>4. /\ Contains(m, User(asked)) /\ LastOf(m, "user") = User(asked)
      /\ \A x \in Requests : run[x].st = "idle" => ~Contains(m, User(x))
  BY <1>1, Merged
<1> HIDE DEF m
<1>5. /\ thread'[Home(run[r].at)] = m
      /\ \A s \in Stores : s # Home(run[r].at) => thread'[s] = thread[s]
  BY <1>1, SaveFacts
<1>6. FreshInv'
  <2> SUFFICES ASSUME NEW x \in Requests, run'[x].st = "idle"
               PROVE  /\ asked' # x /\ ~Contains(transcript', User(x))
                      /\ \A s \in Stores : ~Contains(thread'[s], User(x))
    BY DEF FreshInv, Requests, Stores
  <2>1. run[x].st = "idle" /\ ~Contains(m, User(x))
    BY <1>3, <1>4
  <2> QED
    BY <1>1, <1>5, <2>1 DEF WaitingClient, FreshInv
<1>7. LastInv'
  <2> SUFFICES ASSUME asked # None, NEW s \in Stores PROVE AskedLast(thread[s])'
    BY <1>1 DEF LastInv, Stores
  <2> QED
    BY <1>1, <1>4, <1>5 DEF WaitingClient, LastInv, AskedLast
<1>8. CopyInv'
  <2> SUFFICES ASSUME NEW x \in Requests
               PROVE  /\ run'[x].st \notin {"sent", "read"}
                      /\ run'[x].st = "running" => /\ run'[x].messages = Saved(x)'
                                                   /\ Contains(run'[x].messages, User(asked'))
                      /\ run'[x].st = "answered" /\ run'[x].messages # <<>>
                           => run'[x].reply.about = Last(run'[x].incoming).about
    BY DEF CopyInv, Requests
  <2>1. CASE x = r
    <3>1. run'[r] = q /\ Saved(r)' = m
      BY <1>1, <1>2, <1>5 DEF Becomes, Saved, Home
    <3> QED
      BY <1>1, <1>2, <1>4, <2>1, <3>1
  <2>2. CASE x # r
    BY <1>3, <2>2 DEF WaitingClient, CopyInv, InFlight
  <2> QED
    BY <2>1, <2>2
<1> QED
  BY <1>3, <1>6, <1>7, <1>8 DEF WaitingClient

LEMMA AnswerKeepsWaiting ==
    ASSUME TypeInv, WaitingClient, NEW r \in Requests, Answer(r)
    PROVE  WaitingClient'
<1> DEFINE h == run[r].messages
<1>1. run[r].st = "running"
  BY DEF Answer
<1>2. /\ h = Saved(r) /\ h \in Seq(Message) /\ LastOf(h, "user") = User(asked)
      /\ LastOf(h, "user").about = asked /\ Contains(h, User(asked))
  BY <1>1, AnswersAsked
<1>3. HasUser(h) /\ UNCHANGED <<backend, client, transcript, asked, waiting, crashes>>
  BY <1>2, AnswerStep
<1>4. PICK a \in Answers(asked) :
        /\ Append(h, a) \in Seq(Message) /\ Save(r, Append(h, a))
        /\ \E q \in RunRecord :
             /\ Becomes(r, q) /\ q.at = run[r].at /\ q.incoming = run[r].incoming
             /\ q.st = "answered" /\ q.reply = a /\ q.messages = h
  BY <1>2, AnswerStep
<1>5. PICK q \in RunRecord :
        /\ Becomes(r, q) /\ q.at = run[r].at /\ q.incoming = run[r].incoming
        /\ q.st = "answered" /\ q.reply = a /\ q.messages = h
  BY <1>4
<1>6. /\ OneRun' /\ WaitInv'
      /\ \A x \in Requests : run'[x].st = "idle" => x # r /\ run[x].st = "idle"
      /\ \A x \in Requests : x # r => run'[x] = run[x] /\ run[x].st \notin InFlight
  BY <1>1, <1>3, <1>5, RunKeepsWaiting DEF InFlight
<1>7. asked \in Question /\ asked # None /\ Last(run[r].incoming) = User(asked)
  BY <1>1, RunInFlight DEF InFlight
<1>8. a \in Message /\ a.role # "user" /\ a.about = asked
  BY <1>7, AnswerFacts
<1> DEFINE m == Append(h, a)
<1>9. m \in Seq(Message) /\ Save(r, m)
  BY <1>4
<1> HIDE DEF h
<1>10. LastOf(m, "user") = User(asked)
  BY <1>2, <1>3, <1>8, LastOfAppend DEF HasUser
<1>11. \A e : Contains(m, e) <=> Contains(h, e) \/ a = e
  BY <1>2, <1>8, ContainsAppend
<1> HIDE DEF m
<1>12. /\ thread'[Home(run[r].at)] = m
       /\ \A s \in Stores : s # Home(run[r].at) => thread'[s] = thread[s]
       /\ h = thread[Home(run[r].at)] /\ Home(run[r].at) \in Stores
  BY <1>1, <1>2, <1>9, SaveFacts, SavedFacts
<1>13. FreshInv'
  <2> SUFFICES ASSUME NEW x \in Requests, run'[x].st = "idle"
               PROVE  /\ asked' # x /\ ~Contains(transcript', User(x))
                      /\ \A s \in Stores : ~Contains(thread'[s], User(x))
    BY DEF FreshInv, Requests, Stores
  <2>1. run[x].st = "idle" /\ ~Contains(h, User(x))
    BY <1>6, <1>12 DEF WaitingClient, FreshInv
  <2>2. User(x) # a
    BY <1>8, MessageFacts DEF Question
  <2> QED
    BY <1>3, <1>11, <1>12, <2>1, <2>2 DEF WaitingClient, FreshInv
<1>14. LastInv'
  <2> SUFFICES ASSUME asked # None, NEW s \in Stores PROVE AskedLast(thread[s])'
    BY <1>3 DEF LastInv, Stores
  <2> QED
    BY <1>3, <1>10, <1>12 DEF WaitingClient, LastInv, AskedLast
<1>15. CopyInv'
  <2> SUFFICES ASSUME NEW x \in Requests
               PROVE  /\ run'[x].st \notin InFlight
                      /\ run'[x].st = "answered" /\ run'[x].messages # <<>>
                           => run'[x].reply.about = Last(run'[x].incoming).about
    BY DEF CopyInv, Requests, InFlight
  <2>1. CASE x = r
    BY <1>5, <1>7, <1>8, <2>1, MessageFacts DEF Becomes, InFlight
  <2>2. CASE x # r
    BY <1>6, <2>2 DEF WaitingClient, CopyInv
  <2> QED
    BY <2>1, <2>2
<1> QED
  BY <1>6, <1>13, <1>14, <1>15 DEF WaitingClient

LEMMA FailKeepsWaiting ==
    ASSUME TypeInv, WaitingClient, NEW r \in Requests, Fail(r) \/ NoState(r)
    PROVE  WaitingClient'
<1>1. /\ run[r].st \in {"sent", "running"}
      /\ UNCHANGED <<thread, backend, client, transcript, asked, waiting, crashes>>
  BY FailStep
<1>2. PICK q \in RunRecord :
        /\ Becomes(r, q) /\ q.at = run[r].at /\ q.incoming = run[r].incoming
        /\ q.st = "failed"
  BY FailStep
<1>3. /\ OneRun' /\ WaitInv'
      /\ \A x \in Requests : run'[x].st = "idle" => x # r /\ run[x].st = "idle"
      /\ \A x \in Requests : x # r => run'[x] = run[x] /\ run[x].st \notin InFlight
  BY <1>1, <1>2, RunKeepsWaiting DEF InFlight
<1>4. FreshInv'
  BY <1>1, <1>3 DEF WaitingClient, FreshInv, Requests, Stores
<1>5. LastInv'
  BY <1>1 DEF WaitingClient, LastInv, AskedLast, Stores
<1>6. CopyInv'
  <2> SUFFICES ASSUME NEW x \in Requests
               PROVE  /\ run'[x].st \notin InFlight
                      /\ run'[x].st = "answered" /\ run'[x].messages # <<>>
                           => run'[x].reply.about = Last(run'[x].incoming).about
    BY DEF CopyInv, Requests, InFlight
  <2>1. CASE x = r
    BY <1>2, <2>1 DEF Becomes, InFlight
  <2>2. CASE x # r
    BY <1>3, <2>2 DEF WaitingClient, CopyInv
  <2> QED
    BY <2>1, <2>2
<1> QED
  BY <1>3, <1>4, <1>5, <1>6 DEF WaitingClient

LEMMA CrashKeepsWaiting ==
    ASSUME TypeInv, WaitingClient, NEW w \in Workers, Crash(w)
    PROVE  WaitingClient'
<1>1. /\ UNCHANGED <<backend, client, transcript, asked, waiting>>
      /\ thread' \in [Stores -> Seq(Message)] /\ thread'[w] = <<>>
      /\ \A s \in Stores : s # w => thread'[s] = thread[s]
      /\ \A r \in Requests :
           /\ run'[r] = run[r] \/ (run'[r].st = "failed" /\ run[r].st # "idle")
           /\ run'[r].incoming = run[r].incoming
           /\ run[r].at = w /\ run[r].st \in {"sent", "read", "running"}
                => run'[r].st = "failed"
  BY CrashStep
<1>2. \A e : ~Contains(<<>>, e)
  BY EmptySeq DEF Contains
<1>3. OneRun'
  BY <1>1 DEF WaitingClient, OneRun, InFlight, Requests
<1>4. WaitInv'
  BY <1>1 DEF WaitingClient, WaitInv, Payload, TypeInv, TypeOK
<1>5. FreshInv'
  <2> SUFFICES ASSUME NEW x \in Requests, run'[x].st = "idle"
               PROVE  /\ asked' # x /\ ~Contains(transcript', User(x))
                      /\ \A s \in Stores : ~Contains(thread'[s], User(x))
    BY DEF FreshInv, Requests, Stores
  <2>1. run[x].st = "idle"
    BY <1>1
  <2> QED
    BY <1>1, <1>2, <2>1 DEF WaitingClient, FreshInv
<1>6. LastInv'
  <2> SUFFICES ASSUME asked # None, NEW s \in Stores PROVE AskedLast(thread[s])'
    BY <1>1 DEF LastInv, Stores
  <2> QED
    BY <1>1, <1>2 DEF WaitingClient, LastInv, AskedLast
<1>7. CopyInv'
  <2> SUFFICES ASSUME NEW x \in Requests, run'[x] = run[x]
               PROVE  /\ run[x].st \in {"sent", "read"} => run[x].messages = <<>>
                      /\ run[x].st = "read" =>
                           run[x].delta = Delta(Saved(x)', Normalized(run[x].incoming))
                      /\ run[x].st = "running" => /\ run[x].messages = Saved(x)'
                                                  /\ Contains(run[x].messages, User(asked))
                      /\ run[x].st = "answered" /\ run[x].messages # <<>>
                           => run[x].reply.about = Last(run[x].incoming).about
    BY <1>1 DEF CopyInv, Requests
  <2>1. ASSUME run[x].st \in {"read", "running"} PROVE Saved(x)' = Saved(x)
    <3>1. run[x].at # w /\ Home(run[x].at) \in Stores
      BY <1>1, <2>1, SavedFacts
    <3>2. Home(run[x].at) # w
      BY <3>1, SentinelAssumption DEF Home
    <3> QED
      BY <1>1, <3>1, <3>2 DEF Saved, Home
  <2> QED
    BY <2>1 DEF WaitingClient, CopyInv
<1> QED
  BY <1>3, <1>4, <1>5, <1>6, <1>7 DEF WaitingClient

\* Whether the client waits is its setup.
LEMMA SetupStays ==
    ASSUME TypeInv, [Next]_vars
    PROVE  client' = client /\ backend' = backend
  BY DEF Next, Client, Serve, Ask, Retry, Submit, Receive, ReceiveError, Abandon, GiveUp,
     ReadState, NoState, StartRun, Answer, Fail, Crash, vars, setup

LEMMA SerialInit == Init => SerialInv
<1> SUFFICES ASSUME Init PROVE WaitingClient
  BY DEF SerialInv
<1>1. \A r \in Requests : run[r].st = "idle" /\ r # None
  BY SentinelAssumption DEF Init, Idle, Requests
<1>2. \A e : ~Contains(<<>>, e)
  BY EmptySeq DEF Contains
<1> QED
  BY <1>1, <1>2 DEF Init, WaitingClient, OneRun, WaitInv, FreshInv, LastInv, CopyInv,
     InFlight

LEMMA SerialNext == TypeInv /\ SerialInv /\ [Next]_vars => SerialInv'
<1> SUFFICES ASSUME TypeInv, WaitingClient, ~client.leaves, [Next]_vars
             PROVE  WaitingClient'
  BY SetupStays DEF SerialInv
<1>1. CASE UNCHANGED vars
  BY <1>1 DEF vars, setup, clientVars, WaitingClient, OneRun, WaitInv, FreshInv, LastInv,
     CopyInv, AskedLast, Payload, Saved, Home, Requests, Stores
<1>2. CASE Client
  BY <1>2, SubmitKeepsWaiting, ClientKeepsWaiting DEF Client
<1>3. ASSUME NEW r \in Requests, Serve(r) PROVE WaitingClient'
  BY <1>3, ReadKeepsWaiting, StartKeepsWaiting, AnswerKeepsWaiting, FailKeepsWaiting
     DEF Serve
<1>4. ASSUME NEW w \in Workers, Crash(w) PROVE WaitingClient'
  BY <1>4, CrashKeepsWaiting
<1> QED
  BY <1>1, <1>2, <1>3, <1>4 DEF Next

LEMMA SerialAlways == Spec => [](TypeInv /\ SerialInv)
  BY TypeInit, TypeNext, SerialInit, SerialNext, PTL DEF Spec

\* A client that waits is answered the question of its request, by every call of
\* the LLM, on every backend, whatever failed or died before.
THEOREM CallAnswersQuestionCorrect == Spec => []CallAnswersQuestion
<1>1. SerialInv => CallAnswersQuestion
  BY DEF SerialInv, WaitingClient, CopyInv, CallAnswersQuestion
<1> QED
  BY <1>1, SerialAlways, PTL

(***************************************************************************)
(* The shared store.                                                       *)
(***************************************************************************)

LEMMA PrefixOfConcat ==
    ASSUME NEW s \in Seq(Message), NEW t \in Seq(Message)
    PROVE  IsPrefix(s, s \o t)
<1>1. /\ s \o t \in Seq(Message) /\ Len(s \o t) = Len(s) + Len(t)
      /\ Len(s) \in Nat /\ Len(t) \in Nat
      /\ \A i \in 1..Len(s) : (s \o t)[i] = s[i]
  BY ConcatProperties, LenProperties
<1>2. SubSeq(s, 1, Len(s)) = s
  BY SubSeqFull
<1> DEFINE u == s \o t
<1> HIDE DEF u
<1>3. /\ SubSeq(u, 1, Len(s)) \in Seq(Message) /\ Len(SubSeq(u, 1, Len(s))) = Len(s)
      /\ \A i \in 1..Len(s) : SubSeq(u, 1, Len(s))[i] = u[i]
  <2>1. u \in Seq(Message) /\ Len(s) <= Len(u) /\ Len(u) \in Nat
    BY <1>1 DEF u
  <2>2. \A i \in 1..Len(s) : u[i] \in Message
    BY <1>1, <2>1, ElementOfSeq
  <2>3. /\ SubSeq(u, 1, Len(s)) \in Seq(Message)
        /\ Len(SubSeq(u, 1, Len(s))) = IF 1 <= Len(s) THEN Len(s) - 1 + 1 ELSE 0
        /\ \A i \in 1..(Len(s) - 1 + 1) : SubSeq(u, 1, Len(s))[i] = u[1 + i - 1]
    BY <1>1, <2>2, SubSeqProperties
  <2> QED
    BY <1>1, <2>3
<1>4. SubSeq(u, 1, Len(s)) = s
  BY <1>1, <1>3, SeqEqual DEF u
<1> QED
  BY <1>1, <1>2, <1>4 DEF IsPrefix, u

\* How a step of a waiting client's conversation changes the shared store.
SharedStep ==
    \/ UNCHANGED thread[Shared]
    \/ \E r \in Requests : StartRun(r) /\ Home(run[r].at) = Shared
                           /\ thread'[Shared] = thread[Shared] \o run[r].delta
    \/ \E r \in Requests : Answer(r) /\ Home(run[r].at) = Shared
         /\ \E a \in Answers(asked) : thread'[Shared] = Append(thread[Shared], a)

LEMMA StoreGrows ==
    ASSUME TypeInv, WaitingClient, ~client.leaves, [Next]_vars
    PROVE  SharedStep
<1>0. Shared \in Stores
  BY DEF Stores
<1>1. ASSUME NEW r \in Requests, StartRun(r) PROVE SharedStep
  <2>1. run[r].st # "idle" /\ Saved(r) \o run[r].delta \in Seq(Message)
        /\ Save(r, Saved(r) \o run[r].delta)
    BY <1>1, StartStep
  <2>2. /\ thread'[Home(run[r].at)] = Saved(r) \o run[r].delta
        /\ \A s \in Stores : s # Home(run[r].at) => thread'[s] = thread[s]
        /\ Saved(r) = thread[Home(run[r].at)]
    BY <2>1, SaveFacts, SavedFacts
  <2>3. CASE Home(run[r].at) = Shared
    BY <1>1, <2>2, <2>3 DEF SharedStep
  <2>4. CASE Home(run[r].at) # Shared
    BY <1>0, <2>2, <2>4 DEF SharedStep
  <2> QED
    BY <2>3, <2>4
<1>2. ASSUME NEW r \in Requests, Answer(r) PROVE SharedStep
  <2>1. run[r].st = "running"
    BY <1>2 DEF Answer
  <2>2. run[r].messages = Saved(r) /\ LastOf(run[r].messages, "user").about = asked
    BY <2>1, AnswersAsked
  <2>3. PICK a \in Answers(asked) :
          Append(run[r].messages, a) \in Seq(Message) /\ Save(r, Append(run[r].messages, a))
    BY <1>2, <2>2, AnswerStep
  <2> DEFINE m == Append(run[r].messages, a)
  <2>4. /\ thread'[Home(run[r].at)] = m
        /\ \A s \in Stores : s # Home(run[r].at) => thread'[s] = thread[s]
        /\ Saved(r) = thread[Home(run[r].at)]
    BY <2>1, <2>3, SaveFacts, SavedFacts
  <2>5. CASE Home(run[r].at) = Shared
    BY <1>2, <2>2, <2>4, <2>5 DEF SharedStep
  <2>6. CASE Home(run[r].at) # Shared
    BY <1>0, <2>4, <2>6 DEF SharedStep
  <2> QED
    BY <2>5, <2>6
<1>3. ASSUME NEW w \in Workers, Crash(w) PROVE SharedStep
  BY <1>0, <1>3, CrashStep, SentinelAssumption DEF SharedStep
<1>4. CASE UNCHANGED vars
  BY <1>4 DEF vars, SharedStep
<1>5. CASE Client
  BY <1>5 DEF Client, Ask, Retry, Submit, Receive, ReceiveError, Abandon, GiveUp, SharedStep
<1>6. ASSUME NEW r \in Requests, ReadState(r) \/ NoState(r) \/ Fail(r) PROVE SharedStep
  BY <1>6 DEF ReadState, NoState, Fail, SharedStep
<1> QED
  BY <1>1, <1>2, <1>3, <1>4, <1>5, <1>6 DEF Next, Serve

\* What a client that waits has in the shared store is never lost or rewritten.
THEOREM HistoryGrowsCorrect == Spec => HistoryGrows
<1>1. TypeInv /\ SerialInv /\ [Next]_vars
        => [~client.leaves => IsPrefix(thread[Shared], thread[Shared]')]_vars
  <2> SUFFICES ASSUME TypeInv, WaitingClient, ~client.leaves, [Next]_vars
               PROVE  IsPrefix(thread[Shared], thread[Shared]')
    BY DEF SerialInv
  <2>1. thread[Shared] \in Seq(Message)
    BY DEF TypeInv, TypeOK, Stores
  <2>2. SharedStep
    BY StoreGrows
  <2>3. CASE UNCHANGED thread[Shared]
    BY <2>1, <2>3, LenProperties DEF IsPrefix
  <2>4. ASSUME NEW r \in Requests, thread'[Shared] = thread[Shared] \o run[r].delta
        PROVE  IsPrefix(thread[Shared], thread[Shared]')
    BY <2>1, <2>4, RunTypes, PrefixOfConcat DEF TypeInv
  <2>5. ASSUME NEW r \in Requests, Answer(r), NEW a \in Answers(asked),
               thread'[Shared] = Append(thread[Shared], a)
        PROVE  IsPrefix(thread[Shared], thread[Shared]')
    <3>1. asked \in Question
      BY <2>5, RunInFlight DEF Answer, InFlight
    <3>2. <<a>> \in Seq(Message) /\ a \in Message
      BY <3>1, AnswerFacts
    <3>3. thread'[Shared] = thread[Shared] \o <<a>>
      BY <2>1, <2>5, <3>2, AppendIsConcat
    <3> QED
      BY <2>1, <3>2, <3>3, PrefixOfConcat
  <2> QED
    BY <2>2, <2>3, <2>4, <2>5 DEF SharedStep
<1> QED
  BY <1>1, SerialAlways, PTL DEF Spec, HistoryGrows

(***************************************************************************)
(* The chat goes on.  With a store that all workers share, what the client *)
(* has seen is in it, and so is the answer it is about to see.             *)
(***************************************************************************)

Answered == waiting # None /\ run[waiting].st = "answered"

Seen ==
    /\ ToSet(transcript) \subseteq ToSet(thread[Shared])
    /\ Answered => /\ User(asked) \in ToSet(thread[Shared])
                   /\ run[waiting].reply \in ToSet(thread[Shared])

SeenInv == ~client.leaves /\ backend # "memory" => Seen

LEMMA HomeShared ==
    ASSUME TypeInv, backend # "memory", NEW r \in Requests
    PROVE  Home(run[r].at) = Shared /\ Saved(r) = thread[Shared]
           /\ Saved(r) \in Seq(Message)
  BY DEF Home, Saved, TypeInv, TypeOK, Stores

LEMMA NothingLost ==
    ASSUME TypeInv, WaitingClient, ~client.leaves, [Next]_vars
    PROVE  ToSet(thread[Shared]) \subseteq ToSet(thread'[Shared])
<1>1. thread[Shared] \in Seq(Message)
  BY DEF TypeInv, TypeOK, Stores
<1>2. SharedStep
  BY StoreGrows
<1>3. CASE UNCHANGED thread[Shared]
  BY <1>3
<1>4. ASSUME NEW r \in Requests, thread'[Shared] = thread[Shared] \o run[r].delta
      PROVE  ToSet(thread[Shared]) \subseteq ToSet(thread'[Shared])
  <2>1. run[r].delta \in Seq(Message)
    BY RunTypes DEF TypeInv
  <2>2. thread[Shared] \o run[r].delta \in Seq(Message)
    BY <1>1, <2>1, ConcatProperties
  <2>3. \A e : Contains(thread[Shared], e) => Contains(thread[Shared] \o run[r].delta, e)
    BY <1>1, <2>1, ContainsConcat
  <2> QED
    BY <1>1, <1>4, <2>2, <2>3, ToSetContains
<1>5. ASSUME NEW r \in Requests, Answer(r), NEW a \in Answers(asked),
             thread'[Shared] = Append(thread[Shared], a)
      PROVE  ToSet(thread[Shared]) \subseteq ToSet(thread'[Shared])
  <2>1. a \in Message
    BY <1>5, RunInFlight, AnswerFacts DEF Answer, InFlight
  <2>2. Append(thread[Shared], a) \in Seq(Message)
    BY <1>1, <2>1, AppendProperties
  <2>3. \A e : Contains(thread[Shared], e) => Contains(Append(thread[Shared], a), e)
    BY <1>1, <2>1, ContainsAppend
  <2> QED
    BY <1>1, <1>5, <2>2, <2>3, ToSetContains
<1> QED
  BY <1>2, <1>3, <1>4, <1>5 DEF SharedStep

\* An answer that was read from the history is in it, and so is the question.
LEMMA ReusedSeen ==
    ASSUME TypeInv, WaitingClient, NEW r \in Requests, run[r].st = "sent",
           Delta(Saved(r), Normalized(run[r].incoming)) = <<>>, Of(Saved(r), "ai") # {}
    PROVE  /\ Contains(Saved(r), User(asked))
           /\ Contains(Saved(r), LastOf(Saved(r), "ai"))
<1> DEFINE t == Normalized(run[r].incoming)
<1>1. Saved(r) \in Seq(Message) /\ t \in Seq(Message) /\ t # <<>>
      /\ Last(t) = Last(run[r].incoming)
  BY SavedFacts
<1>2. Last(run[r].incoming) = User(asked)
  BY RunInFlight DEF InFlight
<1>3. \E i \in 1..Len(Saved(r)) : Saved(r)[i] = t[Len(t)]
  BY <1>1, NothingNew
<1> HIDE DEF t
<1>4. Contains(Saved(r), User(asked))
  BY <1>1, <1>2, <1>3 DEF Contains, Last
<1>5. \E i \in 1..Len(Saved(r)) : LastOf(Saved(r), "ai") = Saved(r)[i]
  BY <1>1, LastOfExists
<1> QED
  BY <1>4, <1>5 DEF Contains

LEMMA SeenInit == Init => SeenInv
<1>1. Init => transcript = <<>> /\ waiting = None
  BY DEF Init
<1>2. ToSet(<<>>) = {}
  BY EmptySeq DEF ToSet
<1> QED
  BY <1>1, <1>2 DEF SeenInv, Seen, Answered

LEMMA SeenNext == TypeInv /\ SerialInv /\ SeenInv /\ [Next]_vars => SeenInv'
<1> SUFFICES ASSUME TypeInv, WaitingClient, Seen, ~client.leaves, backend # "memory",
                    [Next]_vars
             PROVE  Seen'
  BY SetupStays DEF SerialInv, SeenInv
<1>1. ToSet(thread[Shared]) \subseteq ToSet(thread'[Shared])
  BY NothingLost
<1>2. thread[Shared] \in Seq(Message) /\ transcript \in Seq(Message)
  BY DEF TypeInv, TypeOK, Stores
\* A step that shows the client nothing and leaves it nothing more to see.
<1>3. ASSUME transcript' = transcript, ~Answered' PROVE Seen'
  BY <1>1, <1>3 DEF Seen
<1>4. ASSUME NEW r \in Requests, Ask(r) \/ Retry(r) PROVE Seen'
  <2>1. PICK q \in Question : Submit(r, q)
    BY <1>4, AskStep
  <2>2. waiting' = r /\ transcript' = transcript
    BY <2>1, SubmitStep
  <2>3. run'[r].st = "sent"
    BY <2>1, SubmitStep DEF Becomes
  <2> QED
    BY <1>3, <2>2, <2>3 DEF Answered
<1>5. CASE ReceiveError \/ Abandon \/ GiveUp
  <2>1. waiting' = None /\ transcript' = transcript
    BY <1>5, ClientStep DEF ReceiveError, Abandon, GiveUp
  <2> QED
    BY <1>3, <2>1 DEF Answered
<1>6. CASE Receive
  <2> DEFINE t == <<User(asked), run[waiting].reply>>
  <2>1. Answered /\ transcript' = transcript \o t /\ waiting' = None
        /\ thread'[Shared] = thread[Shared]
    BY <1>6 DEF Receive, Answered
  <2>2. waiting \in Requests /\ asked \in Question /\ run[waiting].reply \in Message
    BY <2>1 DEF Answered, TypeInv, TypeOK, RunInv
  <2>3. t \in Seq(Message) /\ Len(t) = 2
        /\ t[1] = User(asked) /\ t[2] = run[waiting].reply
    BY <2>2, MessageFacts
  <2>4. \A i \in 1..2 : i = 1 \/ i = 2
    OBVIOUS
  <2>5. ASSUME NEW e, Contains(t, e) PROVE e \in ToSet(thread[Shared])
    <3> HIDE DEF t
    <3>1. e = User(asked) \/ e = run[waiting].reply
      BY <2>3, <2>4, <2>5 DEF Contains
    <3> QED
      BY <2>1, <3>1 DEF Seen
  <2> HIDE DEF t
  <2>6. transcript \o t \in Seq(Message)
    BY <1>2, <2>3, ConcatProperties
  <2>7. ASSUME NEW e \in ToSet(transcript \o t) PROVE e \in ToSet(thread[Shared])
    <3>1. Contains(transcript, e) \/ Contains(t, e)
      BY <1>2, <2>3, <2>6, <2>7, ToSetContains, ContainsConcat
    <3> QED
      BY <1>2, <2>5, <3>1, ToSetContains DEF Seen
  <2> QED
    BY <2>1, <2>7 DEF Seen, Answered
<1>7. ASSUME NEW r \in Requests, ReadState(r) PROVE Seen'
  <2>1. /\ run[r].st = "sent"
        /\ UNCHANGED <<thread, transcript, asked, waiting>>
    BY <1>7, ReadStep
  <2>2. PICK q \in RunRecord :
          /\ Becomes(r, q)
          /\ \/ /\ q.st = "answered" /\ Delta(Saved(r), Normalized(run[r].incoming)) = <<>>
                /\ Of(Saved(r), "ai") # {}
                /\ q.reply = LastOf(Saved(r), "ai")
             \/ q.st = "read"
    BY <1>7, ReadStep
  <2>3. waiting = r /\ run'[r] = q
    BY <2>1, <2>2, RunInFlight DEF InFlight, Becomes
  <2>4. CASE q.st = "read"
    BY <1>3, <2>1, <2>3, <2>4 DEF Answered
  <2>5. CASE q.st # "read"
    <3>1. Contains(thread[Shared], User(asked)) /\ Contains(thread[Shared], q.reply)
      BY <2>1, <2>2, <2>5, ReusedSeen, HomeShared
    <3>2. User(asked) \in ToSet(thread[Shared]) /\ q.reply \in ToSet(thread[Shared])
      BY <1>2, <3>1, ToSetContains
    <3> QED
      BY <2>1, <2>3, <3>2 DEF Seen
  <2> QED
    BY <2>4, <2>5
<1>8. ASSUME NEW r \in Requests, StartRun(r) PROVE Seen'
  <2>1. run[r].st = "read" /\ UNCHANGED <<transcript, waiting>>
    BY <1>8, StartStep
  <2>2. run'[r].st = "running" /\ waiting = r
    BY <1>8, <2>1, StartStep, RunInFlight DEF Becomes, InFlight
  <2> QED
    BY <1>3, <2>1, <2>2 DEF Answered
<1>9. ASSUME NEW r \in Requests, Answer(r) PROVE Seen'
  <2> DEFINE h == run[r].messages
  <2>1. run[r].st = "running" /\ h \in Seq(Message) /\ Contains(h, User(asked))
        /\ LastOf(h, "user").about = asked
    BY <1>9, AnswersAsked DEF Answer
  <2>2. PICK a \in Answers(asked) :
          /\ Append(h, a) \in Seq(Message) /\ Save(r, Append(h, a))
          /\ \E q \in RunRecord : Becomes(r, q) /\ q.st = "answered" /\ q.reply = a
    BY <1>9, <2>1, AnswerStep
  <2>3. /\ UNCHANGED <<transcript, waiting, asked>>
        /\ run'[r].st = "answered" /\ run'[r].reply = a
    BY <1>9, <2>2, AnswerStep DEF Becomes
  <2>4. waiting = r /\ a \in Message
    BY <2>1, RunInFlight, AnswerFacts DEF InFlight
  <2> DEFINE m == Append(h, a)
  <2>5. m \in Seq(Message) /\ thread'[Shared] = m
    BY <2>1, <2>2, SaveFacts, HomeShared
  <2>6. Contains(m, User(asked)) /\ Contains(m, a)
    BY <2>1, <2>4, ContainsAppend
  <2> HIDE DEF m
  <2>7. User(asked) \in ToSet(m) /\ a \in ToSet(m)
    BY <2>5, <2>6, ToSetContains
  <2> QED
    BY <1>1, <2>3, <2>4, <2>5, <2>7 DEF Seen
<1>10. ASSUME NEW r \in Requests, Fail(r) \/ NoState(r) PROVE Seen'
  <2>1. run[r].st \in InFlight /\ UNCHANGED <<transcript, waiting>>
    BY <1>10, FailStep DEF InFlight
  <2>2. run'[r].st = "failed" /\ waiting = r
    BY <1>10, <2>1, FailStep, RunInFlight DEF Becomes
  <2> QED
    BY <1>3, <2>1, <2>2 DEF Answered
<1>11. ASSUME NEW w \in Workers, Crash(w) PROVE Seen'
  <2>1. /\ UNCHANGED <<transcript, waiting, asked>>
        /\ \A x \in Requests : run'[x] = run[x] \/ run'[x].st = "failed"
    BY <1>11, CrashStep
  <2>2. Answered' => Answered /\ run'[waiting] = run[waiting]
    BY <2>1 DEF Answered, TypeInv, TypeOK
  <2> QED
    BY <1>1, <2>1, <2>2 DEF Seen
<1>12. CASE UNCHANGED vars
  BY <1>12 DEF vars, clientVars, Seen, Answered
<1> QED
  BY <1>4, <1>5, <1>6, <1>7, <1>8, <1>9, <1>10, <1>11, <1>12 DEF Next, Client, Serve

LEMMA SeenAlways == Spec => [](TypeInv /\ SerialInv /\ SeenInv)
  BY TypeInit, TypeNext, SerialInit, SerialNext, SeenInit, SeenNext, PTL DEF Spec

\* A run goes on from every turn the client has seen, whichever worker it is on,
\* when no worker keeps the conversations to itself.
THEOREM ContinuesChatCorrect ==
    ASSUME "memory" \notin Backends
    PROVE  Spec => []ContinuesChat
<1>1. TypeInv /\ SerialInv /\ SeenInv => ContinuesChat
  <2> SUFFICES ASSUME TypeInv, WaitingClient, Seen, waiting # None,
                      run[waiting].st = "running", backend # "memory"
               PROVE  ToSet(transcript) \subseteq ToSet(run[waiting].messages)
    BY DEF ContinuesChat, SerialInv, SeenInv, TypeInv, TypeOK
  <2>1. waiting \in Requests
    BY DEF TypeInv, TypeOK
  <2> QED
    BY <2>1, HomeShared DEF Seen, WaitingClient, CopyInv
<1> QED
  BY <1>1, SeenAlways, PTL

(***************************************************************************)
(* As long as nothing fails.  The question under way is new to the server, *)
(* so that its answer comes from a call, and the history is the transcript *)
(* with the messages of the turn under way.                                *)
(***************************************************************************)

NewQuestion ==
    /\ waiting = None => asked = None
    /\ waiting # None /\ run[waiting].st \in {"sent", "read"}
         => \A s \in Stores : ~Contains(thread[s], User(asked))
    /\ Answered => run[waiting].messages # <<>>

NewQuestionInv == Steady => NewQuestion

\* What the turn under way has added to the history.
Turn == CASE run[waiting].st \in {"sent", "read"} -> <<>>
          [] run[waiting].st = "running"          -> <<User(asked)>>
          [] run[waiting].st = "answered"         -> <<User(asked), run[waiting].reply>>

Agreed ==
    /\ waiting = None => thread[Shared] = transcript
    /\ waiting # None => thread[Shared] = transcript \o Turn

\* No message of the client's is dropped from what it sends.
Whole == client.style = "full" => Of(transcript, "blank") = {}

AgreedInv == Steady /\ Whole /\ backend # "memory" => Agreed

\* Failures are not forgotten.
LEMMA SteadyBefore ==
    ASSUME TypeInv, [Next]_vars, Steady'
    PROVE  Steady
<1>1. ~client.leaves
  BY SetupStays DEF Steady
<1> SUFFICES ASSUME NEW x \in Requests, run[x].st = "failed" PROVE FALSE
  BY <1>1 DEF Steady
<1>2. run'[x].st # "failed"
  BY DEF Steady, Requests
<1>3. ASSUME NEW r \in Requests, NEW q, Becomes(r, q), run[r].st # "failed" PROVE FALSE
  BY <1>2, <1>3 DEF Becomes
<1>4. ASSUME NEW r \in Requests, Ask(r) \/ Retry(r) PROVE FALSE
  BY <1>3, <1>4, AskStep, SubmitStep
<1>5. CASE Receive \/ ReceiveError \/ Abandon \/ GiveUp
  BY <1>2, <1>5, ClientStep
<1>6. ASSUME NEW r \in Requests, Serve(r) PROVE FALSE
  <2>1. CASE ReadState(r)
    BY <1>3, <2>1, ReadStep
  <2>2. CASE StartRun(r)
    BY <1>3, <2>2, StartStep
  <2>3. CASE Answer(r)
    BY <1>3, <2>3, AnswerStep
  <2>4. CASE Fail(r) \/ NoState(r)
    BY <1>3, <2>4, FailStep
  <2> QED
    BY <1>6, <2>1, <2>2, <2>3, <2>4 DEF Serve
<1>7. ASSUME NEW w \in Workers, Crash(w) PROVE FALSE
  BY <1>2, <1>7, CrashStep
<1>8. CASE UNCHANGED vars
  BY <1>2, <1>8 DEF vars
<1> QED
  BY <1>4, <1>5, <1>6, <1>7, <1>8 DEF Next, Client

LEMMA NewQuestionInit == Init => NewQuestionInv
  BY DEF Init, NewQuestionInv, NewQuestion, Answered

LEMMA NewQuestionNext ==
    TypeInv /\ SerialInv /\ NewQuestionInv /\ [Next]_vars => NewQuestionInv'
<1> SUFFICES ASSUME TypeInv, WaitingClient, ~client.leaves, Steady, Steady', NewQuestion,
                    [Next]_vars
             PROVE  NewQuestion'
  BY SteadyBefore DEF SerialInv, NewQuestionInv, Steady
<1>0. /\ \A x \in Requests : x # None /\ run[x].st # "failed" /\ run'[x].st # "failed"
      /\ waiting \in Requests \union {None}
  BY SentinelAssumption DEF Steady, Requests, TypeInv, TypeOK
<1>1. ASSUME waiting' = None, asked' = None PROVE NewQuestion'
  BY <1>1 DEF NewQuestion, Answered
<1>2. ASSUME waiting' # None, waiting' \in Requests, run'[waiting'].st = "running"
      PROVE  NewQuestion'
  BY <1>2 DEF NewQuestion, Answered
<1>3. ASSUME NEW r \in Requests, Ask(r) \/ Retry(r) PROVE NewQuestion'
  <2>1. PICK q \in Question :
          Submit(r, q) /\ ((asked = None /\ q = r) \/ (asked # None /\ q = asked))
    BY <1>3, AskStep
  <2>2. /\ waiting = None /\ run[r].st = "idle" /\ asked' = q /\ waiting' = r
        /\ thread' = thread
    BY <2>1, SubmitStep
  <2>3. q = r /\ run'[r].st = "sent"
    BY <2>1, <2>2, SubmitStep DEF NewQuestion, Becomes
  <2>4. \A s \in Stores : ~Contains(thread[s], User(r))
    BY <2>2 DEF WaitingClient, FreshInv
  <2> QED
    BY <1>0, <2>2, <2>3, <2>4 DEF NewQuestion, Answered, Stores
<1>4. CASE Receive \/ ReceiveError \/ Abandon \/ GiveUp
  <2>1. waiting' = None /\ asked' = None
    BY <1>0, <1>4 DEF Receive, ReceiveError, Abandon, GiveUp, NewQuestion
  <2> QED
    BY <1>1, <2>1
<1>5. ASSUME NEW r \in Requests, ReadState(r) PROVE NewQuestion'
  <2>1. run[r].st = "sent" /\ UNCHANGED <<thread, asked, waiting>>
    BY <1>5, ReadStep
  <2>2. PICK q \in RunRecord :
          /\ Becomes(r, q)
          /\ \/ Delta(Saved(r), Normalized(run[r].incoming)) = <<>> /\ Of(Saved(r), "ai") # {}
             \/ q.st = "read"
    BY <1>5, ReadStep
  <2>3. waiting = r /\ r # None /\ run'[r] = q
    BY <1>0, <2>1, <2>2, RunInFlight DEF InFlight, Becomes
  <2>4. ~Contains(Saved(r), User(asked))
    BY <2>1, <2>3, SavedFacts DEF NewQuestion
  <2>5. q.st = "read"
    BY <2>1, <2>2, <2>4, ReusedSeen
  <2> QED
    BY <2>1, <2>3, <2>5 DEF NewQuestion, Answered, Stores
<1>6. ASSUME NEW r \in Requests, StartRun(r) PROVE NewQuestion'
  <2>1. run[r].st = "read" /\ waiting' = waiting
    BY <1>6, StartStep
  <2>2. run'[r].st = "running" /\ waiting = r
    BY <1>6, <2>1, StartStep, RunInFlight DEF Becomes, InFlight
  <2> QED
    BY <1>0, <1>2, <2>1, <2>2
<1>7. ASSUME NEW r \in Requests, Answer(r) PROVE NewQuestion'
  <2>1. run[r].st = "running" /\ waiting' = waiting
    BY <1>7, AnswerStep
  <2>2. run'[r].st = "answered" /\ run'[r].messages = run[r].messages /\ waiting = r
    BY <1>7, <2>1, AnswerStep, RunInFlight DEF Becomes, InFlight
  <2>3. run[r].messages # <<>>
    BY <2>1, AnswersAsked, EmptySeq DEF Contains
  <2> QED
    BY <1>0, <2>1, <2>2, <2>3 DEF NewQuestion, Answered
<1>8. ASSUME NEW r \in Requests, Fail(r) \/ NoState(r) PROVE NewQuestion'
  BY <1>0, <1>8, FailStep DEF Becomes
<1>9. ASSUME NEW w \in Workers, Crash(w) PROVE NewQuestion'
  <2>1. /\ UNCHANGED <<asked, waiting>> /\ thread'[w] = <<>>
        /\ \A s \in Stores : s # w => thread'[s] = thread[s]
        /\ \A x \in Requests : run'[x] = run[x]
    BY <1>0, <1>9, CrashStep
  <2>2. \A e : ~Contains(<<>>, e)
    BY EmptySeq DEF Contains
  <2>3. waiting # None => run'[waiting] = run[waiting]
    BY <1>0, <2>1
  <2>4. ASSUME waiting # None, run[waiting].st \in {"sent", "read"}, NEW s \in Stores
        PROVE  ~Contains(thread'[s], User(asked))
    BY <2>1, <2>2, <2>4 DEF NewQuestion
  <2> QED
    BY <2>1, <2>3, <2>4 DEF NewQuestion, Answered, Stores
<1>10. CASE UNCHANGED vars
  BY <1>10 DEF vars, clientVars, NewQuestion, Answered, Stores
<1> QED
  BY <1>3, <1>4, <1>5, <1>6, <1>7, <1>8, <1>9, <1>10 DEF Next, Client, Serve

LEMMA NewQuestionAlways == Spec => [](TypeInv /\ SerialInv /\ NewQuestionInv)
  BY TypeInit, TypeNext, SerialInit, SerialNext, NewQuestionInit, NewQuestionNext, PTL
     DEF Spec

LEMMA SteadyReply ==
    ASSUME TypeInv, SerialInv, NewQuestionInv, Steady
    PROVE  ReplyAnswersQuestion
<1> SUFFICES ASSUME Answered PROVE run[waiting].reply.about = asked
  BY DEF ReplyAnswersQuestion, Answered
<1>1. waiting \in Requests /\ asked \in Question /\ WaitingClient
  BY DEF Answered, TypeInv, TypeOK, SerialInv, Steady
<1>2. run[waiting].messages # <<>> /\ run[waiting].incoming = Payload(asked)
  BY <1>1 DEF NewQuestionInv, NewQuestion, Answered, WaitingClient, WaitInv
<1>3. run[waiting].reply.about = Last(Payload(asked)).about
  BY <1>1, <1>2 DEF WaitingClient, CopyInv, Answered
<1> QED
  BY <1>1, <1>3, PayloadFacts, MessageFacts DEF TypeInv

\* As long as nothing fails, the client gets the answer to the question it asked,
\* on every backend and with any number of workers.
THEOREM SteadyRepliesCorrect == Spec => []SteadyReplies
<1>1. TypeInv /\ SerialInv /\ NewQuestionInv => SteadyReplies
  BY SteadyReply DEF SteadyReplies
<1> QED
  BY <1>1, NewQuestionAlways, PTL

LEMMA ConcatTwo ==
    ASSUME NEW s \in Seq(Message), NEW e \in Message, NEW f \in Message
    PROVE  /\ Append(s, e) = s \o <<e>>
           /\ Append(s \o <<e>>, f) = s \o <<e, f>>
<1> DEFINE u == s \o <<e>>
           v == s \o <<e, f>>
           w == Append(u, f)
<1>1. /\ <<e>> \in Seq(Message) /\ Len(<<e>>) = 1 /\ <<e>>[1] = e
      /\ <<e, f>> \in Seq(Message) /\ Len(<<e, f>>) = 2
      /\ <<e, f>>[1] = e /\ <<e, f>>[2] = f
  OBVIOUS
<1>2. Append(s, e) = u
  BY AppendIsConcat
<1>3. /\ u \in Seq(Message) /\ Len(u) = Len(s) + 1 /\ Len(s) \in Nat
      /\ u[Len(s) + 1] = e /\ \A i \in 1..Len(s) : u[i] = s[i]
  <2>1. /\ Append(s, e) \in Seq(Message) /\ Len(Append(s, e)) = Len(s) + 1
        /\ Append(s, e)[Len(s) + 1] = e
        /\ \A i \in 1..Len(s) : Append(s, e)[i] = s[i]
    BY AppendProperties
  <2>2. Len(s) \in Nat
    BY LenProperties
  <2> HIDE DEF u
  <2> QED
    BY <1>2, <2>1, <2>2
<1>4. /\ v \in Seq(Message) /\ Len(v) = Len(s) + 2
      /\ \A i \in 1..(Len(s) + 2) : v[i] = IF i <= Len(s) THEN s[i] ELSE <<e, f>>[i - Len(s)]
  <2> DEFINE t == <<e, f>>
  <2>1. t \in Seq(Message) /\ Len(t) = 2
    BY <1>1
  <2> HIDE DEF t
  <2>2. /\ s \o t \in Seq(Message) /\ Len(s \o t) = Len(s) + Len(t)
        /\ \A i \in 1..(Len(s) + Len(t)) :
             (s \o t)[i] = IF i <= Len(s) THEN s[i] ELSE t[i - Len(s)]
    BY <2>1, ConcatProperties
  <2> QED
    BY <2>1, <2>2 DEF t
<1> HIDE DEF u, v
<1>5. /\ v[Len(s) + 1] = e /\ v[Len(s) + 2] = f /\ \A i \in 1..Len(s) : v[i] = s[i]
  BY <1>1, <1>3, <1>4
<1>6. /\ w \in Seq(Message) /\ Len(w) = Len(s) + 2
      /\ w[Len(s) + 2] = f /\ \A i \in 1..(Len(s) + 1) : w[i] = u[i]
  BY <1>3, AppendProperties
<1> HIDE DEF w
<1>7. ASSUME NEW i \in 1..Len(w) PROVE w[i] = v[i]
  <2>1. i \in 1..Len(s) \/ i = Len(s) + 1 \/ i = Len(s) + 2
    BY <1>3, <1>6
  <2> QED
    BY <1>3, <1>5, <1>6, <2>1
<1>8. w = v
  BY <1>4, <1>6, <1>7, SeqEqual
<1> QED
  BY <1>2, <1>8 DEF u, v, w

\* A question that is new to a server whose history is the transcript is all that
\* the merge leaves of the request.
LEMMA DeltaOfQuestion ==
    ASSUME TypeInv, Whole, NEW q \in Question, ~Contains(transcript, User(q))
    PROVE  Delta(transcript, Normalized(Payload(q))) = <<User(q)>>
<1> DEFINE u == User(q)
<1>0. Normalized(Payload(q)) = Payload(q)
  <2>1. Payload(q) \in Seq(Message)
    BY PayloadFacts DEF TypeInv
  <2>2. ASSUME NEW i \in 1..Len(Payload(q)) PROVE Payload(q)[i].role # "blank"
    <3>1. Contains(Payload(q), Payload(q)[i])
      BY DEF Contains
    <3>2. CASE Payload(q)[i] = User(q)
      BY <3>2, MessageFacts
    <3>3. CASE Payload(q)[i] # User(q) /\ client.style = "full"
      <4>1. PICK j \in 1..Len(transcript) : transcript[j] = Payload(q)[i]
        BY <3>1, <3>3, PayloadFacts DEF TypeInv, Contains
      <4> QED
        BY <3>3, <4>1, LenProperties DEF Whole, Of, TypeInv, TypeOK
    <3>4. CASE client.style # "full"
      BY <3>4, MessageFacts DEF Payload
    <3> QED
      BY <3>2, <3>3, <3>4
  <2>3. Of(Payload(q), "blank") = {}
    BY <2>1, <2>2, LenProperties DEF Of
  <2> QED
    BY <2>1, <2>3, NothingBlank
<1>1. transcript \in Seq(Message) /\ u \in Message
  BY MessageFacts DEF TypeInv, TypeOK
<1>2. <<u>> \in Seq(Message)
  BY <1>1
<1>3. CASE client.style # "full"
  <2>1. Payload(q) = <<u>>
    BY <1>3 DEF Payload
  <2> HIDE DEF u
  <2>2. \A i \in 1..Len(transcript) : transcript[i] # u
    BY DEF Contains, u
  <2>3. Delta(transcript, <<u>>) = <<u>>
    BY <1>1, <2>2, DeltaOfNewMessage
  <2> QED
    BY <1>0, <2>1, <2>3 DEF u
<1>4. CASE client.style = "full"
  <2>1. Payload(q) = Append(transcript, u)
    BY <1>4 DEF Payload
  <2> DEFINE t == <<u>>
  <2> HIDE DEF u
  <2>2. Payload(q) = transcript \o t
    BY <1>1, <2>1, AppendIsConcat
  <2>3. t \in Seq(Message)
    BY <1>2
  <2> HIDE DEF t
  <2>4. CASE transcript = <<>>
    <3>1. Payload(q) = t
      BY <2>2, <2>3, <2>4, ConcatEmptySeq
    <3> QED
      BY <1>0, <2>3, <2>4, <3>1, DeltaOfEmpty DEF t, u
  <2>5. CASE transcript # <<>>
    <3>1. Delta(transcript, transcript \o t) = t
      BY <1>1, <2>3, <2>5, DeltaOfExtension
    <3> QED
      BY <1>0, <2>2, <3>1 DEF t, u
  <2> QED
    BY <2>4, <2>5
<1> QED
  BY <1>3, <1>4

\* Blank answers are not forgotten either.
LEMMA WholeBefore ==
    ASSUME TypeInv, [Next]_vars, Whole'
    PROVE  Whole
<1>1. client' = client
  BY SetupStays
<1> SUFFICES ASSUME client.style = "full", NEW i \in Of(transcript, "blank") PROVE FALSE
  BY DEF Whole
<1>2. /\ Of(transcript', "blank") = {} /\ transcript \in Seq(Message)
      /\ i \in 1..Len(transcript) /\ transcript[i].role = "blank"
  BY <1>1, LenProperties DEF Whole, Of, TypeInv, TypeOK
<1>3. CASE transcript' = transcript
  BY <1>2, <1>3
<1>4. ASSUME NEW t \in Seq(Message), transcript' = transcript \o t PROVE FALSE
  <2>1. /\ transcript' \in Seq(Message) /\ Len(transcript) \in Nat /\ Len(t) \in Nat
        /\ Len(transcript') = Len(transcript) + Len(t)
        /\ transcript'[i] = transcript[i]
    BY <1>2, <1>4, ConcatProperties, LenProperties
  <2>2. i \in Of(transcript', "blank")
    BY <1>2, <2>1 DEF Of
  <2> QED
    BY <1>2, <2>2
<1>5. CASE Receive
  <2> DEFINE t == <<User(asked), run[waiting].reply>>
  <2>1. transcript' = transcript \o t /\ waiting # None /\ run[waiting].st = "answered"
    BY <1>5 DEF Receive
  <2>2. t \in Seq(Message)
    BY <2>1, MessageFacts DEF TypeInv, TypeOK, RunInv
  <2> QED
    BY <1>4, <2>1, <2>2
<1>6. ASSUME NEW r \in Requests, Serve(r) PROVE transcript' = transcript
  BY <1>6 DEF Serve, ReadState, NoState, StartRun, Answer, Fail, clientVars
<1>7. ASSUME NEW w \in Workers, Crash(w) PROVE transcript' = transcript
  BY <1>7 DEF Crash, clientVars
<1>8. CASE UNCHANGED vars
  BY <1>3, <1>8 DEF vars, clientVars
<1>9. CASE Client
  BY <1>3, <1>5, <1>9 DEF Client, Ask, Retry, Submit, ReceiveError, Abandon, GiveUp
<1> QED
  BY <1>3, <1>6, <1>7, <1>8, <1>9 DEF Next

LEMMA AgreedInit == Init => AgreedInv
  BY DEF Init, AgreedInv, Agreed, Stores

LEMMA AgreedNext ==
    TypeInv /\ SerialInv /\ NewQuestionInv /\ AgreedInv /\ [Next]_vars => AgreedInv'
<1> SUFFICES ASSUME TypeInv, WaitingClient, ~client.leaves, Steady, Steady', NewQuestion,
                    Whole, Agreed, backend # "memory", [Next]_vars
             PROVE  Agreed'
  BY SteadyBefore, WholeBefore, SetupStays DEF SerialInv, NewQuestionInv, AgreedInv, Steady
<1>0. /\ \A x \in Requests : x # None /\ run[x].st # "failed" /\ run'[x].st # "failed"
      /\ waiting \in Requests \union {None}
      /\ thread[Shared] \in Seq(Message) /\ transcript \in Seq(Message)
  BY SentinelAssumption DEF Steady, Requests, TypeInv, TypeOK, Stores
<1>1. transcript \o <<>> = transcript
  BY <1>0, ConcatEmptySeq
\* The run that the client waits for.
<1>2. ASSUME NEW r \in Requests, run[r].st \in InFlight
      PROVE  waiting = r /\ r # None /\ asked \in Question
             /\ Home(run[r].at) = Shared /\ Saved(r) = thread[Shared]
             /\ run[r].incoming = Payload(asked)
  BY <1>0, <1>2, RunInFlight, HomeShared
<1>3. ASSUME NEW r \in Requests, Ask(r) \/ Retry(r) PROVE Agreed'
  <2>1. PICK q \in Question : Submit(r, q)
    BY <1>3, AskStep
  <2>2. /\ waiting = None /\ waiting' = r
        /\ thread' = thread /\ transcript' = transcript
    BY <2>1, SubmitStep
  <2>3. run'[r].st = "sent"
    BY <2>1, SubmitStep DEF Becomes
  <2>4. Turn' = <<>>
    BY <2>2, <2>3 DEF Turn
  <2> QED
    BY <1>0, <1>1, <2>2, <2>4 DEF Agreed
<1>4. CASE Receive
  <2>1. /\ waiting # None /\ run[waiting].st = "answered" /\ waiting' = None
        /\ transcript' = transcript \o <<User(asked), run[waiting].reply>>
        /\ thread' = thread
    BY <1>4 DEF Receive
  <2>2. Turn = <<User(asked), run[waiting].reply>>
    BY <2>1 DEF Turn
  <2> QED
    BY <2>1, <2>2 DEF Agreed
<1>5. CASE ReceiveError \/ Abandon \/ GiveUp
  BY <1>0, <1>5 DEF ReceiveError, Abandon, GiveUp, NewQuestion
<1>6. ASSUME NEW r \in Requests, ReadState(r) PROVE Agreed'
  <2>1. run[r].st = "sent" /\ UNCHANGED <<thread, transcript, asked, waiting>>
    BY <1>6, ReadStep
  <2>2. PICK q \in RunRecord :
          /\ Becomes(r, q)
          /\ \/ Delta(Saved(r), Normalized(run[r].incoming)) = <<>> /\ Of(Saved(r), "ai") # {}
             \/ q.st = "read"
    BY <1>6, ReadStep
  <2>3. waiting = r /\ r # None /\ run'[r] = q /\ Saved(r) = thread[Shared]
    BY <1>2, <2>1, <2>2 DEF InFlight, Becomes
  <2>4. ~Contains(Saved(r), User(asked))
    BY <2>1, <2>3 DEF NewQuestion, Stores
  <2>5. q.st = "read"
    BY <2>1, <2>2, <2>4, ReusedSeen
  <2>6. Turn = <<>> /\ Turn' = <<>>
    BY <2>1, <2>3, <2>5 DEF Turn
  <2> QED
    BY <2>1, <2>3, <2>6 DEF Agreed
<1>7. ASSUME NEW r \in Requests, StartRun(r) PROVE Agreed'
  <2> DEFINE m == Saved(r) \o run[r].delta
  <2>1. /\ run[r].st = "read" /\ m \in Seq(Message) /\ Save(r, m)
        /\ UNCHANGED <<transcript, asked, waiting>>
    BY <1>7, StartStep
  <2>2. run'[r].st = "running"
    BY <1>7, StartStep DEF Becomes
  <2>3. /\ waiting = r /\ r # None /\ asked \in Question /\ Home(run[r].at) = Shared
        /\ Saved(r) = thread[Shared] /\ run[r].incoming = Payload(asked)
    BY <1>2, <2>1 DEF InFlight
  <2>4. Turn = <<>> /\ Turn' = <<User(asked)>>
    BY <2>1, <2>2, <2>3 DEF Turn
  <2>5. thread[Shared] = transcript
    BY <1>1, <2>3, <2>4 DEF Agreed
  <2>6. ~Contains(transcript, User(asked))
    BY <2>1, <2>3, <2>5 DEF NewQuestion, Stores
  <2>7. run[r].delta = <<User(asked)>>
    BY <2>1, <2>3, <2>5, <2>6, DeltaOfQuestion DEF WaitingClient, CopyInv
  <2>8. m = transcript \o <<User(asked)>>
    BY <2>3, <2>5, <2>7
  <2> HIDE DEF m
  <2>9. thread'[Shared] = m
    BY <2>1, <2>3, SaveFacts
  <2> QED
    BY <2>1, <2>3, <2>4, <2>8, <2>9 DEF Agreed
<1>8. ASSUME NEW r \in Requests, Answer(r) PROVE Agreed'
  <2>1. run[r].st = "running" /\ run[r].messages = Saved(r)
        /\ LastOf(run[r].messages, "user").about = asked
    BY <1>8, AnswersAsked DEF Answer
  <2>2. PICK a \in Answers(asked) :
          /\ Append(run[r].messages, a) \in Seq(Message)
          /\ Save(r, Append(run[r].messages, a))
          /\ \E q \in RunRecord : Becomes(r, q) /\ q.st = "answered" /\ q.reply = a
    BY <1>8, <2>1, AnswerStep
  <2>3. /\ UNCHANGED <<transcript, waiting, asked>>
        /\ run'[r].st = "answered" /\ run'[r].reply = a
    BY <1>8, <2>2, AnswerStep DEF Becomes
  <2>4. /\ waiting = r /\ r # None /\ asked \in Question /\ Home(run[r].at) = Shared
        /\ Saved(r) = thread[Shared]
    BY <1>2, <2>1 DEF InFlight
  <2>5. Turn = <<User(asked)>> /\ Turn' = <<User(asked), a>>
    BY <2>1, <2>3, <2>4 DEF Turn
  <2>6. thread[Shared] = transcript \o <<User(asked)>>
    BY <2>4, <2>5 DEF Agreed
  <2> DEFINE m == Append(run[r].messages, a)
             u == User(asked)
  <2>7. u \in Message /\ a \in Message
    BY <2>4, MessageFacts, AnswerFacts
  <2>8. m = Append(transcript \o <<u>>, a)
    BY <2>1, <2>4, <2>6
  <2>9. m \in Seq(Message) /\ Save(r, m)
    BY <2>2
  <2> HIDE DEF m, u
  <2>10. m = transcript \o <<u, a>>
    BY <1>0, <2>7, <2>8, ConcatTwo
  <2>11. thread'[Shared] = m
    BY <2>1, <2>4, <2>9, SaveFacts
  <2> QED
    BY <2>3, <2>4, <2>5, <2>10, <2>11 DEF Agreed, u
<1>9. ASSUME NEW r \in Requests, Fail(r) \/ NoState(r) PROVE Agreed'
  BY <1>0, <1>9, FailStep DEF Becomes
<1>10. ASSUME NEW w \in Workers, Crash(w) PROVE Agreed'
  <2>1. /\ UNCHANGED <<transcript, asked, waiting>> /\ thread'[Shared] = thread[Shared]
        /\ \A x \in Requests : run'[x] = run[x]
    BY <1>0, <1>10, CrashStep, SentinelAssumption DEF Stores
  <2>2. waiting # None => run'[waiting] = run[waiting]
    BY <1>0, <2>1
  <2>3. waiting # None => Turn' = Turn
    BY <2>1, <2>2 DEF Turn
  <2> QED
    BY <2>1, <2>3 DEF Agreed
<1>11. CASE UNCHANGED vars
  <2>1. UNCHANGED <<thread, run, transcript, asked, waiting>>
    BY <1>11 DEF vars, clientVars
  <2>2. Turn' = Turn
    BY <2>1 DEF Turn
  <2> QED
    BY <2>1, <2>2 DEF Agreed
<1> QED
  BY <1>3, <1>4, <1>5, <1>6, <1>7, <1>8, <1>9, <1>10, <1>11 DEF Next, Client, Serve

\* Between two turns the history is the transcript, whether the client resends it
\* or not and whichever workers serve it, as long as nothing fails and a client
\* that resends has met no answer without a text.
THEOREM HistoryAgreesCorrect ==
    ASSUME "memory" \notin Backends
    PROVE  Spec => []HistoryAgrees
<1>1. TypeInv /\ NewQuestionInv /\ AgreedInv => HistoryAgrees
  <2> SUFFICES ASSUME TypeInv, NewQuestion, Agreed, Steady, asked = None
               PROVE  thread[Shared] = transcript
    BY DEF HistoryAgrees, NewQuestionInv, AgreedInv, Whole, TypeInv, TypeOK
  <2>1. waiting = None
    BY DEF TypeInv
  <2> QED
    BY <2>1 DEF Agreed
<1> QED
  BY <1>1, TypeInit, TypeNext, SerialInit, SerialNext, NewQuestionInit, NewQuestionNext,
     AgreedInit, AgreedNext, PTL DEF Spec

(***************************************************************************)
(* The history is a conversation.  With a client that sends only its       *)
(* question, a question that the server has seen is the last message of    *)
(* the shared store until it is answered, so that it is not posed again.   *)
(***************************************************************************)

OpenTurn ==
    asked # None /\ Contains(thread[Shared], User(asked)) /\ ~Answered
    => Last(thread[Shared]) = User(asked)

OpenTurnInv == ~client.leaves /\ client.style = "new" /\ crashes = 0 => OpenTurn

\* What StartRun adds to the shared store.
LEMMA Posed ==
    ASSUME TypeInv, WaitingClient, OpenTurn, client.style = "new",
           NEW r \in Requests, run[r].st = "read", Home(run[r].at) = Shared
    PROVE  /\ asked \in Question
           /\ \/ /\ Contains(thread[Shared], User(asked))
                 /\ Last(thread[Shared]) = User(asked)
                 /\ thread[Shared] \o run[r].delta = thread[Shared]
              \/ /\ ~Contains(thread[Shared], User(asked))
                 /\ thread[Shared] \o run[r].delta = Append(thread[Shared], User(asked))
<1> DEFINE s == thread[Shared]
           u == User(asked)
<1>1. waiting = r /\ asked # None /\ asked \in Question
      /\ run[r].incoming = Payload(asked)
  BY RunInFlight DEF InFlight
<1>2. s \in Seq(Message) /\ u \in Message /\ Saved(r) = s
  BY <1>1, MessageFacts DEF TypeInv, TypeOK, Stores, Saved
<1>3. Normalized(run[r].incoming) = <<u>>
  <2> DEFINE t == <<u>>
  <2>1. run[r].incoming = t
    BY <1>1 DEF Payload
  <2>2. t \in Seq(Message) /\ Len(t) = 1 /\ t[1].role = "user"
    BY <1>1, MessageFacts
  <2> HIDE DEF t
  <2>3. Of(t, "blank") = {}
    BY <2>2, LenProperties DEF Of
  <2> QED
    BY <2>1, <2>2, <2>3, NothingBlank DEF t
<1>4. run[r].delta = Delta(s, <<u>>)
  BY <1>2, <1>3 DEF WaitingClient, CopyInv
<1>5. ~Answered
  BY <1>1 DEF Answered
<1> HIDE DEF s, u
<1>6. CASE Contains(s, u)
  <2>1. Last(s) = u
    BY <1>1, <1>5, <1>6 DEF OpenTurn, s, u
  <2>2. s # <<>>
    BY <1>6, EmptySeq DEF Contains
  <2>3. Delta(s, <<u>>) = <<>>
    BY <1>2, <2>1, <2>2, DeltaOfLastMessage DEF Last
  <2>4. s \o run[r].delta = s
    BY <1>2, <1>4, <2>3, ConcatEmptySeq
  <2> QED
    BY <1>1, <1>6, <2>1, <2>4 DEF s, u
<1>7. CASE ~Contains(s, u)
  <2>1. \A i \in 1..Len(s) : s[i] # u
    BY <1>7 DEF Contains
  <2>2. Delta(s, <<u>>) = <<u>>
    BY <1>2, <2>1, DeltaOfNewMessage
  <2>3. s \o run[r].delta = Append(s, u)
    BY <1>2, <1>4, <2>2, AppendIsConcat
  <2> QED
    BY <1>1, <1>7, <2>3 DEF s, u
<1> QED
  BY <1>6, <1>7

LEMMA OpenTurnInit == Init => OpenTurnInv
  BY DEF Init, OpenTurnInv, OpenTurn

LEMMA OpenTurnNext ==
    TypeInv /\ SerialInv /\ OpenTurnInv /\ [Next]_vars => OpenTurnInv'
<1> SUFFICES ASSUME TypeInv, WaitingClient, ~client.leaves, client.style = "new",
                    crashes' = 0, crashes = 0 => OpenTurn, [Next]_vars
             PROVE  OpenTurn'
  BY SetupStays DEF SerialInv, OpenTurnInv
<1>0. Shared \in Stores /\ thread[Shared] \in Seq(Message)
      /\ \A x \in Requests : x # None
  BY SentinelAssumption DEF Stores, TypeInv, TypeOK, Requests
<1>1. ASSUME NEW r \in Requests, Ask(r) \/ Retry(r) PROVE OpenTurn'
  <2>1. PICK q \in Question :
          Submit(r, q) /\ ((asked = None /\ q = r) \/ (asked # None /\ q = asked))
    BY <1>1, AskStep
  <2>2. /\ waiting = None /\ run[r].st = "idle" /\ asked' = q /\ waiting' = r
        /\ thread' = thread /\ crashes' = crashes
    BY <2>1, SubmitStep
  <2>3. CASE q = r
    BY <1>0, <2>2, <2>3 DEF WaitingClient, FreshInv, OpenTurn
  <2>4. CASE q = asked /\ asked # None
    BY <2>2, <2>4 DEF OpenTurn, Answered
  <2> QED
    BY <2>1, <2>3, <2>4
<1>2. CASE Receive \/ Abandon \/ GiveUp
  BY <1>2 DEF Receive, Abandon, GiveUp, OpenTurn
<1>3. CASE ReceiveError
  BY <1>3 DEF ReceiveError, OpenTurn, Answered
<1>4. ASSUME NEW r \in Requests, ReadState(r) \/ Fail(r) \/ NoState(r) PROVE OpenTurn'
  <2>1. run[r].st \in InFlight /\ UNCHANGED <<thread, asked, waiting, crashes>>
    BY <1>4, ReadStep, FailStep DEF InFlight
  <2>2. waiting = r /\ ~Answered
    BY <2>1, RunInFlight DEF Answered, InFlight
  <2> QED
    BY <2>1, <2>2 DEF OpenTurn
<1>5. ASSUME NEW r \in Requests, StartRun(r) PROVE OpenTurn'
  <2> DEFINE m == Saved(r) \o run[r].delta
  <2>1. /\ run[r].st = "read" /\ m \in Seq(Message) /\ Save(r, m)
        /\ UNCHANGED <<asked, waiting, crashes>>
    BY <1>5, StartStep
  <2>2. waiting = r /\ ~Answered
    BY <2>1, RunInFlight DEF Answered, InFlight
  <2>3. CASE Home(run[r].at) # Shared
    <3> HIDE DEF m
    <3>1. thread'[Shared] = thread[Shared]
      BY <1>0, <2>1, <2>3, SaveFacts
    <3> QED
      BY <2>1, <2>2, <3>1 DEF OpenTurn
  <2>4. CASE Home(run[r].at) = Shared
    <3>1. Saved(r) = thread[Shared] /\ OpenTurn
      BY <2>1, <2>4 DEF Saved
    <3>2. /\ asked \in Question
          /\ \/ m = thread[Shared] /\ Last(thread[Shared]) = User(asked)
             \/ m = Append(thread[Shared], User(asked))
      BY <2>1, <2>4, <3>1, Posed
    <3> HIDE DEF m
    <3>3. thread'[Shared] = m
      BY <2>1, <2>4, SaveFacts
    <3>4. Last(m) = User(asked)
      <4> DEFINE u == User(asked)
      <4>1. u \in Message
        BY <3>2, MessageFacts
      <4> HIDE DEF u
      <4>2. /\ Len(Append(thread[Shared], u)) = Len(thread[Shared]) + 1
            /\ Append(thread[Shared], u)[Len(thread[Shared]) + 1] = u
        BY <1>0, <4>1, AppendProperties
      <4>3. Last(Append(thread[Shared], u)) = u
        BY <4>2 DEF Last
      <4> QED
        BY <3>2, <4>3 DEF u
    <3> QED
      BY <2>1, <3>3, <3>4 DEF OpenTurn
  <2> QED
    BY <2>3, <2>4
<1>6. ASSUME NEW r \in Requests, Answer(r) PROVE OpenTurn'
  <2>1. run[r].st = "running" /\ waiting' = waiting
    BY <1>6, AnswerStep
  <2>2. run'[r].st = "answered" /\ waiting = r
    BY <1>6, <2>1, AnswerStep, RunInFlight DEF Becomes, InFlight
  <2> QED
    BY <1>0, <2>1, <2>2 DEF OpenTurn, Answered
<1>7. ASSUME NEW w \in Workers, Crash(w) PROVE OpenTurn'
  BY <1>7, CrashStep
<1>8. CASE UNCHANGED vars
  BY <1>8 DEF vars, clientVars, OpenTurn, Answered
<1> QED
  BY <1>1, <1>2, <1>3, <1>4, <1>5, <1>6, <1>7, <1>8 DEF Next, Client, Serve

LEMMA ConversationStarts == Init => Promised!Init
  BY DEF Init, Promised!Init, Stores

\* The history refines the abstract conversation: a step of the server poses a
\* question that is not in it, settles the last one, or leaves it as it is.
THEOREM ImplementsConversationCorrect == Spec => ImplementsConversation
<1>1. TypeInv /\ SerialInv /\ OpenTurnInv /\ [Next]_vars
        => [~client.leaves /\ client.style = "new" /\ crashes = 0
              => [Promised!Next]_(thread[Shared])]_vars
  <2> SUFFICES ASSUME TypeInv, WaitingClient, OpenTurn, ~client.leaves,
                      client.style = "new", [Next]_vars
               PROVE  [Promised!Next]_(thread[Shared])
    BY DEF SerialInv, OpenTurnInv
  <2>1. thread[Shared] \in Seq(Message)
    BY DEF TypeInv, TypeOK, Stores
  <2>2. SharedStep
    BY StoreGrows
  <2>3. CASE UNCHANGED thread[Shared]
    BY <2>3
  <2>4. ASSUME NEW r \in Requests, StartRun(r), Home(run[r].at) = Shared,
               thread'[Shared] = thread[Shared] \o run[r].delta
        PROVE  [Promised!Next]_(thread[Shared])
    <3>1. /\ asked \in Question
          /\ \/ thread[Shared] \o run[r].delta = thread[Shared]
             \/ /\ ~Contains(thread[Shared], User(asked))
                /\ thread[Shared] \o run[r].delta = Append(thread[Shared], User(asked))
      BY <2>4, Posed DEF StartRun
    <3>2. CASE thread[Shared] \o run[r].delta = thread[Shared]
      BY <2>4, <3>2
    <3>3. CASE thread[Shared] \o run[r].delta # thread[Shared]
      <4>1. Promised!Pose(asked)
        BY <2>4, <3>1, <3>3 DEF Promised!Pose, Promised!User, Promised!Contains, User,
           Contains
      <4> QED
        BY <3>1, <4>1 DEF Promised!Next
    <3> QED
      BY <3>2, <3>3
  <2>5. ASSUME NEW r \in Requests, Answer(r), Home(run[r].at) = Shared,
               NEW a \in Answers(asked), thread'[Shared] = Append(thread[Shared], a)
        PROVE  [Promised!Next]_(thread[Shared])
    <3>1. run[r].st = "running"
      BY <2>5 DEF Answer
    <3>2. waiting = r /\ asked # None /\ asked \in Question /\ ~Answered
      BY <3>1, RunInFlight DEF InFlight, Answered
    <3>3. Contains(thread[Shared], User(asked))
      BY <2>5, <3>1, AnswersAsked DEF Saved
    <3>4. Last(thread[Shared]) = User(asked) /\ thread[Shared] # <<>>
      BY <3>2, <3>3, EmptySeq DEF OpenTurn, Contains
    <3>5. Promised!Settle(asked)
      BY <2>5, <3>2, <3>4, AnswerFacts DEF Promised!Settle, Promised!User, Promised!Ai,
         Promised!Blank, Promised!Last, User, Ai, Blank, Last
    <3> QED
      BY <3>2, <3>5 DEF Promised!Next
  <2> QED
    BY <2>2, <2>3, <2>4, <2>5 DEF SharedStep
<1> QED
  BY <1>1, TypeInit, TypeNext, SerialInit, SerialNext, OpenTurnInit, OpenTurnNext, PTL
     DEF Spec, ImplementsConversation
===============================================================================
