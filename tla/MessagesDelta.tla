---------------------------- MODULE MessagesDelta ----------------------------
(***************************************************************************)
(* How much of a request is new: WorkflowRuntime._messages_delta compares  *)
(* the persisted conversation with the messages a client sent and returns  *)
(* the messages to append.  Messages are compared by their projection      *)
(* (role, text, name, tool_call_id), so a message is just a value here.    *)
(***************************************************************************)
EXTENDS Naturals, Sequences

Shorter(s, t) == IF Len(s) < Len(t) THEN Len(s) ELSE Len(t)

\* Length of the longest common prefix.
CommonPrefix(s, t) ==
    CHOOSE k \in 0..Shorter(s, t) :
        /\ \A i \in 1..k : s[i] = t[i]
        /\ k < Shorter(s, t) => s[k + 1] # t[k + 1]

\* Lengths of a suffix of s that is a prefix of t.
Overlaps(s, t) ==
    {n \in 1..Shorter(s, t) : \A i \in 1..n : s[Len(s) - n + i] = t[i]}

Drop(s, n) == SubSeq(s, n + 1, Len(s))

\* Mutant: the shortest overlap is taken.
DeltaShortest(existing, incoming) ==
    IF Overlaps(existing, incoming) # {}
    THEN Drop(incoming, CHOOSE n \in Overlaps(existing, incoming) :
                           \A m \in Overlaps(existing, incoming) : n <= m)
    ELSE incoming

\* Mutant: only a common prefix counts.
DeltaPrefixOnly(existing, incoming) ==
    Drop(incoming, CommonPrefix(existing, incoming))

\* A common prefix wins over any overlap, however short it is; without one the
\* longest overlap is dropped.
Delta(existing, incoming) ==
    IF CommonPrefix(existing, incoming) > 0
    THEN Drop(incoming, CommonPrefix(existing, incoming))
    ELSE IF Overlaps(existing, incoming) # {}
         THEN Drop(incoming, CHOOSE n \in Overlaps(existing, incoming) :
                                \A m \in Overlaps(existing, incoming) : m <= n)
         ELSE incoming
==============================================================================
