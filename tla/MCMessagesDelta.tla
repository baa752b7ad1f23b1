--------------------------- MODULE MCMessagesDelta ---------------------------
(* Every pair of a history and a request over a few messages.              *)
EXTENDS MessagesDelta, SequencesExt

CONSTANTS Message, MaxLen

VARIABLES existing, incoming

Init == existing = <<>> /\ incoming = <<>>

Persisted ==
    /\ Len(existing) < MaxLen
    /\ \E m \in Message : existing' = Append(existing, m)
    /\ UNCHANGED incoming

Resent ==
    /\ Len(incoming) < MaxLen
    /\ \E m \in Message : incoming' = Append(incoming, m)
    /\ UNCHANGED existing

Next == Persisted \/ Resent

Spec == Init /\ [][Next]_<<existing, incoming>>

\* A client that resends its whole history gets exactly its new messages
\* appended, also when messages repeat in it.
WholeHistoryResent ==
    existing # <<>> /\ IsPrefix(existing, incoming) =>
        existing \o Delta(existing, incoming) = incoming

\* A client that keeps a window of the history, in which no message repeats,
\* gets exactly the messages after that window appended.
WindowResent ==
    \A n \in Overlaps(existing, incoming) :
        IsInjective(existing \o Drop(incoming, n))
        => Delta(existing, incoming) = Drop(incoming, n)
==============================================================================
