----------------------------- MODULE Conversation -----------------------------
(***************************************************************************)
(* What a persisted conversation promises: questions and answers take      *)
(* turns.  A question is posed once and may stay without an answer; an     *)
(* answer, with a text or blank, follows the question it belongs to;       *)
(* nothing is lost, rewritten or moved.                                    *)
(***************************************************************************)
EXTENDS Sequences, SequencesExt

CONSTANT Question

VARIABLE history

User(q)  == [role |-> "user",  about |-> q]
Ai(q)    == [role |-> "ai",    about |-> q]
Blank(q) == [role |-> "blank", about |-> q]

Init == history = <<>>

Pose(q) ==
    /\ ~Contains(history, User(q))
    /\ history' = Append(history, User(q))

Settle(q) ==
    /\ history # <<>> /\ Last(history) = User(q)
    /\ history' \in {Append(history, Ai(q)), Append(history, Blank(q))}

Next == \E q \in Question : Pose(q) \/ Settle(q)

Spec == Init /\ [][Next]_history
===============================================================================
