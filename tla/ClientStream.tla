----------------------------- MODULE ClientStream -----------------------------
(***************************************************************************)
(* What the client of a streaming completion is promised, whatever happens *)
(* behind it: either one error status and no event, or a status 200 and a  *)
(* stream of events that may end or break at any point, in which an event  *)
(* that closes the answer is followed by such events only, and [DONE] by   *)
(* none.  Events are read as the client reads them, line by line.          *)
(***************************************************************************)
EXTENDS SseEvents

CONSTANT Sendable   \* the events a server may send

VARIABLES
    status,   \* HTTP status, 0 while undecided
    sent,     \* the events sent so far
    over      \* has the response ended?

vars == <<status, sent, over>>

Init == status = 0 /\ sent = <<>> /\ over = FALSE

Reject ==
    /\ status = 0 /\ ~over
    /\ status' \in {500, 502, 504}
    /\ over' = TRUE
    /\ UNCHANGED sent

MayFollow(e) ==
    \A i \in DOMAIN sent : ~Stops(sent[i]) /\ (Closes(sent[i]) => Closes(e))

Send ==
    /\ ~over
    /\ \E e \in Sendable : MayFollow(e) /\ sent' = Append(sent, e)
    /\ status' = 200
    /\ UNCHANGED over

Finish ==
    /\ ~over /\ status = 200
    /\ over' = TRUE
    /\ UNCHANGED <<status, sent>>

Next == Reject \/ Send \/ Finish

Spec == Init /\ [][Next]_vars
===============================================================================
