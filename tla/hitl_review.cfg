CONSTANTS
    MaxRequests = 5
    Leaving = {FALSE, TRUE}
    Question = {q1, q2}
    Edits = {e1}
    Forms = {"string", "parts"}
    Resends = FALSE
    None = None
    NoText = NoText
SPECIFICATION Spec
CHECK_DEADLOCK FALSE
INVARIANTS
    TypeOK
    QuestionGetsDraft
    ReviewDecides
    SeenDraftAwaitsReview
    NothingUnreviewed
