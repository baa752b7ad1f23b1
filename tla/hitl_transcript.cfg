CONSTANTS
    MaxRequests = 4
    Leaving = {FALSE}
    Question = {q1, q2}
    Edits = {e1, e2}
    Forms = {"string"}
    Resends = TRUE
    None = None
    NoText = NoText
SPECIFICATION Spec
CHECK_DEADLOCK FALSE
INVARIANTS
    QuestionGetsDraft
