CONSTANTS
    MaxRequests = 3
    MaxOverlap = 0
    MaxCrashes = 0
    Workers = {w1}
    Backends = {"external"}
    Styles = {"full"}
    Leaving = {FALSE}
    MayFail = TRUE
    MayBeBlank = FALSE
    None = None
    Shared = Shared
SPECIFICATION Spec
CHECK_DEADLOCK FALSE
INVARIANTS
    ReplyAnswersQuestion
