CONSTANTS
    MaxRequests = 3
    MaxOverlap = 0
    MaxCrashes = 0
    Workers = {w1}
    Backends = {"external"}
    Styles = {"full"}
    Leaving = {FALSE}
    MayFail = FALSE
    MayBeBlank = TRUE
    None = None
    Shared = Shared
SPECIFICATION Spec
CHECK_DEADLOCK FALSE
INVARIANTS
    NoDuplicateTurn
