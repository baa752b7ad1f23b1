CONSTANTS
    MaxRequests = 3
    MaxOverlap = 3
    MaxCrashes = 0
    Workers = {w1}
    Backends = {"external"}
    Styles = {"new"}
    Leaving = {TRUE}
    MayFail = FALSE
    MayBeBlank = FALSE
    None = None
    Shared = Shared
SPECIFICATION Spec
CHECK_DEADLOCK FALSE
INVARIANTS
    NoDuplicateTurn
