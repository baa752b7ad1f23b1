CONSTANTS
    MaxRequests = 3
    MaxOverlap = 0
    MaxCrashes = 0
    Workers = {w1, w2}
    Backends = {"memory"}
    Styles = {"full", "new"}
    Leaving = {FALSE}
    MayFail = FALSE
    MayBeBlank = FALSE
    None = None
    Shared = Shared
SPECIFICATION Spec
CHECK_DEADLOCK FALSE
INVARIANTS
    ContinuesChat
