CONSTANTS
    MaxRequests = 4
    MaxOverlap = 2
    MaxCrashes = 1
    Workers = {w1, w2}
    Backends = {"null", "external"}
    Styles = {"full", "new"}
    Leaving = {FALSE, TRUE}
    MayFail = TRUE
    MayBeBlank = TRUE
    None = None
    Shared = Shared
SPECIFICATION FairSpec
CHECK_DEADLOCK FALSE
INVARIANTS
    TypeOK
    HistoryAgrees
    SteadyReplies
    CallAnswersQuestion
    ContinuesChat
PROPERTIES
    HistoryGrows
    ImplementsConversation
    EveryRequestEnds
