CONSTANTS
    Events <- MixedEvents
    MaxFrames = 3
SPECIFICATION FairSpec
CHECK_DEADLOCK FALSE
INVARIANTS
    TypeOK
    FramesConserved
    EndsAfterRun
    RelayComplete
    AnswerStreamed
    ErrorBeforeFirstChunk
    NeverEmpty
    WellTerminated
    ReviewEndsWithToolCalls
PROPERTIES
    StreamEnds
    ImplementsClientStream
