CONSTANTS
    Events <- MixedEvents
    MaxFrames = 3
SPECIFICATION Spec
CHECK_DEADLOCK FALSE
INVARIANTS
    ReviewDoneLast
