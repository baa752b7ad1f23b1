CONSTANTS
    Statuses = {400, 429, 500}
    MaxAttempts = 4
SPECIFICATION Spec
CHECK_DEADLOCK FALSE
INVARIANTS
    TypeOK
    SentAsConfigured
    FailsForAReason
    NoConnectionHeld
PROPERTIES
    NeverResentOnceOpen
