CONSTANTS
    Message = {m1, m2, m3}
    MaxLen = 4
SPECIFICATION Spec
CHECK_DEADLOCK FALSE
INVARIANTS
    WholeHistoryResent
    WindowResent
