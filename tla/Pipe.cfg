SPECIFICATION FairSpec
CONSTANTS
    Procs = {p1, p2}
    PIPE_SIZE = 2
    Bytes <- Bits
    MaxCount = 2
INVARIANTS NoLostWakeup Lifetime
PROPERTIES RefinesFifo CallsEnd
CHECK_DEADLOCK FALSE
