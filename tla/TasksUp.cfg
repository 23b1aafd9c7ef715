SPECIFICATION FairSpec
CONSTANTS
    Tasks = {t1, t2}
    NR_CPUS = 1
    NoTask = NoTask
    Calls <- AllCalls
INVARIANTS RunQueues NoLostChild
PROPERTIES QueuedRuns SleepEnds
CHECK_DEADLOCK FALSE
