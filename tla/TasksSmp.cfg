SPECIFICATION Spec
CONSTANTS
    Tasks = {t1, t2}
    NR_CPUS = 2
    NoTask = NoTask
    Calls <- ForkAndWait
SYMMETRY Symmetry
CONSTRAINT BeforeFindings
INVARIANTS RunQueues
CHECK_DEADLOCK FALSE
