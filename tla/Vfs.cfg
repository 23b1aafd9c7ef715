SPECIFICATION Spec
CONSTANTS
    a = a
    b = b
    Names = {a, b}
    Tasks = {1}
    MaxIno = 3
    MaxDentry = 3
    MaxFd = 0
    MaxDepth = 2
    Targets <- LinkTargets
    Nodes = {"dir", "chr"}
    MaxNlink = 2
    MaxExec = 1
CONSTRAINT TreeOrLinks
INVARIANTS DcacheCoherent TreeShape CountsExact FreedOnLast
CHECK_DEADLOCK FALSE
