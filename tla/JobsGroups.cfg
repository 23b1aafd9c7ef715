SPECIFICATION Spec
CONSTANT MaxPid = 4
INVARIANTS LeaderStays
