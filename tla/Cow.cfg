SPECIFICATION Spec
CONSTANTS
    Procs = {p1, p2, p3}
    Frames = {f1, f2}
    Pages <- OnePage
    Values <- Bits
    Zero = 0
    Junk = Junk
    Prots <- NoneReadWrite
    NoVma = NoVma
    NoPte = NoPte
    NoFrame = NoFrame
    NoProc = NoProc
SYMMETRY Symmetry
INVARIANTS TlbCoherent AccessExact WritableIsPrivate SoleOwnerStable RefCounts
PROPERTIES RefinesPrivateMemory
CHECK_DEADLOCK FALSE
