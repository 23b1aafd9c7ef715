SPECIFICATION Spec
CONSTANTS
    a = a
    b = b
    t1 = t1
    t2 = t2
    Tasks = {t1, t2}
    NR_OPEN = 2
    MaxFiles = 2
    PAGE_SIZE = 1
    KBUF = 2
    MaxSize = 3
    Bufs <- Strings
    Iovs <- Vectors
    Counts = {1, 3}
    Seeks <- Distances
    Junk = Junk
    Hole = Hole
CONSTRAINT TablesOrData
SYMMETRY Symmetry
INVARIANTS Descriptors ContentKept
CHECK_DEADLOCK FALSE
