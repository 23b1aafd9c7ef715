SPECIFICATION SlubSpec
CONSTANTS
    NPages = 5
    Base = 4
    MaxRef = 2
    PAGE_SIZE = 4096
    SlabSize = 48
    CacheSizes <- BigCaches
    Sizes <- EdgeSizes
    NoSlab = NoSlab
INVARIANTS Partition AllocComplete PartialLists Objects
