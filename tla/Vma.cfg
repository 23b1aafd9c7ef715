SPECIFICATION MCSpec
CONSTANTS
    PAGE_SIZE = 2
    NPages = 8
    Word = 32
    ImageEnd = 4
    USER_MMAP_BASE = 8
    USER_STACK_TOP = 14
    USER_STACK_SIZE = 2
    Prots <- AskedProts
    Addrs = {0, 4, 6, 8, 11, 20}
    Lens = {2, 3, 30, 31}
    Breaks = {3, 4, 5, 9}
    Unmapped = Unmapped
VIEW Memory
INVARIANTS ListSound AreaFree
PROPERTY RefinesAddressSpace
