SPECIFICATION MCSpec
CONSTANTS
    AddressSpace = 64
    HeapStart = 5
    HeapEnd = 11
    Layouts <- MCLayouts
    Threads = {t1, t2, t3}
    Resetters = {t1, t2}
    Single = t1
    ListStart = 4
    ListEnd = 20
    ListLayouts <- MCListLayouts
    HeaderSize = 4
    HeaderAlign = 2
    MaxLive = 3
    Files = {f1, f2}
    MaxFds = 4
    MemSize = 5
    MemBytes = {0, 1, 2}
    Words = {w1, w2}
    Live = Live
    Junk = Junk
INVARIANTS
    NoOverlap
    BlocksInHeap
    BlocksDisjoint
    CallServed
PROPERTIES
    CallsReturn
    ImplementsDescriptors
    MemoryCallsCorrect
CHECK_DEADLOCK FALSE
