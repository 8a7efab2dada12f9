SPECIFICATION Spec
CONSTANTS
    AddressSpace = 64
    HeapStart = 4
    HeapEnd = 16
    Layouts <- MCLayouts
    Threads = {t1, t2}
    HeaderSize = 4
    HeaderAlign = 2
    MaxLive = 2
INVARIANT
    NoOverlap
