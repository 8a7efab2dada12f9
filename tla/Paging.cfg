SPECIFICATION CarefulSpec
CONSTANTS
    Capacity = 2
    Asids = {0, 1}
    Vpns = {0, 1}
    Ppns = {0, 1}
    Fault = Fault
    MaxMappings = 3
    PtEntries = 2
    Pages <- MCPages
    Superpages <- MCSuperpages
    Frames = {100, 101}
    SuperFrames = {100, 102}
    OffsetBits = 1
    AddressBits = 3
    MaxPages = 2
    TablePpns = {0, 1, 5}
    FlagBits = 4
    PpnShift = 5
    PpnBits = 2
    Width = 8
    PpnArgs = {0, 3, 5, 7}
    FlagArgs = {0, 1, 2, 3, 4, 5, 8, 9, 11, 13, 15, 16, 19, 33, 255}
INVARIANTS
    Coherent
    Tree
    FramesApart
    PteFields
PROPERTIES
    EvictsOldest
    CacheIsTransparent
    ImplementsPageMap
CHECK_DEADLOCK FALSE
