SPECIFICATION MCSpec
CONSTANTS
    MaxThreads = 4
    Coroutines = {"c1", "c2"}
    Starter = "main"
    RawTops = {264, 280}
    MaxProducers = 3
    MaxItems = 3
    PipeSize = 1
    ChildSize = 1
    MaxChunks = 4
    MaxCount = 3
    Deadlines = {0, 1, 2}
INVARIANTS
    OwnEntry
    FinishedRan
    ReceivesAll
    PipeAnswers
    FuturesAnswer
PROPERTIES
    NoOvertaking
    ResumesWhereLeft
    CallsEnd
CHECK_DEADLOCK FALSE
