SPECIFICATION MCSpec
CONSTANTS
    Threads = {1, 2, 3}
    Readers = {1, 2, 3}
    Writers = {2, 3}
    ReaderMask = 2
    Modulus = 2
    LockModulus = 3
    CounterModulus = 4
    Multipliers = {2}
    MaxBehind = 1
    Producer = 1
    Payloads = {1, 2}
    MaxProduces = 2
    MaxRounds = 2
    None = None
    MaxWorkers = 3
    MaxThreadRounds = 2
INVARIANTS
    CountAccurate DataRaceFree NoOrphanWaiting
    SpinDataRaceFree
    ConsumesThisRound
    OneValue
    WorkJoined
PROPERTIES
    ImplementsReadersWriter SomebodyEnters OneWriterRuns
    IncrementsAtomically
    RetriesBounded
    ThreadsGoOn
CHECK_DEADLOCK FALSE
