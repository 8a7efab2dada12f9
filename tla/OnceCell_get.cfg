SPECIFICATION MCSpec
CONSTANTS
    Threads = {1, 2}
    Readers = {1}
    Writers = {2}
    ReaderMask = 1
    Modulus = 2
    LockModulus = 3
    CounterModulus = 2
    Multipliers = {2}
    MaxBehind = 1
    Producer = 1
    Payloads = {1}
    MaxProduces = 1
    MaxRounds = 1
    None = None
    MaxWorkers = 2
    MaxThreadRounds = 1
INVARIANT
    GetSeesInitialized
CHECK_DEADLOCK FALSE
