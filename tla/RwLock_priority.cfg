SPECIFICATION Spec
CONSTANTS
    Threads = {t1, t2, t3}
    Readers = {t1}
    Writers = {t2, t3}
    ReaderMask = 2
    Modulus = 2
PROPERTY
    WriterPriority
