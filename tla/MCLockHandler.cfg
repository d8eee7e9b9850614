SPECIFICATION Spec
CONSTANTS
    Threads = {t1, t2, t3}
    Names = {netA, netB}
    LockObjs = {l1, l2, l3}
    NoLock = NoLock
    Nobody = Nobody
INVARIANTS
    TypeOK
    MutualExclusion
PROPERTIES
    LockNeverReplaced
    WaitersProgress
    ImplementsNamedMutex
