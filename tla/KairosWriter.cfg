SPECIFICATION FairSpec
CONSTANTS
    Threads = {t1, t2, t3}
    NoThread = NoThread
    Interval = 3
INVARIANTS
    TypeOK
PROPERTIES
    LinesIntact
    AttemptsSpaced
    LockReleased
    EventuallyConnected
