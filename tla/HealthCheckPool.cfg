SPECIFICATION FairSpec
CONSTANTS
    Runs = {r1}
    Workers = {w1, w2}
    Tasks = {t1, t2, t3}
    ChunkSize = 2
    Times = 2
    Before = Before
    NoPid = NoPid
    NoTask = NoTask
INVARIANTS
    TypeOK
    EveryTaskAccounted
    NoTaskTwice
PROPERTIES
    BoardSpec
CHECK_DEADLOCK FALSE
