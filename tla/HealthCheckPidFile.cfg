SPECIFICATION Spec
CONSTANTS
    Runs = {r1, r2}
    Workers = {w1}
    Tasks = {t1}
    ChunkSize = 1
    Times = 1
    Before = Before
    NoPid = NoPid
    NoTask = NoTask
PROPERTY GivesWay
CHECK_DEADLOCK FALSE
