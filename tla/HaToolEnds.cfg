SPECIFICATION FairSpec
CONSTANTS
    t1 = t1
    t2 = t2
    Tools = {t1, t2}
    Args <- Together
    Noop = {}
    Now = {t2}
    Agents = {a, b}
    Routers = {r, s}
    Delay = 1
    MaxFaults = 1
    MaxFlaps = 1
    NoAgent = NoAgent
    NoRouter = NoRouter
INVARIANTS
    PairsEven
PROPERTIES
    EveryRunEnds
CHECK_DEADLOCK FALSE
