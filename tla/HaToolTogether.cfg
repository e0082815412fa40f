SPECIFICATION Spec
CONSTANTS
    t1 = t1
    t2 = t2
    Tools = {t1, t2}
    Args <- Together
    Noop = {}
    Now = {t2}
    Agents = {a, b, c}
    Routers = {r, s}
    Delay = 1
    MaxFaults = 1
    MaxFlaps = 1
    NoAgent = NoAgent
    NoRouter = NoRouter
SYMMETRY Symmetry
INVARIANTS
    TypeOK
    NoRouterForgotten
    Evacuated
    SpreadNotWorse
CHECK_DEADLOCK FALSE
