SPECIFICATION Spec
CONSTANTS
    Pids = {p1, p2, p3}
    Nodes = {n1, n2}
    NoPid = NoPid
    NoNode = NoNode
    MaxFaults = 1
SYMMETRY PidNodeSymmetry
INVARIANTS
    TypeOK
    OneScriptUnlessRaced
    ReadyIsConverged
PROPERTIES
    CleanExit
