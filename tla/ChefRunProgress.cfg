SPECIFICATION FairSpec
CONSTANTS
    Pids = {p1, p2, p3}
    Nodes = {n1}
    NoPid = NoPid
    NoNode = NoNode
    MaxFaults = 1
PROPERTIES
    ProgressSpec
    EventuallyReady
