SPECIFICATION FairSpec
CONSTANTS
    Tools = {s, t}
    DhcpAgents = {a, b}
    Networks = {m, n}
    MaxFaults = 2
    NoAgent = NoAgent
INVARIANTS
    TypeOK
    ReplicatedUnlessSkipped
PROPERTIES
    EventuallyReplicated
