SPECIFICATION Spec
CONSTANTS
    net = net
    sub = sub
    port = port
    fip = fip
    rtr = rtr
    face = face
    grp = grp
    dflt = dflt
    rule = rule
    Requests = {q1, q2}
    Ids = {net, sub, port, fip, rtr, face, grp, dflt, rule}
    Kind <- MCKind
    Parents <- MCParents
    Layouts <- MCLayouts
    Versions = {v1, v2}
    Free = Free
    Cidrs <- MCCidrs
    MaxFaults = 1
    NoId = NoId
    NoRequest = NoRequest
    NoPlan = NoPlan
    Unknown = Unknown
    Unspecified = Unspecified
    NoGateway = NoGateway
SYMMETRY Symmetry
INVARIANTS
    TypeOK
    Agree
    PoolsSound
PROPERTIES
    DirectorIsFabric
