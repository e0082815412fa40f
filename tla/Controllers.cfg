SPECIFICATION ControllersSpec
CONSTANTS
    Nodes = {1, 2}
    None = None
    Empty = Empty
    MaxFaults = 2
INVARIANTS
    ControllersTypeOK
    OneElected
    EndsWhole
    OneMaster
    PairsMatch
PROPERTIES
    StillTagged
    KeysShared
    PairShared
