CONSTANTS
    o1 = o1
    o2 = o2
    o3 = o3
    o4 = o4
    k1 = k1
    k2 = k2
    NoGroup = NoGroup
    OrderIds <- MCFourOrderIds
    GroupIds <- MCGroupIds
    BracketGroup <- MCBracketGroup
    Entries <- MCNoEntries
    Quantities = {1}
    KeysAreFresh = FALSE
    MaxRows = 1
SPECIFICATION Spec
INVARIANT PeersAreMutual
CHECK_DEADLOCK FALSE
