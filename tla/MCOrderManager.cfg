CONSTANTS
    o1 = o1
    o2 = o2
    o3 = o3
    o4 = o4
    k1 = k1
    k2 = k2
    NoGroup = NoGroup
    OrderIds <- MCOrderIds
    GroupIds <- MCGroupIds
    BracketGroup <- MCBracketGroup
    Entries <- MCEntries
    Quantities = {1}
    KeysAreFresh = TRUE
    MaxRows = 1
SPECIFICATION Spec
SYMMETRY Symmetry
INVARIANT OcoIndex
INVARIANT BracketKeyUnused
PROPERTY CleanupUnbinds
CHECK_DEADLOCK FALSE
