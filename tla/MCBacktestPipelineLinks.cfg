CONSTANTS
    NoGroup = NoGroup
    NoOrder = NoOrder
    OrderIds <- MCThreeOrders
    GroupIds <- MCGroupIds
    Symbols = {1, 2}
    Verdicts = {"fill", "unaffordable"}
    Times = {1, 2, 3}
    Timers = {}
    DateOf <- MCDateOf
    Sessions = {"Continuous"}
    DefaultOffset = 1
    Moves <- MCLinks
    RiskRejects = TRUE
    StrategyCancels = TRUE
SPECIFICATION Spec
INVARIANT FilledCancelsPeer
INVARIANT OneOfTwoTrades
INVARIANT ExitsWithinEntry
