CONSTANTS
    NoGroup = NoGroup
    NoOrder = NoOrder
    OrderIds <- MCTwoOrders
    GroupIds <- MCGroupIds
    Symbols = {1, 2}
    Verdicts = {"fill", "part"}
    Times = {1, 2, 3}
    Timers = {}
    DateOf <- MCDateOf
    Sessions = {"Continuous"}
    DefaultOffset = 1
    Moves <- MCUnevenPair
    RiskRejects = FALSE
    StrategyCancels = FALSE
SPECIFICATION Spec
INVARIANT FilledCancelsPeer
