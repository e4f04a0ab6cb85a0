CONSTANTS
    NoGroup = NoGroup
    NoOrder = NoOrder
    OrderIds <- MCTwoOrders
    GroupIds <- MCGroupIds
    Symbols = {1, 2}
    Verdicts = {"fill"}
    Times = {1, 2, 3}
    Timers = {2}
    DateOf <- MCTwoDates
    Sessions = {"Continuous"}
    DefaultOffset = 1
    Moves <- MCDayOrders
    RiskRejects = FALSE
    StrategyCancels = FALSE
SPECIFICATION Spec
PROPERTY DayGetsItsSlice
