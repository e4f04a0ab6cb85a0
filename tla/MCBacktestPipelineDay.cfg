CONSTANTS
    NoGroup = NoGroup
    NoOrder = NoOrder
    OrderIds <- MCTwoOrders
    GroupIds <- MCGroupIds
    Symbols = {1, 2}
    Verdicts = {"fill"}
    Times = {1, 2, 3, 4}
    Timers = {}
    DateOf <- MCTwoDates
    Sessions = {"Continuous", "Closed"}
    DefaultOffset = 1
    Moves <- MCDayOrders
    RiskRejects = FALSE
    StrategyCancels = TRUE
SPECIFICATION Spec
INVARIANT DayTradesInItsDay
PROPERTY DayGetsItsSlice
