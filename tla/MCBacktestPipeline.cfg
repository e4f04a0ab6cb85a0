CONSTANTS
    NoGroup = NoGroup
    NoOrder = NoOrder
    OrderIds <- MCTwoOrders
    GroupIds <- MCGroupIds
    Symbols = {1, 2}
    Verdicts = {"fill", "part", "cut", "unaffordable"}
    Times = {1, 2, 3}
    Timers = {2, 3}
    DateOf <- MCDateOf
    Sessions = {"Continuous"}
    DefaultOffset = 1
    Moves <- MCRotations
    RiskRejects = TRUE
    StrategyCancels = TRUE
SPECIFICATION Spec
INVARIANT BookAgreement
INVARIANT HistoryOnce
INVARIANT TradesAccounted
INVARIANT RejectionsTold
PROPERTY NextBarWaits
PROPERTY NothingStranded
PROPERTY ReducesFundIncreases
PROPERTY OrdersLiveOnce
PROPERTY Termination
