\* A daily timer in a run that does not know its trading days.
SPECIFICATION UnknownDaysSpec
CONSTANTS
    none = none
    s1 = s1
    s2 = s2
    w1 = w1
    w2 = w2
    c1 = c1
    b1 = b1
    h1 = h1
    h2 = h2
    Signals <- MCSignalIds
    Workers <- MCWorkers
    NoSignal = none
    Capacity = 1
    MaxSends = 2
    ClientIds = {c1}
    Capabilities <- MCCapabilities
    Answers <- MCAnswers
    Quantities = {1, 3}
    MaxOrders = 3
    Brackets = {b1}
    EntryFills = 2
    MaxAttempts = 3
    Handlers <- MCHandlers
    Nobody = none
    p1 = p1
    p2 = p2
    p3 = p3
    NoRow = none
    Combos <- MCCombos
    Grids <- MCGrids
    Strategies <- MCStrategies
    DataSets <- MCDataSets
    Databases = {TRUE, FALSE}
    MaxWorkers = 2
    MaxSearches = 2
    a1 = a1
    a2 = a2
    Width = 6
    OpenSlots = {2, 3, 5}
    Feeds <- MCOneFeed
    Starts = {0}
    Settings <- MCUnknownDays
    DailyTimes <- MCDailyTimes
    NextDaily = 40
    NoSymbol = none
INVARIANT DailyTimerOncePerDate
CHECK_DEADLOCK FALSE
