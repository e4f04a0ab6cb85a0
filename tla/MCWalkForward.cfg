\* The second window's search finds the first window's rows.
SPECIFICATION WalkSpec
CONSTANTS
    p = p
    q = q
    NoRow = NoRow
    Combos <- MCCombos
    Grids <- MCGrids
    Strategies <- MCStrategies
    DataSets <- MCDataSets
    Databases = {TRUE}
    MaxWorkers = 2
    MaxSearches = 2
    Windows = 2
INVARIANT TrainedOnItsWindow
CHECK_DEADLOCK FALSE
