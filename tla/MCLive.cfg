\* A queue stopped and started again; a stream with two ends; two trades,
\* each pushed at most once and replayed any number of times.
SPECIFICATION Spec
CONSTANTS
    t1 = t1
    t2 = t2
    QueueSizes = {0, 1}
    MaxPuts = 3
    MaxStarts = 2
    MaxEntries = 3
    BatchSize = 2
    MaxEnds = 2
    Trades <- MCTrades
    MaxPushes = 1
    ReadPhases = {"done"}
INVARIANT NoSignalLost
INVARIANT HandledOnceOrPending
INVARIANT CountedAtMostOnce
PROPERTY StopEnds
PROPERTY EntriesDispatched
PROPERTY TradesToldOnce
PROPERTY TradesReachStrategy
CHECK_DEADLOCK FALSE
