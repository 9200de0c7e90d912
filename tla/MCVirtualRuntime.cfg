SPECIFICATION Spec
CONSTANTS
    Episode = episode
    Schedulers <- AllSchedulers
    Period = 2
    ChunkSize = 5
    ExecuteHorizon = 4
    Latencies = {0, 2, 3, 9}
    Thresholds = {0, 4}
    WindowSize = 2
    QuantileNum = 1
    QuantileDen = 2
    Margin = 1
    Hysteresis = 1
    MinIntervals = {1, 5}
    TickCount = 14
INVARIANTS IdleOnlyWhenAsked SupplyCriterion ThresholdTracks
\* The episode ends.
CHECK_DEADLOCK FALSE
