SPECIFICATION Spec
CONSTANTS
    t1 = t1
    t2 = t2
    Timers <- MCTimers
    Repeated <- MCRepeated
    Timeouts <- MCTimeouts
    OpQueueSize = 2
    CounterRange = 12
    CompareOffset = 1
    MaxLatency = 1
    Usage = {}
    None = None
INVARIANT TypeOK ListIsSound DistancesTellTheTime CompareIsSet
PROPERTY TimersKeepTheirTime
