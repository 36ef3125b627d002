SPECIFICATION FairSpec
CONSTANTS
    QueueSize  = 2
    IndexRange = 4
    Levels     = 2
    h1 = h1
    p1 = p1
    long = long
    Handlers  <- MCHandlers
    Payloads  <- MCPayloads
    Oversized <- MCOversized
    NoData = NoData
    Unset = Unset
    MaxPaused = 1
INVARIANT TypeOK SlotsAreExclusive SpaceIsExact
PROPERTY ImplementsQueue EveryEventIsHandled
