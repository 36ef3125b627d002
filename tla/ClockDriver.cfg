SPECIFICATION Spec
CONSTANTS
    i1 = i1
    i2 = i2
    Items <- MCItems
    NULL = NULL
    MaxHeld = 2
    Careful = TRUE
INVARIANT TypeOK RequestedRuns OnMeansRunning NoHandlerIsLost
PROPERTY QueuedIsCalled
