SPECIFICATION FairSpec
CONSTANTS
    NumSettings = 40
    Nacks <- BothSensors
INVARIANT TypeOK NoTransferRefused DoneIsFresh DriverFollowsBus
PROPERTY SamplesComplete
\* A node whose sensor does not answer in the timer interrupt really stops.
CHECK_DEADLOCK FALSE
