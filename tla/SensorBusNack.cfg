SPECIFICATION Spec
CONSTANTS
    NumSettings = 40
    Nacks <- BothSensors
INVARIANT EndedMeansDone
