SPECIFICATION Spec
CONSTANTS
    b1 = b1
    b2 = b2
    p1 = p1
    p2 = p2
    NONE = NONE
    Pins <- MCTwoButtons
    NumSlots = 2
    Buttons <- MCTwoButtons
    Refusals = {}
INVARIANT DelayRuns
