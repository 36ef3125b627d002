SPECIFICATION Spec
CONSTANTS
    b1 = b1
    b2 = b2
    p1 = p1
    p2 = p2
    NONE = NONE
    Pins <- MCButtonAndPins
    NumSlots = 2
    Buttons <- MCOneButton
    Refusals = {"stop", "start"}
INVARIANT TypeOK EdgesAreSeen HandlersAreLive SlotsMatchPins PendingIsTimed SettledIsKnown
PROPERTY HeldIsReported
