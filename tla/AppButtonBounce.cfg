SPECIFICATION Spec
CONSTANTS
    b1 = b1
    b2 = b2
    p1 = p1
    p2 = p2
    NONE = NONE
    Pins <- MCOneButton
    NumSlots = 1
    Buttons <- MCOneButton
    Refusals = {}
INVARIANT BouncesAreSettled
