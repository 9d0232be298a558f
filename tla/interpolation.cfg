SPECIFICATION Spec
CONSTANTS
    Unit = 625
    Received <- Positions
    Junk <- Unfilled
    TimeFrame = 10
    HalfSteps = {6, 12}
    MaxUpdates = 4
    MaxRenders = 3
INVARIANTS TypeOK Settles
PROPERTIES  NoJump
