SPECIFICATION Spec
CONSTANTS
    Words = {"low", "high"}
    Values = {0, 1}
    Zero = 0
    NoThread = "none"
    CheckSequence = TRUE
    Owned = TRUE
    InOrder = FALSE
    MaxCalls = 2
INVARIANTS
    TypeOK
    ChangeKept
    ReplicaConverges
    LockStopsAllButOne
