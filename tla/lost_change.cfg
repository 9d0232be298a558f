SPECIFICATION Spec
CONSTANTS
    Words = {"m_Data"}
    Values = {0, 1}
    Zero = 0
    NoThread = "none"
    CheckSequence = TRUE
    Owned = FALSE
    InOrder = TRUE
    MaxCalls = 2
INVARIANTS
    ChangeSent
