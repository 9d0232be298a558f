SPECIFICATION Spec
CONSTANTS
    Managers <- OneManager
    ListManager = "m_World"
    Applications <- PlainPeers
    NoThread = "none"
    Builds <- BothWorld
    MaxCalls = 1
    MaxEvents = 1
INVARIANTS
    UniqueIDs
