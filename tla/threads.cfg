SPECIFICATION FairSpec
CONSTANTS
    Managers <- TwoManagers
    ListManager = "m_Players"
    Applications <- ListPeers
    NoThread = "none"
    Builds <- WorldAndPlayer
    MaxCalls = 1
    MaxEvents = 1
INVARIANTS
    TypeOK
    ENetSafe
    NoCircularWait
    NoOrphanedWait
PROPERTIES
    DestroyReturns
