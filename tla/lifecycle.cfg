SPECIFICATION Spec
CONSTANTS
    p1 = p1
    p2 = p2
    Peers = {p1, p2}
    Server = Server
    NoPeer = NoPeer
    MaxEntities = 1
    Values = {0}
    ZeroValue = 0
    SeqMod = 1
    SeqCheck = FALSE
    Owners = {NoPeer, p1}
    Established = {p1}
    MaxConnects = 1
    AppOps = {}
    Writers = {}
    MaxWrites = 0
INVARIANTS TypeOK AnnouncedLifecycle ControlImpliesOwnership
