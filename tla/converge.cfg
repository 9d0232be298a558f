SPECIFICATION Spec
CONSTANTS
    p1 = p1
    p2 = p2
    Peers = {p1}
    Server = Server
    NoPeer = NoPeer
    MaxEntities = 2
    Values = {0, 1}
    ZeroValue = 0
    SeqMod = 8
    SeqCheck = TRUE
    Owners = {NoPeer}
    Established = {p1}
    MaxConnects = 0
    AppOps = {"Set", "Invalidate"}
    Writers = {Server}
    MaxWrites = 2
INVARIANTS Converged AnnouncedLifecycle
