SPECIFICATION Spec
CONSTANTS
    p1 = p1
    p2 = p2
    Peers = {p1, p2}
    Server = Server
    NoPeer = NoPeer
    MaxEntities = 1
    Values = {0, 1}
    ZeroValue = 0
    SeqMod = 8
    SeqCheck = TRUE
    Owners = {NoPeer}
    Established = {p1}
    MaxConnects = 1
    AppOps = {"Set"}
    Writers = {Server}
    MaxWrites = 1
INVARIANTS
    Converged
