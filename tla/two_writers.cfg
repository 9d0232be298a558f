SPECIFICATION FairSpec
CONSTANTS
    p1 = p1
    p2 = p2
    Peers = {p1, p2}
    Server = Server
    NoPeer = NoPeer
    MaxEntities = 1
    Values = {0, 1}
    ZeroValue = 0
    SeqMod = 1
    SeqCheck = FALSE
    Owners = {p1}
    Established = {p1, p2}
    MaxConnects = 0
    AppOps = {"Set", "Lock"}
    Writers = {Server, p1}
    MaxWrites = 3
INVARIANTS Converged
PROPERTIES EchoDiesOut
