SPECIFICATION Spec
CONSTANTS
    p1 = p1
    p2 = p2
    mine = mine
    theirs = theirs
    Peers = {p1, p2}
    Server = Server
    NoPeer = NoPeer
    FirstPeer = p2
    Owner = p1
    Keys = {mine, theirs}
    Values = {0, 1}
    Default = 0
    Absent = Absent
    Writer <- EachItsOwn
    MaxWrites = 4
INVARIANTS
    FirstPeerInStep ServerInStep NoEcho
