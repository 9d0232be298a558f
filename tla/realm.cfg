SPECIFICATION Spec
CONSTANTS
    a = a
    b = b
    c = c
    d = d
    peer = peer
    Players = {a, b, c}
    Peers = {NoPeer, peer}
    NoPeer = NoPeer
    NoPlayer = NoPlayer
    MaxPlayers = 3
    AddsAgain = FALSE
INVARIANTS
    TypeOK IDsPartition
PROPERTIES
    ImplementsSeats
