----------------------------- MODULE RealmSeats -----------------------------
(***************************************************************************)
(* What a CPlayerRealm promises: numbered seats.  A player that joins gets *)
(* an empty seat and keeps it, with its number and its peer, until it      *)
(* leaves; nobody is seated twice, and no seat is beyond the number of     *)
(* players there have been at one time.                                    *)
(***************************************************************************)
EXTENDS Integers, FiniteSets

CONSTANTS Players, Peers, Empty, MaxPlayers

VARIABLES
    seats,   \* per seat: Empty, or the player with its number and its peer
    rows     \* the seats there are: 0 .. rows - 1

Seats == 0 .. MaxPlayers - 1
Seated(id, player, peer) == [player |-> player, number |-> id, peer |-> peer]
Occupied == {id \in Seats : seats[id] # Empty}

Init == seats = [id \in Seats |-> Empty] /\ rows = 0

\* A new seat is added only when every seat is taken.
Join(id, player, peer) ==
    /\ seats[id] = Empty
    /\ \A other \in Occupied : seats[other].player # player
    /\ seats' = [seats EXCEPT ![id] = Seated(id, player, peer)]
    /\ \/ id < rows /\ rows' = rows
       \/ Occupied = 0 .. rows - 1 /\ id = rows /\ rows' = rows + 1

Leave(id) ==
    /\ seats[id] # Empty
    /\ seats' = [seats EXCEPT ![id] = Empty]
    /\ rows' = rows

Next == \E id \in Seats : \/ Leave(id)
                          \/ \E player \in Players, peer \in Peers : Join(id, player, peer)

Spec == Init /\ [][Next]_<<seats, rows>>
=============================================================================
