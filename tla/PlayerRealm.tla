---------------------------- MODULE PlayerRealm ----------------------------
(***************************************************************************)
(* CPlayerRealm: the players of a game and their realm IDs.  The ID of a   *)
(* player that leaves goes to the end of a free list and is given out      *)
(* again; the realm keeps an ID in two places, as the key of m_PlayerList  *)
(* and as NetObject::m_RealmID.  The realm has no lock: the application    *)
(* calls it from one thread.  Nothing in the library adds to               *)
(* m_DeletionQueue, so ProcessRealmDeletes finds it empty and changes      *)
(* nothing.                                                                *)
(***************************************************************************)
EXTENDS Integers, Sequences, FiniteSets

CONSTANTS
    Players,     \* the NetObjects (a NetID identifies one)
    Peers,       \* what the application passes to Add
    NoPeer,      \* nullptr
    NoPlayer,    \* no entry in m_PlayerList
    MaxPlayers,  \* bound on the size of m_PlayerList
    AddsAgain    \* does the application Add a player that is in the realm?

ASSUME RealmAssumption ==
    /\ NoPlayer \notin Players
    /\ NoPeer \in Peers
    /\ MaxPlayers \in Nat
    /\ AddsAgain \in BOOLEAN

VARIABLES
    m_PlayerList,  \* per realm ID: the player, or NoPlayer
    m_FreeList,    \* realm IDs to give out again
    m_RealmID,     \* per player: NetObject::m_RealmID
    m_pPeer,       \* per player: NetObject::m_pPeer
    peak           \* history: the most players there have been at one time

vars == <<m_PlayerList, m_FreeList, m_RealmID, m_pPeer, peak>>

IDs == 0 .. MaxPlayers - 1
Taken == {id \in IDs : m_PlayerList[id] # NoPlayer}
Present == {m_PlayerList[id] : id \in Taken}
Free == {m_FreeList[i] : i \in 1 .. Len(m_FreeList)}

\* m_RealmID is not read before Add writes it.
Init ==
    /\ m_PlayerList = [id \in IDs |-> NoPlayer]
    /\ m_FreeList = <<>>
    /\ m_RealmID = [player \in Players |-> 0]
    /\ m_pPeer = [player \in Players |-> NoPeer]
    /\ peak = 0

\* Mutant of GetFreeID: the free list is not looked at.
GetFreeIDBySize == Cardinality(Taken)

GetFreeID == IF m_FreeList = <<>> THEN Cardinality(Taken) ELSE Head(m_FreeList)

Add(player, peer) ==
    /\ Cardinality(Taken) < MaxPlayers
    /\ player \in Present => AddsAgain
    /\ m_PlayerList' = [m_PlayerList EXCEPT ![GetFreeID] = player]
    /\ m_RealmID' = [m_RealmID EXCEPT ![player] = GetFreeID]
    /\ m_pPeer' = [m_pPeer EXCEPT ![player] = peer]
    /\ m_FreeList' = IF m_FreeList = <<>> THEN m_FreeList ELSE Tail(m_FreeList)
    /\ peak' = IF Cardinality(Taken) = peak THEN peak + 1 ELSE peak

\* Mutants of Freed: the NetID is freed, not the realm ID; the ID goes to the list
\* twice.
FreedNetID(id) == Append(m_FreeList, m_PlayerList[id])
FreedTwice(id) == m_FreeList \o <<m_RealmID[m_PlayerList[id]], id>>

\* The free list after the player at id is erased.
Freed(id) == Append(m_FreeList, m_RealmID[m_PlayerList[id]])

Erase(id) ==
    /\ m_FreeList' = Freed(id)
    /\ m_PlayerList' = [m_PlayerList EXCEPT ![id] = NoPlayer]
    /\ UNCHANGED <<m_RealmID, m_pPeer, peak>>

Remove(id) == id \in Taken /\ Erase(id)

\* The first entry, in the order of the keys, whose player has the NetID.
RemoveByNetID(player) ==
    \E id \in Taken :
        /\ m_PlayerList[id] = player
        /\ \A other \in Taken : m_PlayerList[other] = player => id <= other
        /\ Erase(id)

Next == \/ \E player \in Players, peer \in Peers : Add(player, peer)
        \/ \E id \in IDs : Remove(id)
        \/ \E player \in Players : RemoveByNetID(player)

Spec == Init /\ [][Next]_vars
-----------------------------------------------------------------------------
(* Properties.                                                              *)

\* Type invariant.
TypeOK ==
    /\ m_PlayerList \in [IDs -> Players \cup {NoPlayer}]
    /\ m_FreeList \in Seq(IDs)
    /\ m_RealmID \in [Players -> Nat]
    /\ m_pPeer \in [Players -> Peers]
    /\ peak \in 0 .. MaxPlayers

\* Every ID given out so far is either the key of one player or once in the free
\* list, the key agrees with the player's own m_RealmID, and no more IDs were
\* given out than players were present at one time (GetFreeID, Add and both
\* removals, which free m_RealmID but erase by the key).
IDsPartition ==
    /\ Taken \cap Free = {}
    /\ Taken \cup Free = 0 .. peak - 1
    /\ \A i, j \in 1 .. Len(m_FreeList) : m_FreeList[i] = m_FreeList[j] => i = j
    /\ \A id \in Taken : m_RealmID[m_PlayerList[id]] = id

Seat(id) == [player |-> m_PlayerList[id], number |-> m_RealmID[m_PlayerList[id]],
             peer |-> m_pPeer[m_PlayerList[id]]]

EmptySeat == [player |-> NoPlayer, number |-> 0, peer |-> NoPeer]
SeatsOf == [id \in IDs |-> IF id \in Taken THEN Seat(id) ELSE EmptySeat]

Promise == INSTANCE RealmSeats WITH Empty <- EmptySeat, rows <- peak, seats <- SeatsOf

\* The realm keeps numbered seats: an Add takes an empty seat and leaves every
\* other player, with its ID and its peer, where it was (Add writes
\* m_PlayerList[new_ID] without looking at what is there).
ImplementsSeats == Promise!Spec
=============================================================================
