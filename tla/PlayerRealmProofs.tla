------------------------- MODULE PlayerRealmProofs -------------------------
(***************************************************************************)
(* Proofs about CPlayerRealm, for any players, peers and size, under the   *)
(* assumption that the application does not Add a player that is in the    *)
(* realm: the realm IDs are a partition of 0 .. peak - 1 into those in use *)
(* and those in the free list, and the realm implements RealmSeats.        *)
(***************************************************************************)
EXTENDS PlayerRealm, FiniteSetTheorems, SequenceTheorems, TLAPS

Elements(s) == {s[i] : i \in 1 .. Len(s)}
Distinct(s) == \A i, j \in 1 .. Len(s) : s[i] = s[j] => i = j

\* Putting a new element at the end of a list.
LEMMA AppendElements ==
    ASSUME NEW S, NEW s \in Seq(S), NEW x \in S
    PROVE  /\ Elements(Append(s, x)) = Elements(s) \cup {x}
           /\ Distinct(s) /\ x \notin Elements(s) => Distinct(Append(s, x))
<1>1. /\ Len(s) \in Nat /\ Len(Append(s, x)) = Len(s) + 1
      /\ \A i \in 1 .. Len(s) : Append(s, x)[i] = s[i]
      /\ Append(s, x)[Len(s) + 1] = x
  BY AppendProperties
<1>2. 1 .. Len(s) + 1 = (1 .. Len(s)) \cup {Len(s) + 1}
  BY <1>1
<1>3. Elements(Append(s, x)) = Elements(s) \cup {x}
  BY <1>1, <1>2 DEF Elements
<1>4. ASSUME Distinct(s), x \notin Elements(s)
      PROVE  Distinct(Append(s, x))
  BY <1>1, <1>2, <1>4 DEF Distinct, Elements
<1> QED
  BY <1>3, <1>4

\* Taking the first element off a list without repetitions.
LEMMA TailDistinct ==
    ASSUME NEW S, NEW s \in Seq(S), s # <<>>, Distinct(s)
    PROVE  /\ Head(s) \in Elements(s)
           /\ Elements(Tail(s)) = Elements(s) \ {Head(s)}
           /\ Distinct(Tail(s))
<1>1. /\ Len(s) \in Nat \ {0} /\ Len(Tail(s)) = Len(s) - 1 /\ Head(s) = s[1]
      /\ \A i \in 1 .. Len(s) - 1 : Tail(s)[i] = s[i + 1]
  BY HeadTailProperties, EmptySeq
<1>2. \A i \in 1 .. Len(s) : i = 1 \/ (i - 1 \in 1 .. Len(s) - 1 /\ (i - 1) + 1 = i)
  BY <1>1
<1>3. \A i \in 1 .. Len(s) - 1 : i + 1 \in 1 .. Len(s) /\ i + 1 # 1
  BY <1>1
<1>4. Head(s) \in Elements(s)
  BY <1>1 DEF Elements
<1>5. Elements(Tail(s)) \subseteq Elements(s) \ {Head(s)}
  <2> SUFFICES ASSUME NEW i \in 1 .. Len(s) - 1
               PROVE  Tail(s)[i] \in Elements(s) /\ Tail(s)[i] # Head(s)
    BY <1>1 DEF Elements
  <2>1. Tail(s)[i] = s[i + 1] /\ i + 1 \in 1 .. Len(s) /\ i + 1 # 1 /\ 1 \in 1 .. Len(s)
    BY <1>1, <1>3
  <2>2. s[i + 1] # s[1]
    BY <2>1 DEF Distinct
  <2> QED
    BY <1>1, <2>1, <2>2 DEF Elements
<1>6. Elements(s) \ {Head(s)} \subseteq Elements(Tail(s))
  <2> SUFFICES ASSUME NEW i \in 1 .. Len(s), s[i] # Head(s)
               PROVE  s[i] \in Elements(Tail(s))
    BY DEF Elements
  <2>1. i - 1 \in 1 .. Len(s) - 1 /\ (i - 1) + 1 = i
    BY <1>1, <1>2
  <2>2. Tail(s)[i - 1] = s[i] /\ i - 1 \in 1 .. Len(Tail(s))
    BY <1>1, <2>1
  <2> QED
    BY <2>2 DEF Elements
<1>7. Distinct(Tail(s))
  BY <1>1, <1>3 DEF Distinct
<1> QED
  BY <1>4, <1>5, <1>6, <1>7

-----------------------------------------------------------------------------
Inv == TypeOK /\ IDsPartition

LEMMA InitInv == Init => Inv
<1> SUFFICES ASSUME Init PROVE Inv
  OBVIOUS
<1>1. Taken = {} /\ Free = {} /\ Len(m_FreeList) = 0
  BY DEF Init, Taken, Free
<1>2. TypeOK
  BY RealmAssumption DEF Init, TypeOK, IDs
<1>3. 0 .. peak - 1 = {}
  BY DEF Init
<1>4. \A i, j \in 1 .. Len(m_FreeList) : m_FreeList[i] = m_FreeList[j] => i = j
  BY <1>1
<1> QED
  BY <1>1, <1>2, <1>3, <1>4 DEF Inv, IDsPartition

\* What GetFreeID returns, and what Add does to the sets of IDs.
LEMMA FreeID ==
    ASSUME Inv, NEW player \in Players, NEW peer \in Peers, Add(player, peer)
    PROVE  /\ GetFreeID \in IDs \ Taken
           /\ Free' = Free \ {GetFreeID} /\ Distinct(m_FreeList)'
           /\ m_FreeList' \in Seq(IDs)
           /\ \/ GetFreeID \in 0 .. peak - 1 /\ peak' = peak
              \/ Taken = 0 .. peak - 1 /\ GetFreeID = peak /\ peak' = peak + 1
<1>1. /\ Taken \subseteq 0 .. peak - 1 /\ peak \in Nat
      /\ Free = Elements(m_FreeList) /\ Distinct(m_FreeList)
  BY DEF Inv, IDsPartition, TypeOK, Free, Elements, Distinct
<1>2. /\ IsFiniteSet(0 .. peak - 1) /\ Cardinality(0 .. peak - 1) = peak
  BY <1>1, FS_Interval
<1>3. /\ IsFiniteSet(Taken) /\ Cardinality(Taken) \in Nat
      /\ Cardinality(Taken) <= peak
      /\ Cardinality(Taken) = peak => Taken = 0 .. peak - 1
  BY <1>1, <1>2, FS_Subset, FS_CardinalityType
<1>4. CASE m_FreeList = <<>>
  <2>1. Free = {}
    BY <1>4 DEF Free
  <2>2. Taken = 0 .. peak - 1 /\ Cardinality(Taken) = peak
    BY <1>2, <2>1 DEF Inv, IDsPartition
  <2>3. GetFreeID = peak /\ peak' = peak + 1 /\ m_FreeList' = m_FreeList
    BY <1>4, <2>2 DEF Add, GetFreeID
  <2>4. peak \in IDs \ Taken
    <3>1. peak < MaxPlayers
      BY <2>2 DEF Add
    <3>2. peak \notin 0 .. peak - 1
      BY <1>1
    <3> QED
      BY <1>1, <2>2, <3>1, <3>2, RealmAssumption DEF IDs
  <2>5. Free' = Free /\ Distinct(m_FreeList)' /\ m_FreeList' \in Seq(IDs)
    BY <1>1, <2>3 DEF Inv, TypeOK, Free, Distinct
  <2> QED
    BY <2>1, <2>2, <2>3, <2>4, <2>5
<1>5. CASE m_FreeList # <<>>
  <2>1. m_FreeList \in Seq(IDs)
    BY DEF Inv, TypeOK
  <2>2. /\ GetFreeID = Head(m_FreeList) /\ m_FreeList' = Tail(m_FreeList)
    BY <1>5 DEF Add, GetFreeID
  <2>3. /\ GetFreeID \in Free /\ Free' = Free \ {GetFreeID} /\ Distinct(m_FreeList)'
        /\ m_FreeList' \in Seq(IDs)
    <3>1. Free' = Elements(m_FreeList')
      BY DEF Free, Elements
    <3>2. Distinct(m_FreeList)' = Distinct(m_FreeList')
      BY DEF Distinct
    <3> QED
      BY <1>1, <1>5, <2>1, <2>2, <3>1, <3>2, TailDistinct, HeadTailProperties
  <2>4. GetFreeID \in 0 .. peak - 1 /\ GetFreeID \notin Taken
    BY <2>3 DEF Inv, IDsPartition
  <2>5. Cardinality(Taken) # peak
    BY <1>3, <2>4
  <2>6. peak' = peak
    BY <2>5 DEF Add
  <2>7. GetFreeID \in IDs
    BY <2>1, <2>2, <1>5, HeadTailProperties
  <2> QED
    BY <2>3, <2>4, <2>6, <2>7
<1> QED
  BY <1>4, <1>5

LEMMA AddInv ==
    ASSUME ~AddsAgain, Inv, NEW player \in Players, NEW peer \in Peers, Add(player, peer)
    PROVE  Inv'
<1> DEFINE id == GetFreeID
<1>1. /\ id \in IDs \ Taken /\ player \notin Present
      /\ m_PlayerList' = [m_PlayerList EXCEPT ![id] = player]
      /\ m_RealmID' = [m_RealmID EXCEPT ![player] = id]
      /\ m_pPeer' = [m_pPeer EXCEPT ![player] = peer]
  BY FreeID DEF Add
<1>2. /\ Free' = Free \ {id} /\ Distinct(m_FreeList)' /\ m_FreeList' \in Seq(IDs)
      /\ \/ id \in 0 .. peak - 1 /\ peak' = peak
         \/ Taken = 0 .. peak - 1 /\ id = peak /\ peak' = peak + 1
  BY FreeID
<1> HIDE DEF id
<1>3. TypeOK'
  BY <1>1, <1>2, RealmAssumption DEF Inv, TypeOK, IDs
<1>4. Taken' = Taken \cup {id}
  BY <1>1, RealmAssumption DEF Inv, TypeOK, Taken
<1>5. /\ Taken' \cap Free' = {} /\ Taken' \cup Free' = 0 .. peak' - 1
  <2>1. Taken \cap Free = {} /\ Taken \cup Free = 0 .. peak - 1 /\ peak \in Nat
    BY DEF Inv, IDsPartition, TypeOK
  <2>2. CASE id \in 0 .. peak - 1 /\ peak' = peak
    BY <1>2, <1>4, <2>1, <2>2
  <2>3. CASE Taken = 0 .. peak - 1 /\ id = peak /\ peak' = peak + 1
    <3>1. 0 .. peak' - 1 = (0 .. peak - 1) \cup {peak}
      BY <2>1, <2>3
    <3> QED
      BY <1>2, <1>4, <2>1, <2>3, <3>1
  <2> QED
    BY <1>2, <2>2, <2>3
<1>6. \A k \in Taken' : m_RealmID'[m_PlayerList'[k]] = k
  <2> SUFFICES ASSUME NEW k \in Taken' PROVE m_RealmID'[m_PlayerList'[k]] = k
    OBVIOUS
  <2>1. CASE k = id
    BY <1>1, <2>1 DEF Inv, TypeOK
  <2>2. CASE k # id
    <3>1. /\ k \in Taken /\ m_PlayerList'[k] = m_PlayerList[k]
          /\ m_PlayerList[k] \in Players /\ m_PlayerList[k] # player
      BY <1>1, <1>4, <2>2 DEF Inv, TypeOK, Taken, Present
    <3> QED
      BY <1>1, <3>1 DEF Inv, TypeOK, IDsPartition
  <2> QED
    BY <2>1, <2>2
<1> QED
  BY <1>2, <1>3, <1>5, <1>6 DEF Inv, IDsPartition, Distinct

LEMMA EraseInv ==
    ASSUME Inv, NEW id \in Taken, Erase(id)
    PROVE  Inv' /\ Taken' = Taken \ {id}
<1>1. /\ id \in IDs /\ m_RealmID[m_PlayerList[id]] = id
      /\ m_FreeList' = Append(m_FreeList, id)
      /\ m_PlayerList' = [m_PlayerList EXCEPT ![id] = NoPlayer]
      /\ UNCHANGED <<m_RealmID, m_pPeer, peak>>
  BY DEF Inv, IDsPartition, Taken, Erase, Freed
<1>2. m_FreeList \in Seq(IDs) /\ Free = Elements(m_FreeList) /\ Distinct(m_FreeList)
  BY DEF Inv, IDsPartition, TypeOK, Free, Elements, Distinct
<1>3. id \notin Free /\ id \in 0 .. peak - 1
  BY DEF Inv, IDsPartition
<1>4. /\ Free' = Free \cup {id} /\ Distinct(m_FreeList') /\ m_FreeList' \in Seq(IDs)
  <2>1. Free' = Elements(m_FreeList')
    BY DEF Free, Elements
  <2> QED
    BY <1>1, <1>2, <1>3, <2>1, AppendElements, AppendProperties
<1>5. TypeOK'
  BY <1>1, <1>4, RealmAssumption DEF Inv, TypeOK
<1>6. Taken' = Taken \ {id}
  BY <1>1 DEF Inv, TypeOK, Taken
<1>7. Taken' \cap Free' = {} /\ Taken' \cup Free' = 0 .. peak' - 1
  BY <1>1, <1>3, <1>4, <1>6 DEF Inv, IDsPartition
<1>8. \A k \in Taken' : m_RealmID'[m_PlayerList'[k]] = k
  BY <1>1, <1>6 DEF Inv, TypeOK, IDsPartition, Taken
<1> QED
  BY <1>4, <1>5, <1>6, <1>7, <1>8 DEF Inv, IDsPartition, Distinct

LEMMA NextInv ==
    ASSUME ~AddsAgain, Inv, [Next]_vars
    PROVE  Inv'
<1>1. ASSUME NEW player \in Players, NEW peer \in Peers, Add(player, peer)
      PROVE  Inv'
  BY <1>1, AddInv
<1>2. ASSUME NEW id \in IDs, Remove(id)
      PROVE  Inv'
  BY <1>2, EraseInv DEF Remove
<1>3. ASSUME NEW player \in Players, RemoveByNetID(player)
      PROVE  Inv'
  BY <1>3, EraseInv DEF RemoveByNetID
<1>4. CASE UNCHANGED vars
  BY <1>4 DEF vars, Inv, TypeOK, IDsPartition, Taken, Free
<1> QED
  BY <1>1, <1>2, <1>3, <1>4 DEF Next

\* The list, the free list and the players' numbers keep their shape: no ID is
\* taken from an empty free list and none lies past the realm's size (GetFreeID).
THEOREM TypeCorrect ==
    ASSUME ~AddsAgain
    PROVE  Spec => []TypeOK
<1>1. Init => Inv
  BY InitInv
<1>2. Inv /\ [Next]_vars => Inv'
  BY NextInv
<1>3. Inv => TypeOK
  BY DEF Inv
<1> QED
  BY <1>1, <1>2, <1>3, PTL DEF Spec

\* Every realm ID given out is the key of one player, which carries it, or once
\* in the free list: GetFreeID, Add, Remove and RemoveByNetID keep the key and
\* m_RealmID in agreement for every number of players.
THEOREM PartitionCorrect ==
    ASSUME ~AddsAgain
    PROVE  Spec => []IDsPartition
<1>1. Init => Inv
  BY InitInv
<1>2. Inv /\ [Next]_vars => Inv'
  BY NextInv
<1>3. Inv => IDsPartition
  BY DEF Inv
<1> QED
  BY <1>1, <1>2, <1>3, PTL DEF Spec

-----------------------------------------------------------------------------
(* The realm implements RealmSeats.                                         *)

LEMMA MappedSeats ==
    ASSUME Inv
    PROVE  /\ \A id \in IDs : SeatsOf[id] # EmptySeat <=> id \in Taken
           /\ Promise!Occupied = Taken /\ Promise!Seats = IDs
<1>1. \A id \in IDs : SeatsOf[id] = IF id \in Taken THEN Seat(id) ELSE EmptySeat
  BY DEF SeatsOf
<1>2. \A id \in Taken : Seat(id).player # NoPlayer
  BY DEF Taken, Seat
<1>3. EmptySeat.player = NoPlayer
  BY DEF EmptySeat
<1>4. \A id \in IDs : SeatsOf[id] # EmptySeat <=> id \in Taken
  BY <1>1, <1>2, <1>3
<1> QED
  BY <1>4 DEF Promise!Occupied, Promise!Seats, IDs, Taken

LEMMA AddJoins ==
    ASSUME ~AddsAgain, Inv, NEW player \in Players, NEW peer \in Peers, Add(player, peer)
    PROVE  Promise!Join(GetFreeID, player, peer) /\ GetFreeID \in Promise!Seats
<1> DEFINE id == GetFreeID
<1>1. /\ id \in IDs \ Taken /\ player \notin Present
      /\ m_PlayerList' = [m_PlayerList EXCEPT ![id] = player]
      /\ m_RealmID' = [m_RealmID EXCEPT ![player] = id]
      /\ m_pPeer' = [m_pPeer EXCEPT ![player] = peer]
      /\ \/ id \in 0 .. peak - 1 /\ peak' = peak
         \/ Taken = 0 .. peak - 1 /\ id = peak /\ peak' = peak + 1
  BY FreeID DEF Add
<1> HIDE DEF id
<1>2. Taken' = Taken \cup {id}
  BY <1>1, RealmAssumption DEF Inv, TypeOK, Taken
<1>3. \A other \in Taken : SeatsOf[other].player = m_PlayerList[other]
  BY DEF SeatsOf, Taken, Seat
<1>4. \A k \in IDs : SeatsOf'[k] = IF k = id THEN Promise!Seated(id, player, peer)
                                  ELSE SeatsOf[k]
  <2> SUFFICES ASSUME NEW k \in IDs
               PROVE  SeatsOf'[k] = IF k = id THEN Promise!Seated(id, player, peer)
                                    ELSE SeatsOf[k]
    OBVIOUS
  <2>1. SeatsOf'[k] = IF k \in Taken' THEN Seat(k)' ELSE EmptySeat
    BY DEF SeatsOf, EmptySeat
  <2>2. CASE k = id
    BY <1>1, <1>2, <2>1, <2>2 DEF Inv, TypeOK, Seat, Promise!Seated
  <2>3. CASE k # id /\ k \in Taken
    <3>1. m_PlayerList'[k] = m_PlayerList[k] /\ m_PlayerList[k] \in Players
      BY <1>1, <2>3 DEF Inv, TypeOK, Taken
    <3>2. m_PlayerList[k] # player
      BY <1>1, <2>3 DEF Present
    <3> QED
      BY <1>1, <1>2, <2>1, <2>3, <3>1, <3>2 DEF Inv, TypeOK, Seat, SeatsOf
  <2>4. CASE k # id /\ k \notin Taken
    BY <1>2, <2>1, <2>4 DEF SeatsOf
  <2> QED
    BY <2>2, <2>3, <2>4
<1>5. SeatsOf' = [SeatsOf EXCEPT ![id] = Promise!Seated(id, player, peer)]
  <2>1. SeatsOf = [k \in IDs |-> SeatsOf[k]] /\ SeatsOf' = [k \in IDs |-> SeatsOf'[k]]
    BY DEF SeatsOf
  <2> QED
    BY <1>1, <1>4, <2>1
<1>6. \A other \in Taken : m_PlayerList[other] # player
  BY <1>1 DEF Present
<1>7. SeatsOf[id] = EmptySeat
  BY <1>1 DEF SeatsOf
<1>8. id \in 0 .. peak - 1 => id < peak
  BY DEF Inv, TypeOK
<1>9. Promise!Join(id, player, peer)
  BY <1>1, <1>3, <1>5, <1>6, <1>7, <1>8, MappedSeats DEF Promise!Join
<1> QED
  BY <1>1, <1>9, MappedSeats DEF id

LEMMA EraseLeaves ==
    ASSUME Inv, NEW id \in Taken, Erase(id)
    PROVE  Promise!Leave(id) /\ id \in Promise!Seats
<1>1. Taken' = Taken \ {id} /\ id \in IDs
  BY EraseInv DEF Taken
<1>2. \A k \in IDs : k # id => m_PlayerList'[k] = m_PlayerList[k]
  BY DEF Erase, Inv, TypeOK
<1>3. \A k \in IDs : SeatsOf'[k] = IF k = id THEN EmptySeat ELSE SeatsOf[k]
  BY <1>1, <1>2 DEF SeatsOf, Seat, EmptySeat, Erase
<1>4. SeatsOf' = [SeatsOf EXCEPT ![id] = EmptySeat]
  <2>1. SeatsOf = [k \in IDs |-> SeatsOf[k]] /\ SeatsOf' = [k \in IDs |-> SeatsOf'[k]]
    BY DEF SeatsOf
  <2> QED
    BY <1>1, <1>3, <2>1
<1>5. SeatsOf[id] # EmptySeat
  BY <1>1, MappedSeats
<1> QED
  BY <1>1, <1>4, <1>5, MappedSeats DEF Promise!Leave, Erase

\* The realm keeps numbered seats: Add seats a player in an empty seat and
\* disturbs nobody; Remove and RemoveByNetID empty one seat.
THEOREM RealmImplementsSeats ==
    ASSUME ~AddsAgain
    PROVE  Spec => ImplementsSeats
<1>1. Init => Inv
  BY InitInv
<1>2. Inv /\ [Next]_vars => Inv'
  BY NextInv
<1>3. Init => Promise!Init
  BY DEF Init, Promise!Init, Promise!Seats, SeatsOf, Taken, IDs
<1>4. ASSUME Inv, [Next]_vars
      PROVE  [Promise!Next]_<<SeatsOf, peak>>
  <2>1. ASSUME NEW player \in Players, NEW peer \in Peers, Add(player, peer)
        PROVE  Promise!Next
    BY <1>4, <2>1, AddJoins DEF Promise!Next
  <2>2. ASSUME NEW id \in IDs, Remove(id)
        PROVE  Promise!Next
    BY <1>4, <2>2, EraseLeaves DEF Remove, Promise!Next
  <2>3. ASSUME NEW player \in Players, RemoveByNetID(player)
        PROVE  Promise!Next
    BY <1>4, <2>3, EraseLeaves DEF RemoveByNetID, Promise!Next
  <2>4. CASE UNCHANGED vars
    BY <2>4 DEF vars, SeatsOf, Seat, Taken
  <2> QED
    BY <1>4, <2>1, <2>2, <2>3, <2>4 DEF Next
<1> QED
  BY <1>1, <1>2, <1>3, <1>4, PTL DEF Spec, ImplementsSeats, Promise!Spec
=============================================================================
