------------------------- MODULE ReplicationProofs -------------------------
(***************************************************************************)
(* Machine-checked proofs about Replication, for every number of peers,    *)
(* objects, connections and writes.                                        *)
(***************************************************************************)
EXTENDS Replication, TLAPS, SequenceTheorems

-----------------------------------------------------------------------------
(* Typing of the operators the actions are built from.                      *)

LEMMA NewVarType == NewVar \in NetVar
BY DataAssumption DEF NewVar, NetVar, SeqNumbers

LEMMA FrameTypes ==
    /\ NoFrame \in Frame
    /\ DeallocFrame \in Frame
    /\ \A c \in Controllers : AllocFrame(c) \in Frame
BY DataAssumption DEF ListFrame, NoFrame, DeallocFrame, AllocFrame, Frame, Controllers, SeqNumbers

LEMMA NoPacketType == NoPacket \in Packet
BY FrameTypes DEF NoPacket, Packet

LEMMA NextSequence ==
    ASSUME NEW s \in SeqNumbers
    PROVE  (s + 1) % SeqMod \in SeqNumbers
BY DataAssumption DEF SeqNumbers

LEMMA DataFrameType ==
    ASSUME NEW v \in NetVar, NEW f \in BOOLEAN
    PROVE  DataFrame(v, f) \in Frame
BY NextSequence DEF DataFrame, Frame, NetVar, Controllers

\* A snapshot writes well-formed frames and leaves well-formed variables.
LEMMA SnapshotTypes ==
    ASSUME NEW v \in [IDs -> NetVar], NEW ids, NEW f \in BOOLEAN
    PROVE  /\ SnapshotPacket(v, ids, f) \in Packet
           /\ SnapshotVars(v, ids, f) \in [IDs -> NetVar]
<1>1. SnapshotPacket(v, ids, f) \in Packet
  BY FrameTypes, DataFrameType DEF SnapshotPacket, Packet
<1>2. \A id \in IDs : SentVar(v[id]) \in NetVar
  BY NextSequence DEF SentVar, NetVar
<1>3. SnapshotVars(v, ids, f) \in [IDs -> NetVar]
  BY <1>2 DEF SnapshotVars
<1> QED
  BY <1>1, <1>3

LEMMA ListPacketType ==
    ASSUME NEW ids, NEW own, NEW p
    PROVE  ListPacket(ids, own, p) \in Packet
BY FrameTypes DEF ListPacket, Packet, Controllers

LEMMA SendType ==
    ASSUME NEW q \in [Peers -> Seq(Packet)], NEW to, NEW packet \in Packet
    PROVE  Send(q, to, packet) \in [Peers -> Seq(Packet)]
<1>1. ASSUME NEW p \in Peers
      PROVE  Append(q[p], packet) \in Seq(Packet)
  <2>1. q[p] \in Seq(Packet)
    OBVIOUS
  <2> QED
    BY <2>1, AppendProperties
<1> QED
  BY <1>1 DEF Send

LEMMA ApplyType ==
    ASSUME NEW v \in NetVar, NEW frame \in Frame
    PROVE  Apply(v, frame) \in NetVar
BY DEF Apply, NetVar, Frame

\* Taking the first packet of a non-empty queue.
LEMMA DequeueTypes ==
    ASSUME NEW q \in [Peers -> Seq(Packet)], NEW p \in Peers, q[p] # <<>>
    PROVE  /\ Head(q[p]) \in Packet
           /\ [q EXCEPT ![p] = Tail(@)] \in [Peers -> Seq(Packet)]
<1>1. q[p] \in Seq(Packet)
  OBVIOUS
<1>2. Head(q[p]) \in Packet /\ Tail(q[p]) \in Seq(Packet)
  BY <1>1, HeadTailProperties
<1> QED
  BY <1>2

\* A client's objects, controllers and variables after a packet.
LEMMA HandleEntSnapshotTypes ==
    ASSUME TypeOK, NEW p \in Peers, NEW packet \in Packet,
           HandleEntSnapshot(p, packet)
    PROVE  /\ objects' \in [Hosts -> SUBSET IDs]
           /\ controller' \in [Hosts -> [IDs -> Controllers]]
           /\ var' \in [Hosts -> [IDs -> NetVar]]
<1> p \in Hosts
  BY DEF Hosts
<1>1. objects' \in [Hosts -> SUBSET IDs]
  BY DEF HandleEntSnapshot, TypeOK
<1>2. controller' \in [Hosts -> [IDs -> Controllers]]
  <2>1. \A id \in IDs : packet[id].controller \in Controllers
    BY DEF Packet, Frame
  <2> QED
    BY <2>1 DEF HandleEntSnapshot, TypeOK, Controllers
<1>3. var' \in [Hosts -> [IDs -> NetVar]]
  <2>1. \A id \in IDs : Apply(var[p][id], packet[id]) \in NetVar
    BY ApplyType DEF TypeOK, Packet
  <2> QED
    BY <2>1, NewVarType DEF HandleEntSnapshot, TypeOK
<1> QED
  BY <1>1, <1>2, <1>3

-----------------------------------------------------------------------------
LEMMA InitTypeOK == Init => TypeOK
<1> SUFFICES ASSUME Init PROVE TypeOK
  OBVIOUS
<1>1. <<>> \in Seq(Packet)
  BY EmptySeq
<1>2. MaxEntities \in Nat /\ MaxConnects \in Nat /\ MaxWrites \in Nat
  BY BoundsAssumption
<1>3. /\ broadcast \in [Peers -> Seq(Packet)]
      /\ direct \in [Peers -> Seq(Packet)]
      /\ uplink \in [Peers -> Seq(Packet)]
  BY <1>1 DEF Init
<1>4. /\ var \in [Hosts -> [IDs -> NetVar]]
      /\ sync \in [stage : SyncStages, packet : Packet]
      /\ building \in Builds
      /\ net \in NetStates
  BY NewVarType, NoPacketType DEF Init, SyncStages, Builds, NetStates
<1> QED
  BY <1>2, <1>3, <1>4, HostsAssumption DEF Init, TypeOK, Controllers

\* The parts of TypeOK' that a step leaves alone follow from UNCHANGED.
LEMMA BuildBeginType ==
    ASSUME TypeOK, NEW o \in Owners, BuildBegin(o)
    PROVE  TypeOK'
<1>1. s_TotalEntities \in IDs /\ s_TotalEntities' \in 0 .. MaxEntities
  BY BoundsAssumption DEF TypeOK, BuildBegin, IDs
<1>2. var[Server] \in [IDs -> NetVar]
  BY DEF TypeOK, Hosts
<1>3. building' \in Builds
  <2>1. SnapshotPacket(var[Server], Local(Server), FALSE) \in [IDs -> Frame]
    BY <1>2, SnapshotTypes DEF Packet
  <2>2. AllocFrame("NONE") \in Frame
    BY FrameTypes DEF Controllers
  <2>3. [SnapshotPacket(var[Server], Local(Server), FALSE)
         EXCEPT ![s_TotalEntities] = AllocFrame("NONE")] \in Packet
    BY <2>1, <2>2 DEF Packet
  <2> QED
    BY <1>1, <2>3, HostsAssumption DEF BuildBegin, Builds
<1>4. var' \in [Hosts -> [IDs -> NetVar]]
  BY <1>2, SnapshotTypes DEF BuildBegin, TypeOK
<1> QED
  BY <1>1, <1>3, <1>4 DEF BuildBegin, TypeOK, netVars

LEMMA BuildPublishType ==
    ASSUME TypeOK, BuildPublish
    PROVE  TypeOK'
<1>1. /\ building.id \in IDs
      /\ building.owner \in Peers \cup {NoPeer}
      /\ building.packet \in Packet
  BY DEF TypeOK, BuildPublish, Builds
<1>2. Server \in Hosts /\ var[Server] \in [IDs -> NetVar]
  BY DEF TypeOK, Hosts
<1>3. objects' \in [Hosts -> SUBSET IDs] /\ held' \subseteq IDs
  BY <1>1, <1>2 DEF BuildPublish, TypeOK
<1>4. controller' \in [Hosts -> [IDs -> Controllers]]
  BY <1>1, <1>2 DEF BuildPublish, TypeOK, Controllers
<1>5. owner' \in [IDs -> Peers \cup {NoPeer}]
  BY <1>1 DEF BuildPublish, TypeOK
<1>6. var' \in [Hosts -> [IDs -> NetVar]]
  BY <1>2, SnapshotTypes DEF BuildPublish, TypeOK
<1>7. broadcast' \in [Peers -> Seq(Packet)]
  BY <1>1, SendType DEF BuildPublish, TypeOK
<1>8. direct' \in [Peers -> Seq(Packet)]
  <2> DEFINE ids == objects[Server] \cup {building.id}
             own == [owner EXCEPT ![building.id] = building.owner]
             to == {building.owner} \cap connected
             listing == ListPacket(ids, own, building.owner)
             full == SnapshotPacket(var[Server], ids, TRUE)
  <2>1. listing \in Packet /\ full \in Packet
    BY <1>2, ListPacketType, SnapshotTypes
  <2>2. direct' = Send(Send(direct, to, listing), to, full)
    BY DEF BuildPublish
  <2>3. direct \in [Peers -> Seq(Packet)]
    BY DEF TypeOK
  <2> HIDE DEF to, listing, full
  <2>4. Send(direct, to, listing) \in [Peers -> Seq(Packet)]
    BY <2>1, <2>3, SendType
  <2> QED
    BY <2>1, <2>2, <2>4, SendType
<1>9. building' \in Builds
  BY DEF BuildPublish, Builds
<1>10. listed' \in [Peers -> 0 .. MaxEntities]
  BY DEF BuildPublish, TypeOK
<1> QED
  BY <1>3, <1>4, <1>5, <1>6, <1>7, <1>8, <1>9, <1>10 DEF BuildPublish, TypeOK

\* Release, Set, Invalidate and Lock.
LEMMA ReleaseType ==
    ASSUME TypeOK, NEW id \in IDs, Release(id)
    PROVE  TypeOK'
BY DEF Release, TypeOK, hostVars, netVars

LEMMA AppWriteType ==
    ASSUME TypeOK, NEW h \in Hosts, NEW id \in IDs, NEW v \in NetVar, AppWrite(h, id, v)
    PROVE  TypeOK'
<1>1. var' \in [Hosts -> [IDs -> NetVar]]
  BY DEF AppWrite, TypeOK
<1>2. writes' \in 0 .. MaxWrites
  BY BoundsAssumption DEF AppWrite, TypeOK
<1> QED
  BY <1>1, <1>2 DEF AppWrite, TypeOK, serverVars, netVars

LEMMA NetVarCallType ==
    ASSUME TypeOK, NEW h \in Hosts, NEW id \in IDs,
           \/ \E value \in Values : Set(h, id, value)
           \/ Invalidate(h, id)
           \/ Lock(h, id)
    PROVE  TypeOK'
<1>1. var[h][id] \in NetVar
  BY DEF TypeOK
<1>2. /\ \A value \in Values : ChangedVar(var[h][id], value) \in NetVar
      /\ ChangedVar(var[h][id], var[h][id].data) \in NetVar
      /\ LockToggled(var[h][id]) \in NetVar
  BY <1>1 DEF ChangedVar, LockToggled, NetVar
<1> QED
  BY <1>2, AppWriteType DEF Set, Invalidate, Lock

\* The server's sync thread.
LEMMA SyncType ==
    ASSUME TypeOK, Sync
    PROVE  TypeOK'
<1>1. Server \in Hosts /\ var[Server] \in [IDs -> NetVar]
  BY DEF TypeOK, Hosts
<1>2. CASE SyncSnapshot
  <2>1. sync' \in [stage : SyncStages, packet : Packet]
    BY <1>1, <1>2, SnapshotTypes DEF SyncSnapshot, SyncStages
  <2>2. var' \in [Hosts -> [IDs -> NetVar]]
    BY <1>1, <1>2, SnapshotTypes DEF SyncSnapshot, TypeOK
  <2> QED
    BY <1>2, <2>1, <2>2 DEF SyncSnapshot, TypeOK, netVars
<1>3. CASE SyncBroadcast
  <2>1. sync' \in [stage : SyncStages, packet : Packet]
    BY <1>3, NoPacketType DEF SyncBroadcast, SyncStages
  <2>2. broadcast' \in [Peers -> Seq(Packet)]
    BY <1>3, SendType DEF SyncBroadcast, TypeOK
  <2> QED
    BY <1>3, <2>1, <2>2 DEF SyncBroadcast, TypeOK, hostVars
<1>4. CASE SyncPostUpdate
  <2>1. sync' \in [stage : SyncStages, packet : Packet]
    BY <1>4 DEF SyncPostUpdate, SyncStages, TypeOK
  <2>2. objects' \in [Hosts -> SUBSET IDs]
    BY <1>1, <1>4 DEF SyncPostUpdate, TypeOK
  <2>3. controller' \in [Hosts -> [IDs -> Controllers]]
    BY <1>1, <1>4 DEF SyncPostUpdate, TypeOK, Controllers
  <2>4. var' \in [Hosts -> [IDs -> NetVar]]
    BY <1>1, <1>4, NewVarType DEF SyncPostUpdate, TypeOK
  <2>5. broadcast' \in [Peers -> Seq(Packet)]
    <3> DEFINE frees == [id \in IDs |-> IF id \in objects[Server] \ held
                                        THEN DeallocFrame ELSE NoFrame]
    <3>1. frees \in Packet
      BY FrameTypes DEF Packet
    <3>2. broadcast' = Send(broadcast, connected, frees)
      BY <1>4 DEF SyncPostUpdate
    <3> HIDE DEF frees
    <3> QED
      BY <3>1, <3>2, SendType DEF TypeOK
  <2> QED
    BY <1>4, <2>1, <2>2, <2>3, <2>4, <2>5 DEF SyncPostUpdate, TypeOK
<1> QED
  BY <1>2, <1>3, <1>4 DEF Sync

\* The server's network thread.
LEMMA NetType ==
    ASSUME TypeOK, Net
    PROVE  TypeOK'
<1>1. Server \in Hosts /\ var[Server] \in [IDs -> NetVar]
  BY DEF TypeOK, Hosts
<1>2. ASSUME NEW p \in Peers, Connect(p)
      PROVE  TypeOK'
  <2>1. connects' \in [Peers -> 0 .. MaxConnects]
    BY <1>2, BoundsAssumption DEF Connect, TypeOK
  <2>2. net' \in NetStates
    BY <1>2 DEF Connect, NetStates
  <2> QED
    BY <1>2, <2>1, <2>2 DEF Connect, TypeOK, hostVars
<1>3. ASSUME NEW p \in Peers, ServerReceive(p)
      PROVE  TypeOK'
  <2>1. Head(uplink[p]) \in Packet /\ uplink' \in [Peers -> Seq(Packet)]
    BY <1>3, DequeueTypes DEF ServerReceive, TypeOK
  <2>2. \A id \in IDs : Apply(var[Server][id], Head(uplink[p])[id]) \in NetVar
    BY <1>1, <2>1, ApplyType DEF Packet
  <2>3. var' \in [Hosts -> [IDs -> NetVar]]
    BY <1>1, <1>3, <2>2 DEF ServerReceive, TypeOK
  <2> QED
    BY <1>3, <2>1, <2>3 DEF ServerReceive, TypeOK, serverVars
<1>4. ASSUME NEW p \in Peers, Disconnect(p)
      PROVE  TypeOK'
  <2>1. p \in Hosts
    BY DEF Hosts
  <2>2. <<>> \in Seq(Packet)
    BY EmptySeq
  <2>3. /\ broadcast' \in [Peers -> Seq(Packet)]
        /\ direct' \in [Peers -> Seq(Packet)]
        /\ uplink' \in [Peers -> Seq(Packet)]
    BY <1>4, <2>2 DEF Disconnect, TypeOK
  <2>4. /\ objects' \in [Hosts -> SUBSET IDs]
        /\ controller' \in [Hosts -> [IDs -> Controllers]]
        /\ var' \in [Hosts -> [IDs -> NetVar]]
    BY <1>4, <2>1, NewVarType DEF Disconnect, TypeOK, Controllers
  <2>5. listed' \in [Peers -> 0 .. MaxEntities]
    BY <1>4, BoundsAssumption DEF Disconnect, TypeOK
  <2> QED
    BY <1>4, <2>3, <2>4, <2>5 DEF Disconnect, TypeOK, serverVars
<1>5. CASE SendWorldLists
  <2>1. direct' \in [Peers -> Seq(Packet)]
    BY <1>5, SendType, ListPacketType DEF SendWorldLists, TypeOK
  <2>2. net' \in NetStates
    BY <1>5 DEF SendWorldLists, TypeOK, NetStates, IdleNet
  <2> QED
    BY <1>5, <2>1, <2>2 DEF SendWorldLists, TypeOK, hostVars
<1>6. CASE SendWorldSnapshot
  <2> DEFINE full == SnapshotPacket(var[Server], Local(Server), TRUE)
  <2>1. full \in Packet /\ var' \in [Hosts -> [IDs -> NetVar]]
    BY <1>1, <1>6, SnapshotTypes DEF SendWorldSnapshot, TypeOK
  <2>2. direct' = Send(direct, {net.peer}, full)
    BY <1>6 DEF SendWorldSnapshot
  <2> HIDE DEF full
  <2>3. direct' \in [Peers -> Seq(Packet)]
    BY <2>1, <2>2, SendType DEF TypeOK
  <2> QED
    BY <1>6, <2>1, <2>3 DEF SendWorldSnapshot, TypeOK, NetStates
<1> QED
  BY <1>2, <1>3, <1>4, <1>5, <1>6 DEF Net

\* A client's threads.
LEMMA ClientType ==
    ASSUME TypeOK, NEW p \in Peers, Client(p)
    PROVE  TypeOK'
<1>1. CASE ClientReceiveBroadcast(p)
  <2>1. Head(broadcast[p]) \in Packet /\ broadcast' \in [Peers -> Seq(Packet)]
    BY <1>1, DequeueTypes DEF ClientReceiveBroadcast, TypeOK
  <2>2. HandleEntSnapshot(p, Head(broadcast[p]))
    BY <1>1 DEF ClientReceiveBroadcast
  <2>3. /\ objects' \in [Hosts -> SUBSET IDs]
        /\ controller' \in [Hosts -> [IDs -> Controllers]]
        /\ var' \in [Hosts -> [IDs -> NetVar]]
    BY <2>1, <2>2, HandleEntSnapshotTypes
  <2> QED
    BY <1>1, <2>1, <2>3 DEF ClientReceiveBroadcast, TypeOK, serverVars
<1>2. CASE ClientReceiveDirect(p)
  <2>1. Head(direct[p]) \in Packet /\ direct' \in [Peers -> Seq(Packet)]
    BY <1>2, DequeueTypes DEF ClientReceiveDirect, TypeOK
  <2>2. HandleEntSnapshot(p, Head(direct[p]))
    BY <1>2 DEF ClientReceiveDirect
  <2>3. /\ objects' \in [Hosts -> SUBSET IDs]
        /\ controller' \in [Hosts -> [IDs -> Controllers]]
        /\ var' \in [Hosts -> [IDs -> NetVar]]
    BY <2>1, <2>2, HandleEntSnapshotTypes
  <2> QED
    BY <1>2, <2>1, <2>3 DEF ClientReceiveDirect, TypeOK, serverVars
<1>3. CASE ClientSnapshot(p)
  <2> DEFINE changes == SnapshotPacket(var[p], Local(p), FALSE)
  <2>1. p \in Hosts /\ var[p] \in [IDs -> NetVar]
    BY DEF TypeOK, Hosts
  <2>2. changes \in Packet /\ var' \in [Hosts -> [IDs -> NetVar]]
    BY <1>3, <2>1, SnapshotTypes DEF ClientSnapshot, TypeOK
  <2>3. uplink' = Send(uplink, {p}, changes)
    BY <1>3 DEF ClientSnapshot
  <2> HIDE DEF changes
  <2>4. uplink' \in [Peers -> Seq(Packet)]
    BY <2>2, <2>3, SendType DEF TypeOK
  <2> QED
    BY <1>3, <2>2, <2>4 DEF ClientSnapshot, TypeOK, serverVars
<1> QED
  BY <1>1, <1>2, <1>3 DEF Client

\* Every step keeps the shape of every host, thread and channel.
LEMMA NextTypeOK == TypeOK /\ [Next]_vars => TypeOK'
<1> SUFFICES ASSUME TypeOK, [Next]_vars PROVE TypeOK'
  OBVIOUS
<1>1. CASE App
  <2>1. ASSUME NEW h \in Writers, NEW id \in IDs,
               \/ \E value \in Values : Set(h, id, value)
               \/ Invalidate(h, id)
               \/ Lock(h, id)
        PROVE  TypeOK'
    <3>1. h \in Hosts
      BY HostsAssumption DEF Hosts
    <3> QED
      BY <2>1, <3>1, NetVarCallType
  <2> QED
    BY <1>1, <2>1, BuildBeginType, ReleaseType DEF App
<1>2. CASE UNCHANGED vars
  BY <1>2 DEF vars, serverVars, hostVars, netVars, TypeOK
<1> QED
  BY <1>1, <1>2, BuildPublishType, SyncType, NetType, ClientType DEF Next

\* The type invariant holds in every reachable state of the server, its clients
\* and the channels between them, for every value of the constants.
THEOREM TypeCorrect == Spec => []TypeOK
BY InitTypeOK, NextTypeOK, PTL DEF Spec

-----------------------------------------------------------------------------
(* What sending and receiving do to the contents of a queue.                *)

\* Every element of a queue after Send was there before, or is the new packet.
LEMMA SendIndex ==
    ASSUME NEW q \in [Peers -> Seq(Packet)], NEW to, NEW packet \in Packet, NEW p \in Peers,
           NEW r, r = Send(q, to, packet)
    PROVE  \A i \in 1 .. Len(r[p]) :
               \/ i \in 1 .. Len(q[p]) /\ r[p][i] = q[p][i]
               \/ /\ p \in to /\ i = Len(q[p]) + 1
                  /\ r[p][i] = packet
<1>1. q[p] \in Seq(Packet)
  OBVIOUS
<1>2. CASE p \in to /\ Modified(packet)
  <2>1. Send(q, to, packet)[p] = Append(q[p], packet)
    BY <1>2 DEF Send
  <2> QED
    BY <1>1, <1>2, <2>1, AppendProperties
<1>3. CASE ~(p \in to /\ Modified(packet))
  BY <1>3 DEF Send
<1> QED
  BY <1>2, <1>3

\* Every element of a queue after Append was there before, or is the new one.
LEMMA AppendIndex ==
    ASSUME NEW S, NEW u \in Seq(S), NEW x \in S, NEW w, w = Append(u, x),
           NEW i \in 1 .. Len(w)
    PROVE  \/ i \in 1 .. Len(u) /\ w[i] = u[i]
           \/ w[i] = x
<1>1. Len(u) \in Nat /\ Len(w) = Len(u) + 1
  BY AppendProperties
<1>2. CASE i \in 1 .. Len(u)
  BY <1>2, AppendProperties
<1>3. CASE i = Len(u) + 1
  BY <1>3, AppendProperties
<1> QED
  BY <1>1, <1>2, <1>3

\* What a queue holds after two packets are sent back to back.
LEMMA SendTwice ==
    ASSUME NEW q \in [Peers -> Seq(Packet)], NEW to, NEW a \in Packet, NEW b \in Packet,
           NEW p \in Peers, NEW i \in 1 .. Len(Send(Send(q, to, a), to, b)[p])
    PROVE  \/ /\ i \in 1 .. Len(q[p])
              /\ Send(Send(q, to, a), to, b)[p][i] = q[p][i]
           \/ p \in to /\ Send(Send(q, to, a), to, b)[p][i] = a
           \/ Send(Send(q, to, a), to, b)[p][i] = b
<1> DEFINE s == Send(q, to, a)
           r == Send(s, to, b)
<1>0. s \in [Peers -> Seq(Packet)]
  BY SendType
<1>1. q[p] \in Seq(Packet) /\ s[p] \in Seq(Packet)
  BY <1>0
<1>2. s[p] = q[p] \/ (p \in to /\ s[p] = Append(q[p], a))
  BY DEF Send
<1>3. r[p] = s[p] \/ r[p] = Append(s[p], b)
  BY DEF Send
<1> HIDE DEF r, s
<1>4. \A k \in 1 .. Len(s[p]) :
          \/ k \in 1 .. Len(q[p]) /\ s[p][k] = q[p][k]
          \/ p \in to /\ s[p][k] = a
  <2>1. CASE s[p] = q[p]
    BY <2>1
  <2>2. CASE p \in to /\ s[p] = Append(q[p], a)
    BY <1>1, <2>2, AppendIndex
  <2> QED
    BY <1>2, <2>1, <2>2
<1>5. \A k \in 1 .. Len(r[p]) :
          \/ k \in 1 .. Len(s[p]) /\ r[p][k] = s[p][k]
          \/ r[p][k] = b
  <2>1. CASE r[p] = s[p]
    BY <2>1
  <2>2. CASE r[p] = Append(s[p], b)
    BY <1>1, <2>2, AppendIndex
  <2> QED
    BY <1>3, <2>1, <2>2
<1> QED
  BY <1>4, <1>5 DEF r, s

\* Send keeps what is in a queue and puts a modified packet at its end.
LEMMA SendElements ==
    ASSUME NEW q \in [Peers -> Seq(Packet)], NEW to, NEW packet \in Packet, NEW p \in Peers
    PROVE  /\ \A i \in 1 .. Len(q[p]) : /\ i \in 1 .. Len(Send(q, to, packet)[p])
                                        /\ Send(q, to, packet)[p][i] = q[p][i]
           /\ p \in to /\ Modified(packet) =>
                 /\ Len(q[p]) + 1 \in 1 .. Len(Send(q, to, packet)[p])
                 /\ Send(q, to, packet)[p][Len(q[p]) + 1] = packet
<1>1. q[p] \in Seq(Packet) /\ Len(q[p]) \in Nat
  OBVIOUS
<1>2. CASE p \in to /\ Modified(packet)
  <2>1. Send(q, to, packet)[p] = Append(q[p], packet)
    BY <1>2 DEF Send
  <2> QED
    BY <1>1, <1>2, <2>1, AppendProperties
<1>3. CASE ~(p \in to /\ Modified(packet))
  BY <1>1, <1>3 DEF Send
<1> QED
  BY <1>2, <1>3

LEMMA TailElements ==
    ASSUME NEW s \in Seq(Packet), s # <<>>
    PROVE  /\ Len(s) \in Nat /\ 1 \in 1 .. Len(s) /\ Head(s) = s[1]
           /\ Len(Tail(s)) = Len(s) - 1
           /\ \A i \in 1 .. Len(Tail(s)) : i + 1 \in 1 .. Len(s) /\ Tail(s)[i] = s[i + 1]
           /\ \A i \in 1 .. Len(s) : i # 1 =>
                 i - 1 \in 1 .. Len(Tail(s)) /\ Tail(s)[i - 1] = s[i]
BY HeadTailProperties, SMTT(30)

-----------------------------------------------------------------------------
(* Control of an object on a client implies its ownership on the server.    *)
(* The invariant follows NET_CONTROLLER_LOCAL from m_pPeer through          *)
(* SendObjectLists and channel 1 to EntAllocate.                            *)

\* No frame of the packet, or only frames for p's objects, says LOCAL.
Remote(packet) == \A id \in IDs : packet[id].controller = "NONE"
OwnedBy(packet, p) == \A id \in IDs : packet[id].controller = "LOCAL" => owner[id] = p

ClientControl == \A p \in Peers : \A id \in IDs : IsNetworkLocal(p, id) => owner[id] = p
DirectControl == \A p \in Peers : \A i \in 1 .. Len(direct[p]) : OwnedBy(direct[p][i], p)
BroadcastControl == \A p \in Peers : \A i \in 1 .. Len(broadcast[p]) : Remote(broadcast[p][i])
PendingControl == Remote(building.packet) /\ Remote(sync.packet)

\* m_pPeer is set once, when the object enters the list.
OwnerOnce ==
    /\ \A id \in IDs : id >= s_TotalEntities \/ id = building.id => owner[id] = NoPeer
    /\ building # NoBuild => building.id < s_TotalEntities

ControlInv == TypeOK /\ ClientControl /\ DirectControl /\ BroadcastControl
                     /\ PendingControl /\ OwnerOnce

LEMMA RemotePackets ==
    /\ Remote(NoPacket)
    /\ \A v, ids, f : Remote(SnapshotPacket(v, ids, f))
BY DEF Remote, NoPacket, SnapshotPacket, NoFrame, ListFrame, DataFrame

LEMMA ListPacketOwned ==
    ASSUME NEW ids, NEW p
    PROVE  OwnedBy(ListPacket(ids, owner, p), p)
BY DEF OwnedBy, ListPacket, NoFrame, AllocFrame, ListFrame

LEMMA InitControl == Init => ControlInv
<1> SUFFICES ASSUME Init PROVE ControlInv
  OBVIOUS
<1>1. ClientControl /\ OwnerOnce
  BY DEF Init, ClientControl, OwnerOnce, IsNetworkLocal, Hosts
<1>2. DirectControl /\ BroadcastControl
  BY DEF Init, DirectControl, BroadcastControl
<1>3. PendingControl
  BY RemotePackets DEF Init, PendingControl, NoBuild
<1> QED
  BY <1>1, <1>2, <1>3, InitTypeOK DEF ControlInv

\* A step that owns nothing new and touches neither queues to clients nor the
\* controllers on clients.
LEMMA ControlUntouched ==
    ASSUME ControlInv, TypeOK',
           UNCHANGED <<s_TotalEntities, owner, building, sync, direct, broadcast>>,
           \A p \in Peers : controller'[p] = controller[p]
    PROVE  ControlInv'
BY DEF ControlInv, ClientControl, DirectControl, BroadcastControl, PendingControl,
       OwnerOnce, IsNetworkLocal, OwnedBy, Remote

\* A broadcast of a packet without LOCAL frames.
LEMMA BroadcastRemote ==
    ASSUME ControlInv, NEW to, NEW packet \in Packet, Remote(packet),
           broadcast' = Send(broadcast, to, packet)
    PROVE  BroadcastControl'
<1>1. broadcast \in [Peers -> Seq(Packet)]
  BY DEF ControlInv, TypeOK
<1> SUFFICES ASSUME NEW p \in Peers, NEW i \in 1 .. Len(Send(broadcast, to, packet)[p])
             PROVE  Remote(Send(broadcast, to, packet)[p][i])
  BY DEF BroadcastControl, Remote
<1>2. \/ /\ i \in 1 .. Len(broadcast[p])
         /\ Send(broadcast, to, packet)[p][i] = broadcast[p][i]
      \/ Send(broadcast, to, packet)[p][i] = packet
  BY <1>1, SendIndex
<1> QED
  BY <1>2 DEF ControlInv, BroadcastControl, Remote

\* EntAllocate takes the controller from a frame.
LEMMA ReceiveControl ==
    ASSUME ControlInv, NEW p \in Peers, NEW packet \in Packet,
           HandleEntSnapshot(p, packet), OwnedBy(packet, p), UNCHANGED owner
    PROVE  ClientControl'
<1>1. p \in Hosts /\ controller \in [Hosts -> [IDs -> Controllers]] /\ Peers \subseteq Hosts
  BY DEF ControlInv, TypeOK, Hosts
<1> SUFFICES ASSUME NEW q \in Peers, NEW id \in IDs, controller'[q][id] = "LOCAL"
             PROVE  owner[id] = q
  BY DEF ClientControl, IsNetworkLocal
<1>2. CASE q = p
  <2>1. \/ controller'[p][id] = packet[id].controller
        \/ controller'[p][id] = "NONE"
        \/ controller'[p][id] = controller[p][id]
    BY <1>1 DEF HandleEntSnapshot
  <2> QED
    BY <1>2, <2>1 DEF OwnedBy, ControlInv, ClientControl, IsNetworkLocal
<1>3. CASE q # p
  <2>1. controller'[q] = controller[q]
    BY <1>1, <1>3 DEF HandleEntSnapshot
  <2> QED
    BY <2>1 DEF ControlInv, ClientControl, IsNetworkLocal
<1> QED
  BY <1>2, <1>3

LEMMA BuildBeginControl ==
    ASSUME ControlInv, NEW o \in Owners, BuildBegin(o)
    PROVE  ControlInv'
<1>1. TypeOK' /\ s_TotalEntities \in IDs
  <2>1. s_TotalEntities \in Nat /\ s_TotalEntities < MaxEntities
    BY DEF ControlInv, TypeOK, BuildBegin
  <2> QED
    BY <2>1, BuildBeginType, BoundsAssumption DEF ControlInv, IDs
<1>2. OwnerOnce'
  <2>1. building'.id = s_TotalEntities /\ s_TotalEntities' = s_TotalEntities + 1
    BY DEF BuildBegin
  <2>2. building.id = -1
    BY DEF BuildBegin, NoBuild
  <2>3. owner' = owner
    BY DEF BuildBegin
  <2> QED
    BY <1>1, <2>1, <2>2, <2>3 DEF OwnerOnce, ControlInv, IDs
<1>3. Remote(building.packet)'
  <2> DEFINE changes == SnapshotPacket(var[Server], Local(Server), FALSE)
  <2>1. building'.packet = [changes EXCEPT ![s_TotalEntities] = AllocFrame("NONE")]
    BY DEF BuildBegin
  <2>2. Remote(changes)
    BY RemotePackets
  <2>3. changes = [id \in IDs |-> changes[id]]
    BY DEF SnapshotPacket
  <2> HIDE DEF changes
  <2> QED
    BY <2>1, <2>2, <2>3 DEF Remote, AllocFrame, ListFrame
<1>4. UNCHANGED <<controller, owner, direct, broadcast, sync>>
  BY DEF BuildBegin, netVars
<1> QED
  BY <1>1, <1>2, <1>3, <1>4 DEF ControlInv, ClientControl, DirectControl, BroadcastControl,
     PendingControl, IsNetworkLocal, OwnedBy, Remote

LEMMA BuildPublishControl ==
    ASSUME ControlInv, BuildPublish
    PROVE  ControlInv'
<1> DEFINE ids == objects[Server] \cup {building.id}
           to == {building.owner} \cap connected
           listing == ListPacket(ids, owner', building.owner)
           full == SnapshotPacket(var[Server], ids, TRUE)
<1>1. TypeOK' /\ TypeOK
  BY BuildPublishType DEF ControlInv
<1>2. /\ building.id \in IDs /\ building.packet \in Packet
      /\ building.id < s_TotalEntities
      /\ owner' = [owner EXCEPT ![building.id] = building.owner]
  BY <1>1 DEF ControlInv, OwnerOnce, TypeOK, BuildPublish, Builds
\* The object had no owner before, so nothing LOCAL was said of it.
<1>3. \A p \in Peers, id \in IDs : owner[id] = p => owner'[id] = p
  BY <1>1, <1>2, HostsAssumption DEF ControlInv, OwnerOnce, TypeOK
<1>4. ClientControl'
  <2>1. \A p \in Peers : controller'[p] = controller[p]
    BY <1>1, HostsAssumption DEF BuildPublish, TypeOK, Hosts
  <2> QED
    BY <1>3, <2>1 DEF ControlInv, ClientControl, IsNetworkLocal
<1>5. DirectControl'
  <2>1. direct' = Send(Send(direct, to, listing), to, full)
    BY DEF BuildPublish
  <2>2. /\ listing \in Packet /\ full \in Packet /\ direct \in [Peers -> Seq(Packet)]
    BY <1>1, ListPacketType, SnapshotTypes DEF TypeOK, Hosts
  <2>3. \A id \in IDs : full[id].controller = "NONE"
    BY RemotePackets DEF Remote
  <2>4. \A id \in IDs : listing[id].controller = "LOCAL" => owner'[id] = building.owner
    BY DEF ListPacket, NoFrame, AllocFrame, ListFrame
  <2> HIDE DEF listing, full
  <2> DEFINE sent == Send(Send(direct, to, listing), to, full)
  <2> SUFFICES ASSUME NEW p \in Peers, NEW i \in 1 .. Len(sent[p]), NEW id \in IDs,
                      sent[p][i][id].controller = "LOCAL"
               PROVE  owner'[id] = p
    BY <2>1 DEF DirectControl, OwnedBy
  <2>5. \A k \in 1 .. Len(direct[p]) :
            direct[p][k][id].controller = "LOCAL" => owner'[id] = p
    BY <1>3 DEF ControlInv, DirectControl, OwnedBy
  <2>6. p \in to => building.owner = p
    OBVIOUS
  <2> HIDE DEF to
  <2>7. \/ /\ i \in 1 .. Len(direct[p])
           /\ sent[p][i] = direct[p][i]
        \/ p \in to /\ sent[p][i] = listing
        \/ sent[p][i] = full
    BY <2>2, SendTwice
  <2> HIDE DEF sent
  <2> QED
    BY <2>3, <2>4, <2>5, <2>6, <2>7
<1>6. BroadcastControl'
  <2>1. Remote(building.packet) /\ broadcast' = Send(broadcast, connected, building.packet)
    BY DEF ControlInv, PendingControl, BuildPublish
  <2> QED
    BY <1>2, <2>1, BroadcastRemote
<1>7. PendingControl'
  BY RemotePackets DEF ControlInv, PendingControl, BuildPublish, NoBuild, Remote
<1>8. OwnerOnce'
  BY <1>1, <1>2 DEF ControlInv, OwnerOnce, BuildPublish, NoBuild, IDs, TypeOK
<1> QED
  BY <1>1, <1>4, <1>5, <1>6, <1>7, <1>8 DEF ControlInv

LEMMA SyncControl ==
    ASSUME ControlInv, Sync
    PROVE  ControlInv'
<1>1. TypeOK' /\ TypeOK
  BY SyncType DEF ControlInv
<1>2. CASE SyncSnapshot
  <2>1. Remote(sync.packet)'
    BY <1>2, RemotePackets DEF SyncSnapshot, Remote
  <2> QED
    BY <1>1, <1>2, <2>1 DEF SyncSnapshot, netVars, ControlInv, ClientControl, DirectControl,
       BroadcastControl, PendingControl, OwnerOnce, IsNetworkLocal, OwnedBy, Remote
<1>3. CASE SyncBroadcast
  <2>1. sync.packet \in Packet /\ Remote(sync.packet)
    BY <1>1 DEF TypeOK, ControlInv, PendingControl
  <2>2. BroadcastControl'
    BY <1>3, <2>1, BroadcastRemote DEF SyncBroadcast
  <2>3. Remote(sync.packet)'
    BY <1>3, RemotePackets DEF SyncBroadcast, Remote
  <2> QED
    BY <1>1, <1>3, <2>2, <2>3 DEF SyncBroadcast, hostVars, ControlInv, ClientControl,
       DirectControl, PendingControl, OwnerOnce, IsNetworkLocal, OwnedBy, Remote
<1>4. CASE SyncPostUpdate
  <2> DEFINE frees == [id \in IDs |-> IF id \in objects[Server] \ held
                                      THEN DeallocFrame ELSE NoFrame]
  <2>1. frees \in Packet /\ Remote(frees)
    BY FrameTypes DEF Packet, Remote, DeallocFrame, NoFrame, ListFrame
  <2>2. broadcast' = Send(broadcast, connected, frees)
    BY <1>4 DEF SyncPostUpdate
  <2> HIDE DEF frees
  <2>3. BroadcastControl'
    BY <2>1, <2>2, BroadcastRemote
  <2>4. \A p \in Peers : controller'[p] = controller[p]
    BY <1>1, <1>4, HostsAssumption DEF SyncPostUpdate, TypeOK, Hosts
  <2> QED
    BY <1>1, <1>4, <2>3, <2>4 DEF SyncPostUpdate, ControlInv, ClientControl,
       DirectControl, PendingControl, OwnerOnce, IsNetworkLocal, OwnedBy, Remote
<1> QED
  BY <1>2, <1>3, <1>4 DEF Sync

LEMMA NetControl ==
    ASSUME ControlInv, Net
    PROVE  ControlInv'
<1>1. TypeOK' /\ TypeOK
  BY NetType DEF ControlInv
<1>2. ASSUME NEW p \in Peers, Connect(p)
      PROVE  ControlInv'
  BY <1>1, <1>2, ControlUntouched DEF Connect, hostVars
<1>3. ASSUME NEW p \in Peers, ServerReceive(p)
      PROVE  ControlInv'
  BY <1>1, <1>3, ControlUntouched DEF ServerReceive, serverVars
<1>4. ASSUME NEW p \in Peers, Disconnect(p)
      PROVE  ControlInv'
  <2>1. \A q \in Peers, id \in IDs : controller'[q][id] \in {controller[q][id], "NONE"}
    BY <1>1, <1>4 DEF Disconnect, TypeOK, Hosts
  <2>2. \A q \in Peers : /\ broadcast'[q] \in {broadcast[q], <<>>}
                         /\ direct'[q] \in {direct[q], <<>>}
    BY <1>1, <1>4 DEF Disconnect, TypeOK
  <2>3. UNCHANGED <<owner, building, sync, s_TotalEntities>>
    BY <1>4 DEF Disconnect, serverVars
  <2>4. ClientControl' /\ DirectControl' /\ BroadcastControl'
    BY <2>1, <2>2, <2>3 DEF ControlInv, ClientControl, DirectControl, BroadcastControl,
       IsNetworkLocal, OwnedBy, Remote
  <2> QED
    BY <1>1, <2>3, <2>4 DEF ControlInv, PendingControl, OwnerOnce, Remote
<1>5. CASE SendWorldLists
  <2> DEFINE listing == ListPacket(objects[Server], owner, net.peer)
  <2>1. listing \in Packet /\ OwnedBy(listing, net.peer)
    BY ListPacketType, ListPacketOwned
  <2>2. direct' = Send(direct, {net.peer}, listing) /\ owner' = owner
    BY <1>5 DEF SendWorldLists
  <2> HIDE DEF listing
  <2>3. DirectControl'
    <3> SUFFICES ASSUME NEW p \in Peers, NEW i \in 1 .. Len(direct'[p]), NEW id \in IDs,
                        direct'[p][i][id].controller = "LOCAL"
                 PROVE  owner[id] = p
      BY <2>2 DEF DirectControl, OwnedBy
    <3>1. \/ i \in 1 .. Len(direct[p]) /\ direct'[p][i] = direct[p][i]
          \/ p = net.peer /\ direct'[p][i] = listing
      <4>1. direct \in [Peers -> Seq(Packet)] /\ listing \in Packet /\ direct' = Send(direct, {net.peer}, listing)
        BY <1>1, <2>1, <2>2 DEF TypeOK
      <4>2. \A k \in 1 .. Len(direct'[p]) :
               \/ k \in 1 .. Len(direct[p]) /\ direct'[p][k] = direct[p][k]
               \/ p \in {net.peer} /\ direct'[p][k] = listing
        BY <4>1, SendIndex
      <4> QED
        BY <4>2
    <3> QED
      BY <2>1, <3>1 DEF ControlInv, DirectControl, OwnedBy
  <2> QED
    BY <1>1, <1>5, <2>3 DEF SendWorldLists, hostVars, ControlInv, ClientControl,
       BroadcastControl, PendingControl, OwnerOnce, IsNetworkLocal, OwnedBy, Remote
<1>6. CASE SendWorldSnapshot
  <2> DEFINE full == SnapshotPacket(var[Server], Local(Server), TRUE)
  <2>1. full \in Packet /\ Remote(full)
    BY <1>1, SnapshotTypes, RemotePackets DEF TypeOK, Hosts
  <2>2. direct' = Send(direct, {net.peer}, full) /\ owner' = owner
    BY <1>6 DEF SendWorldSnapshot
  <2> HIDE DEF full
  <2>3. DirectControl'
    <3> SUFFICES ASSUME NEW p \in Peers, NEW i \in 1 .. Len(direct'[p]), NEW id \in IDs,
                        direct'[p][i][id].controller = "LOCAL"
                 PROVE  owner[id] = p
      BY <2>2 DEF DirectControl, OwnedBy
    <3>1. \/ i \in 1 .. Len(direct[p]) /\ direct'[p][i] = direct[p][i]
          \/ p = net.peer /\ direct'[p][i] = full
      <4>1. direct \in [Peers -> Seq(Packet)] /\ full \in Packet /\ direct' = Send(direct, {net.peer}, full)
        BY <1>1, <2>1, <2>2 DEF TypeOK
      <4>2. \A k \in 1 .. Len(direct'[p]) :
               \/ k \in 1 .. Len(direct[p]) /\ direct'[p][k] = direct[p][k]
               \/ p \in {net.peer} /\ direct'[p][k] = full
        BY <4>1, SendIndex
      <4> QED
        BY <4>2
    <3> QED
      BY <2>1, <3>1 DEF ControlInv, DirectControl, OwnedBy, Remote
  <2> QED
    BY <1>1, <1>6, <2>3 DEF SendWorldSnapshot, ControlInv, ClientControl,
       BroadcastControl, PendingControl, OwnerOnce, IsNetworkLocal, OwnedBy, Remote
<1> QED
  BY <1>2, <1>3, <1>4, <1>5, <1>6 DEF Net

LEMMA ClientControlStep ==
    ASSUME ControlInv, NEW p \in Peers, Client(p)
    PROVE  ControlInv'
<1>1. TypeOK' /\ TypeOK
  BY ClientType DEF ControlInv
<1>2. CASE ClientReceiveBroadcast(p)
  <2>1. /\ broadcast[p] \in Seq(Packet) /\ broadcast[p] # <<>>
        /\ broadcast' = [broadcast EXCEPT ![p] = Tail(@)]
    BY <1>1, <1>2 DEF ClientReceiveBroadcast, TypeOK
  <2>2. Head(broadcast[p]) \in Packet /\ Remote(Head(broadcast[p]))
    <3>1. 1 \in 1 .. Len(broadcast[p]) /\ Head(broadcast[p]) = broadcast[p][1]
      BY <2>1, TailElements
    <3> QED
      BY <2>1, <3>1, HeadTailProperties DEF ControlInv, BroadcastControl
  <2>3. ClientControl'
    BY <1>2, <2>2, ReceiveControl DEF ClientReceiveBroadcast, serverVars, OwnedBy, Remote
  <2>4. BroadcastControl'
    <3> SUFFICES ASSUME NEW q \in Peers, NEW i \in 1 .. Len(broadcast'[q])
                 PROVE  Remote(broadcast'[q][i])
      BY DEF BroadcastControl, Remote
    <3>1. CASE q = p
      <4>1. broadcast'[p] = Tail(broadcast[p])
        BY <1>1, <2>1 DEF TypeOK
      <4>2. i + 1 \in 1 .. Len(broadcast[p]) /\ broadcast'[p][i] = broadcast[p][i + 1]
        BY <2>1, <3>1, <4>1, TailElements
      <4> QED
        BY <3>1, <4>2 DEF ControlInv, BroadcastControl, Remote
    <3>2. CASE q # p
      <4>1. broadcast'[q] = broadcast[q]
        BY <1>1, <2>1, <3>2 DEF TypeOK
      <4> QED
        BY <4>1 DEF ControlInv, BroadcastControl, Remote
    <3> QED
      BY <3>1, <3>2
  <2> QED
    BY <1>1, <1>2, <2>3, <2>4 DEF ClientReceiveBroadcast, serverVars, ControlInv,
       DirectControl, PendingControl, OwnerOnce, OwnedBy, Remote
<1>3. CASE ClientReceiveDirect(p)
  <2>1. /\ direct[p] \in Seq(Packet) /\ direct[p] # <<>>
        /\ direct' = [direct EXCEPT ![p] = Tail(@)]
        /\ owner' = owner
    BY <1>1, <1>3 DEF ClientReceiveDirect, TypeOK, serverVars
  <2>2. Head(direct[p]) \in Packet /\ OwnedBy(Head(direct[p]), p)
    <3>1. 1 \in 1 .. Len(direct[p]) /\ Head(direct[p]) = direct[p][1]
      BY <2>1, TailElements
    <3> QED
      BY <2>1, <3>1, HeadTailProperties DEF ControlInv, DirectControl
  <2>3. ClientControl'
    BY <1>3, <2>1, <2>2, ReceiveControl DEF ClientReceiveDirect
  <2>4. DirectControl'
    <3> SUFFICES ASSUME NEW q \in Peers, NEW i \in 1 .. Len(direct'[q])
                 PROVE  OwnedBy(direct'[q][i], q)
      BY <2>1 DEF DirectControl, OwnedBy
    <3>1. CASE q = p
      <4>1. direct'[p] = Tail(direct[p])
        BY <1>1, <2>1 DEF TypeOK
      <4>2. i + 1 \in 1 .. Len(direct[p]) /\ direct'[p][i] = direct[p][i + 1]
        BY <2>1, <3>1, <4>1, TailElements
      <4> QED
        BY <3>1, <4>2 DEF ControlInv, DirectControl, OwnedBy
    <3>2. CASE q # p
      <4>1. direct'[q] = direct[q]
        BY <1>1, <2>1, <3>2 DEF TypeOK
      <4> QED
        BY <4>1 DEF ControlInv, DirectControl, OwnedBy
    <3> QED
      BY <3>1, <3>2
  <2> QED
    BY <1>1, <1>3, <2>3, <2>4 DEF ClientReceiveDirect, serverVars, ControlInv,
       BroadcastControl, PendingControl, OwnerOnce, Remote
<1>4. CASE ClientSnapshot(p)
  BY <1>1, <1>4, ControlUntouched DEF ClientSnapshot, serverVars
<1> QED
  BY <1>2, <1>3, <1>4 DEF Client

LEMMA NextControl == ControlInv /\ [Next]_vars => ControlInv'
<1> SUFFICES ASSUME ControlInv, [Next]_vars PROVE ControlInv'
  OBVIOUS
<1>1. TypeOK /\ TypeOK'
  BY NextTypeOK DEF ControlInv
<1>2. CASE App
  <2>1. ASSUME NEW id \in IDs, Release(id)
        PROVE  ControlInv'
    BY <1>1, <2>1, ControlUntouched DEF Release, hostVars, netVars
  <2>2. ASSUME NEW h \in Writers, NEW id \in IDs, NEW v, AppWrite(h, id, v)
        PROVE  ControlInv'
    BY <1>1, <2>2, ControlUntouched DEF AppWrite, serverVars, netVars
  <2> QED
    BY <1>2, <2>1, <2>2, BuildBeginControl DEF App, Set, Invalidate, Lock
<1>3. CASE UNCHANGED vars
  BY <1>1, <1>3, ControlUntouched DEF vars, serverVars, hostVars, netVars
<1> QED
  BY <1>2, <1>3, BuildPublishControl, SyncControl, NetControl, ClientControlStep DEF Next

\* A client controls only objects whose m_pPeer on the server is its slot, whatever
\* the interleaving of Build, connections, disconnections and the two channels.
THEOREM ControlCorrect == Spec => []ControlImpliesOwnership
<1>1. ControlInv => ControlImpliesOwnership
  BY DEF ControlInv, TypeOK, Hosts, ClientControl, ControlImpliesOwnership, Local
<1> QED
  BY <1>1, InitControl, NextControl, PTL DEF Spec
-----------------------------------------------------------------------------
(***************************************************************************)
(* The life of an object: its creation and its end reach every peer that   *)
(* learns of it from broadcasts (AnnouncedLifecycle).  The property is not *)
(* inductive: it says nothing of the order of the two frames of an object, *)
(* of the objects not announced yet, or of channel 1, whose Alloc frames   *)
(* could meet those of channel 0.  LifeInv adds these parts.               *)
(*                                                                         *)
(* The last part proves that the values follow (Converged).                *)
(***************************************************************************)

\* A frame that neither allocates nor frees an object.
Neutral(frame) == frame.type \notin {"Alloc", "Dealloc"}

\* No packet of a queue allocates or frees object id.
Silent(q, id) == \A i \in 1 .. Len(q) : Neutral(q[i][id])

\* An object is allocated once, freed once, in this order.
Ordered(q, id) ==
    \A i, j \in 1 .. Len(q) :
        /\ q[i][id].type = "Alloc" /\ q[j][id].type = "Alloc" => i = j
        /\ q[i][id].type = "Dealloc" /\ q[j][id].type = "Dealloc" => i = j
        /\ q[i][id].type = "Alloc" /\ q[j][id].type = "Dealloc" => i < j

\* What the broadcasts on their way to a peer say of object id, when there is the
\* server's list of objects and here the peer's.
InStep(there, here, q, id) ==
    /\ Ordered(q, id)
    /\ id \in there => /\ ~InFlight(q, id, "Dealloc")
                       /\ InFlight(q, id, "Alloc") <=> id \notin here
    /\ id \notin there /\ id \in here => /\ ~InFlight(q, id, "Alloc")
                                         /\ InFlight(q, id, "Dealloc")
    /\ id \notin there /\ id \notin here =>
           (InFlight(q, id, "Alloc") <=> InFlight(q, id, "Dealloc"))

\* The call of Build that gives an object its number has not yet published it.
Unborn(id) == id >= s_TotalEntities \/ id = building.id

FreshIDs ==
    \A id \in IDs : Unborn(id) =>
        /\ \A h \in Hosts : id \notin objects[h]
        /\ \A p \in Peers : Silent(broadcast[p], id) /\ Silent(direct[p], id)

PendingFrames ==
    /\ building.id < s_TotalEntities
    /\ \A id \in IDs : /\ Neutral(sync.packet[id])
                       /\ id # building.id => Neutral(building.packet[id])
                       /\ id = building.id => building.packet[id].type = "Alloc"

\* Channel 1 allocates only what SendObjectLists listed, and frees nothing.
DirectListed ==
    \A p \in Peers : \A i \in 1 .. Len(direct[p]) : \A id \in IDs :
        /\ direct[p][i][id].type # "Dealloc"
        /\ direct[p][i][id].type = "Alloc" => id < listed[p]

ListedPeers ==
    /\ \A p \in Peers \ connected : listed[p] = MaxEntities
    /\ net.stage # "idle" => net.peer \in connected

Lives ==
    \A p \in Peers, id \in IDs :
        Announced(p, id) => InStep(objects[Server], objects[p], broadcast[p], id)

LifeInv == TypeOK /\ FreshIDs /\ PendingFrames /\ DirectListed /\ ListedPeers /\ Lives

-----------------------------------------------------------------------------
(* One queue and one object: the sets there and here are the server's list  *)
(* and the peer's.                                                          *)

LEMMA AppendFrames ==
    ASSUME NEW q \in Seq(Packet), NEW x \in Packet, NEW r, r = Append(q, x)
    PROVE  /\ Len(q) \in Nat /\ Len(r) = Len(q) + 1
           /\ \A i \in 1 .. Len(q) : i \in 1 .. Len(r) /\ r[i] = q[i] /\ i < Len(r)
           /\ Len(r) \in 1 .. Len(r) /\ r[Len(r)] = x
           /\ \A i \in 1 .. Len(r) : i = Len(r) \/ i \in 1 .. Len(q)
<1>1. Len(q) \in Nat /\ Len(r) = Len(q) + 1
  BY AppendProperties
<1>2. \A i \in 1 .. Len(q) : r[i] = q[i]
  BY AppendProperties
<1>3. r[Len(r)] = x
  BY <1>1, AppendProperties
<1> QED
  BY <1>1, <1>2, <1>3

\* A packet that says nothing of the object's life changes nothing.
LEMMA NeutralSent ==
    ASSUME NEW q \in Seq(Packet), NEW x \in Packet, NEW id \in IDs, Neutral(x[id]),
           NEW there, NEW here, InStep(there, here, q, id)
    PROVE  InStep(there, here, Append(q, x), id)
<1> DEFINE r == Append(q, x)
<1>1. /\ \A i \in 1 .. Len(q) : i \in 1 .. Len(r) /\ r[i] = q[i]
      /\ \A i \in 1 .. Len(r) : r[i] = x \/ (i \in 1 .. Len(q) /\ r[i] = q[i])
  <2>1. r = Append(q, x)
    OBVIOUS
  <2> HIDE DEF r
  <2> QED
    BY <2>1, AppendFrames
<1> HIDE DEF r
<1>2. Ordered(r, id)
  BY <1>1 DEF Ordered, Neutral, InStep
<1>3. /\ InFlight(r, id, "Alloc") <=> InFlight(q, id, "Alloc")
      /\ InFlight(r, id, "Dealloc") <=> InFlight(q, id, "Dealloc")
  BY <1>1 DEF InFlight, Neutral
<1>4. InStep(there, here, r, id)
  BY <1>2, <1>3 DEF InStep
<1> QED
  BY <1>4 DEF r

\* The Alloc frame of a new object.
LEMMA AllocSent ==
    ASSUME NEW q \in Seq(Packet), NEW x \in Packet, NEW id \in IDs, Silent(q, id),
           x[id].type = "Alloc", NEW there, NEW here, id \in there, id \notin here
    PROVE  InStep(there, here, Append(q, x), id)
<1> DEFINE r == Append(q, x)
<1>1. /\ Len(r) \in 1 .. Len(r) /\ r[Len(r)] = x
      /\ \A i \in 1 .. Len(r) : i = Len(r) \/ (i \in 1 .. Len(q) /\ r[i] = q[i])
  <2>1. r = Append(q, x)
    OBVIOUS
  <2> HIDE DEF r
  <2> QED
    BY <2>1, AppendFrames
<1> HIDE DEF r
<1>2. /\ \A i \in 1 .. Len(r) : r[i][id].type # "Dealloc"
      /\ \A i \in 1 .. Len(r) : r[i][id].type = "Alloc" => i = Len(r)
  BY <1>1 DEF Silent, Neutral
<1>3. Ordered(r, id)
  BY <1>2 DEF Ordered
<1>4. InFlight(r, id, "Alloc") /\ ~InFlight(r, id, "Dealloc")
  BY <1>1, <1>2 DEF InFlight
<1>5. InStep(there, here, r, id)
  BY <1>3, <1>4 DEF InStep
<1> QED
  BY <1>5 DEF r

\* The Dealloc frame of an object the server drops.
LEMMA DeallocSent ==
    ASSUME NEW q \in Seq(Packet), NEW x \in Packet, NEW id \in IDs,
           x[id].type = "Dealloc", NEW there, NEW after, NEW here,
           InStep(there, here, q, id), id \in there, id \notin after
    PROVE  InStep(after, here, Append(q, x), id)
<1> DEFINE r == Append(q, x)
<1>1. /\ Len(r) \in 1 .. Len(r) /\ r[Len(r)] = x
      /\ \A i \in 1 .. Len(q) : i \in 1 .. Len(r) /\ r[i] = q[i] /\ i < Len(r)
      /\ \A i \in 1 .. Len(r) : i = Len(r) \/ (i \in 1 .. Len(q) /\ r[i] = q[i])
  <2>1. r = Append(q, x)
    OBVIOUS
  <2> HIDE DEF r
  <2> QED
    BY <2>1, AppendFrames
<1>2. \A i \in 1 .. Len(q) : q[i][id].type # "Dealloc"
  BY DEF InStep, InFlight
<1>3. Ordered(q, id)
  BY DEF InStep
<1> HIDE DEF r
<1>4. Ordered(r, id)
  <2> SUFFICES ASSUME NEW i \in 1 .. Len(r), NEW j \in 1 .. Len(r)
               PROVE  /\ r[i][id].type = "Alloc" /\ r[j][id].type = "Alloc" => i = j
                      /\ r[i][id].type = "Dealloc" /\ r[j][id].type = "Dealloc" => i = j
                      /\ r[i][id].type = "Alloc" /\ r[j][id].type = "Dealloc" => i < j
    BY DEF Ordered
  <2>1. /\ r[i][id].type = "Dealloc" => i = Len(r)
        /\ r[j][id].type = "Dealloc" => j = Len(r)
        /\ r[i][id].type = "Alloc" => i \in 1 .. Len(q) /\ r[i] = q[i]
        /\ r[j][id].type = "Alloc" => j \in 1 .. Len(q) /\ r[j] = q[j]
    BY <1>1, <1>2
  <2> QED
    BY <1>1, <1>3, <2>1 DEF Ordered
<1>5. /\ InFlight(r, id, "Alloc") <=> InFlight(q, id, "Alloc")
      /\ InFlight(r, id, "Dealloc")
  BY <1>1 DEF InFlight
<1>6. InStep(after, here, r, id)
  BY <1>4, <1>5 DEF InStep
<1> QED
  BY <1>6 DEF r

\* The peer takes the first packet: EntAllocate and EntDeallocate.
LEMMA FirstTaken ==
    ASSUME NEW q \in Seq(Packet), q # <<>>, NEW id \in IDs, NEW there, NEW here, NEW after,
           InStep(there, here, q, id),
           id \in after <=> \/ Head(q)[id].type = "Alloc"
                            \/ id \in here /\ Head(q)[id].type # "Dealloc"
    PROVE  InStep(there, after, Tail(q), id)
<1> DEFINE r == Tail(q)
<1>1. /\ Len(q) \in Nat /\ 1 \in 1 .. Len(q) /\ Head(q) = q[1]
      /\ \A i \in 1 .. Len(r) : i + 1 \in 1 .. Len(q) /\ r[i] = q[i + 1]
      /\ \A i \in 1 .. Len(q) : i # 1 => i - 1 \in 1 .. Len(r) /\ r[i - 1] = q[i]
  BY TailElements
<1>2. Ordered(q, id)
  BY DEF InStep
<1> HIDE DEF r
<1>3. Ordered(r, id)
  <2> SUFFICES ASSUME NEW i \in 1 .. Len(r), NEW j \in 1 .. Len(r)
               PROVE  /\ r[i][id].type = "Alloc" /\ r[j][id].type = "Alloc" => i = j
                      /\ r[i][id].type = "Dealloc" /\ r[j][id].type = "Dealloc" => i = j
                      /\ r[i][id].type = "Alloc" /\ r[j][id].type = "Dealloc" => i < j
    BY DEF Ordered
  <2>1. /\ i + 1 \in 1 .. Len(q) /\ r[i] = q[i + 1]
        /\ j + 1 \in 1 .. Len(q) /\ r[j] = q[j + 1]
    BY <1>1
  <2>2. i + 1 = j + 1 => i = j
    OBVIOUS
  <2>3. i + 1 < j + 1 => i < j
    OBVIOUS
  <2> QED
    BY <1>2, <2>1, <2>2, <2>3 DEF Ordered
<1>4. ASSUME NEW T
      PROVE  InFlight(q, id, T) <=> Head(q)[id].type = T \/ InFlight(r, id, T)
  <2>1. ASSUME NEW i \in 1 .. Len(q), q[i][id].type = T
        PROVE  Head(q)[id].type = T \/ InFlight(r, id, T)
    <3>1. CASE i = 1
      BY <1>1, <2>1, <3>1
    <3>2. CASE i # 1
      <4>1. i - 1 \in 1 .. Len(r) /\ r[i - 1] = q[i]
        BY <1>1, <3>2
      <4> QED
        BY <2>1, <4>1, Zenon DEF InFlight
    <3> QED
      BY <3>1, <3>2
  <2>2. ASSUME NEW i \in 1 .. Len(r), r[i][id].type = T
        PROVE  InFlight(q, id, T)
    <3>1. i + 1 \in 1 .. Len(q) /\ r[i] = q[i + 1]
      BY <1>1
    <3> QED
      BY <2>2, <3>1, Zenon DEF InFlight
  <2>3. Head(q)[id].type = T => InFlight(q, id, T)
    BY <1>1, Zenon DEF InFlight
  <2> QED
    BY <2>1, <2>2, <2>3, Zenon DEF InFlight
<1>5. ASSUME NEW i \in 1 .. Len(r)
      PROVE  /\ Head(q)[id].type = "Alloc" => r[i][id].type # "Alloc"
             /\ Head(q)[id].type = "Dealloc" => r[i][id].type \notin {"Alloc", "Dealloc"}
  <2>1. i + 1 \in 1 .. Len(q) /\ r[i] = q[i + 1] /\ 1 \in 1 .. Len(q) /\ Head(q) = q[1]
    BY <1>1
  <2>2. i + 1 # 1 /\ ~(i + 1 < 1)
    OBVIOUS
  <2>3. /\ q[i + 1][id].type = "Alloc" /\ q[1][id].type = "Alloc" => i + 1 = 1
        /\ q[i + 1][id].type = "Dealloc" /\ q[1][id].type = "Dealloc" => i + 1 = 1
        /\ q[i + 1][id].type = "Alloc" /\ q[1][id].type = "Dealloc" => i + 1 < 1
    BY <1>2, <2>1 DEF Ordered
  <2> QED
    BY <2>1, <2>2, <2>3
<1>6. /\ Head(q)[id].type = "Alloc" => ~InFlight(r, id, "Alloc")
      /\ Head(q)[id].type = "Dealloc" => /\ ~InFlight(r, id, "Dealloc")
                                         /\ ~InFlight(r, id, "Alloc")
  BY <1>5 DEF InFlight
<1>7. InStep(there, after, r, id)
  <2>1. CASE Head(q)[id].type = "Alloc"
    BY <1>3, <1>4, <1>6, <2>1 DEF InStep
  <2>2. CASE Head(q)[id].type = "Dealloc"
    BY <1>3, <1>4, <1>6, <2>2 DEF InStep
  <2>3. CASE Head(q)[id].type \notin {"Alloc", "Dealloc"}
    BY <1>3, <1>4, <2>3 DEF InStep
  <2> QED
    BY <2>1, <2>2, <2>3
<1> QED
  BY <1>7 DEF r

\* Only membership of the object in the two lists matters.
LEMMA SameLists ==
    ASSUME NEW q, NEW id, NEW there, NEW here, NEW there2, NEW here2,
           InStep(there, here, q, id),
           id \in there2 <=> id \in there, id \in here2 <=> id \in here
    PROVE  InStep(there2, here2, q, id)
BY DEF InStep

-----------------------------------------------------------------------------
(* What Send does to a queue.                                               *)

LEMMA SendCases ==
    ASSUME NEW q \in [Peers -> Seq(Packet)], NEW to, NEW x \in Packet, NEW p \in Peers
    PROVE  /\ q[p] \in Seq(Packet)
           /\ Send(q, to, x)[p] \in {q[p], Append(q[p], x)}
           /\ p \in to /\ (\E id \in IDs : ~Neutral(x[id])) =>
                  Send(q, to, x)[p] = Append(q[p], x)
<1>1. (\E id \in IDs : ~Neutral(x[id])) => Modified(x)
  BY DEF Neutral, Modified
<1> QED
  BY <1>1 DEF Send

LEMMA NeutralSend ==
    ASSUME NEW q \in [Peers -> Seq(Packet)], NEW to, NEW x \in Packet, NEW p \in Peers,
           NEW id \in IDs, Neutral(x[id])
    PROVE  /\ Silent(q[p], id) => Silent(Send(q, to, x)[p], id)
           /\ \A there, here : InStep(there, here, q[p], id) =>
                  InStep(there, here, Send(q, to, x)[p], id)
<1>1. q[p] \in Seq(Packet) /\ Send(q, to, x)[p] \in {q[p], Append(q[p], x)}
  BY SendCases
<1>2. CASE Send(q, to, x)[p] = q[p]
  BY <1>2
<1>3. CASE Send(q, to, x)[p] = Append(q[p], x)
  <2>1. \A there, here : InStep(there, here, q[p], id) =>
                  InStep(there, here, Append(q[p], x), id)
    BY <1>1, NeutralSent
  <2>2. ASSUME Silent(q[p], id)
        PROVE  Silent(Append(q[p], x), id)
    <3> DEFINE r == Append(q[p], x)
    <3>1. \A i \in 1 .. Len(r) : r[i] = x \/ (i \in 1 .. Len(q[p]) /\ r[i] = q[p][i])
      <4>1. r = Append(q[p], x)
        OBVIOUS
      <4> HIDE DEF r
      <4> QED
        BY <1>1, <4>1, AppendFrames
    <3> HIDE DEF r
    <3>2. Silent(r, id)
      BY <2>2, <3>1 DEF Silent
    <3> QED
      BY <3>2 DEF r
  <2> QED
    BY <1>3, <2>1, <2>2
<1> QED
  BY <1>1, <1>2, <1>3

LEMMA SilentTail ==
    ASSUME NEW q \in Seq(Packet), q # <<>>, NEW id \in IDs, Silent(q, id)
    PROVE  Silent(Tail(q), id) /\ Neutral(Head(q)[id])
<1>1. /\ 1 \in 1 .. Len(q) /\ Head(q) = q[1]
      /\ \A i \in 1 .. Len(Tail(q)) : i + 1 \in 1 .. Len(q) /\ Tail(q)[i] = q[i + 1]
  BY TailElements
<1> QED
  BY <1>1 DEF Silent

\* A snapshot creates and frees nothing; a list frees nothing, and creates the
\* objects listed.
LEMMA NeutralPackets ==
    /\ \A v, ids, f : \A id \in IDs : Neutral(SnapshotPacket(v, ids, f)[id])
    /\ \A id \in IDs : Neutral(NoPacket[id])
    /\ \A ids, own, p : \A id \in IDs :
           /\ ListPacket(ids, own, p)[id].type # "Dealloc"
           /\ id \notin ids => Neutral(ListPacket(ids, own, p)[id])
           /\ ListPacket(ids, own, p)[id].type = "Alloc" => id \in ids
BY DEF SnapshotPacket, NoPacket, ListPacket, Neutral, DataFrame, NoFrame, AllocFrame, ListFrame

-----------------------------------------------------------------------------
(* The steps.                                                               *)

LEMMA InitLife == Init => LifeInv
<1> SUFFICES ASSUME Init PROVE LifeInv
  OBVIOUS
<1>1. TypeOK
  BY InitTypeOK
<1>2. \A p \in Peers : broadcast[p] = <<>> /\ direct[p] = <<>>
  BY DEF Init
<1>3. \A p \in Peers, id \in IDs : Silent(broadcast[p], id) /\ Silent(direct[p], id)
  BY <1>2 DEF Silent
<1>4. FreshIDs /\ DirectListed
  BY <1>2, <1>3 DEF Init, FreshIDs, DirectListed
<1>5. PendingFrames
  <2>1. building.id = -1 /\ \A id \in IDs : id # -1
    BY DEF Init, NoBuild, IDs
  <2> QED
    BY <2>1, NeutralPackets DEF Init, PendingFrames, NoBuild
<1>6. ListedPeers
  BY DEF Init, ListedPeers, IdleNet
<1>7. Lives
  BY DEF Init, Lives, Announced, IDs
<1> QED
  BY <1>1, <1>4, <1>5, <1>6, <1>7 DEF LifeInv

\* The steps that touch no list, no frame of a list and no connection.
LEMMA LifeUntouched ==
    ASSUME LifeInv, TypeOK',
           UNCHANGED <<s_TotalEntities, objects, building, connected, broadcast,
                       direct, listed>>,
           \A id \in IDs : Neutral(sync'.packet[id]),
           net'.stage # "idle" => net'.peer \in connected
    PROVE  LifeInv'
<1>1. FreshIDs' /\ DirectListed' /\ Lives' /\ ListedPeers'
  BY DEF LifeInv, FreshIDs, DirectListed, Lives, ListedPeers, Unborn, Announced, Silent,
     Neutral, InStep, Ordered, InFlight
<1>2. PendingFrames'
  BY DEF LifeInv, PendingFrames, Neutral
<1> QED
  BY <1>1, <1>2 DEF LifeInv

LEMMA BuildBeginLife ==
    ASSUME LifeInv, NEW o \in Owners, BuildBegin(o)
    PROVE  LifeInv'
<1>1. /\ TypeOK' /\ TypeOK
      /\ UNCHANGED <<objects, connected, broadcast, direct, listed, sync, net>>
  BY BuildBeginType DEF LifeInv, BuildBegin, netVars
<1>2. /\ building.id = -1 /\ building'.id = s_TotalEntities
      /\ s_TotalEntities' = s_TotalEntities + 1 /\ s_TotalEntities \in Nat
      /\ IDs \subseteq Nat
      /\ s_TotalEntities \in IDs
  BY <1>1, BoundsAssumption DEF BuildBegin, NoBuild, TypeOK, IDs
<1>3. /\ \A id \in IDs : Unborn(id)' => Unborn(id)
      /\ \A p \in Peers, id \in IDs : Announced(p, id)' => Announced(p, id)
  <2>1. /\ \A id \in IDs : Unborn(id)' => id >= s_TotalEntities
        /\ \A id \in IDs : id < s_TotalEntities' /\ building'.id # id => id < s_TotalEntities
        /\ \A id \in IDs : building.id # id
    BY <1>2 DEF Unborn
  <2> QED
    BY <1>1, <2>1 DEF Unborn, Announced
<1>4. FreshIDs' /\ DirectListed' /\ Lives' /\ ListedPeers'
  BY <1>1, <1>3 DEF LifeInv, FreshIDs, DirectListed, Lives, ListedPeers, Silent, Neutral,
     InStep, Ordered, InFlight
<1>5. PendingFrames'
  <2> DEFINE changes == SnapshotPacket(var[Server], Local(Server), FALSE)
  <2>1. building'.packet = [changes EXCEPT ![s_TotalEntities] = AllocFrame("NONE")]
    BY DEF BuildBegin
  <2>2. \A id \in IDs : Neutral(changes[id])
    BY NeutralPackets
  <2>3. changes = [id \in IDs |-> changes[id]]
    BY DEF SnapshotPacket
  <2> HIDE DEF changes
  <2>4. AllocFrame("NONE").type = "Alloc"
    BY DEF AllocFrame, ListFrame
  <2>5. \A id \in IDs : /\ id # building'.id => Neutral(building'.packet[id])
                        /\ id = building'.id => building'.packet[id].type = "Alloc"
    BY <1>2, <2>1, <2>2, <2>3, <2>4
  <2>6. building'.id < s_TotalEntities'
    BY <1>2
  <2> QED
    BY <1>1, <2>5, <2>6 DEF LifeInv, PendingFrames, Neutral
<1> QED
  BY <1>1, <1>4, <1>5 DEF LifeInv

LEMMA BuildPublishLife ==
    ASSUME LifeInv, BuildPublish
    PROVE  LifeInv'
<1> DEFINE ids == objects[Server] \cup {building.id}
           to == {building.owner} \cap connected
           listing == ListPacket(ids, owner', building.owner)
           full == SnapshotPacket(var[Server], ids, TRUE)
<1>1. TypeOK' /\ TypeOK /\ Server \in Hosts /\ Peers \subseteq Hosts /\ Server \notin Peers
  BY BuildPublishType, HostsAssumption DEF LifeInv, Hosts
<1>2. /\ building.id \in IDs /\ building.packet \in Packet
      /\ building.id < s_TotalEntities /\ s_TotalEntities \in Nat /\ IDs \subseteq Nat
      /\ building'.id = -1
  BY <1>1 DEF LifeInv, PendingFrames, TypeOK, BuildPublish, Builds, NoBuild, IDs
<1>3. /\ objects'[Server] = ids
      /\ \A p \in Peers : objects'[p] = objects[p]
      /\ UNCHANGED <<s_TotalEntities, connected, sync, net>>
      /\ broadcast' = Send(broadcast, connected, building.packet)
      /\ direct' = Send(Send(direct, to, listing), to, full)
      /\ listed' = [p \in Peers |-> IF p \in to THEN s_TotalEntities ELSE listed[p]]
  <2>1. objects' = [objects EXCEPT ![Server] = ids]
    BY DEF BuildPublish
  <2>2. owner' = [owner EXCEPT ![building.id] = building.owner]
    BY DEF BuildPublish
  <2> HIDE DEF ids
  <2>3. objects'[Server] = ids /\ \A p \in Peers : objects'[p] = objects[p]
    BY <1>1, <2>1 DEF TypeOK
  <2> QED
    BY <2>2, <2>3 DEF BuildPublish, ids
<1>4. /\ listing \in Packet /\ full \in Packet
      /\ broadcast \in [Peers -> Seq(Packet)] /\ direct \in [Peers -> Seq(Packet)]
      /\ Send(direct, to, listing) \in [Peers -> Seq(Packet)]
  <2>1. listing \in Packet /\ full \in Packet
    BY <1>1, ListPacketType, SnapshotTypes DEF TypeOK
  <2>2. broadcast \in [Peers -> Seq(Packet)] /\ direct \in [Peers -> Seq(Packet)]
    BY <1>1 DEF TypeOK
  <2> HIDE DEF listing, full, to
  <2> QED
    BY <2>1, <2>2, SendType
<1>5. \A id \in IDs : /\ Neutral(full[id])
                      /\ listing[id].type # "Dealloc"
                      /\ id \notin ids => Neutral(listing[id])
                      /\ listing[id].type = "Alloc" => id \in ids
  BY NeutralPackets
<1>6. \A id \in ids : id \in IDs /\ id < s_TotalEntities
  <2>1. \A id \in objects[Server] : id \in IDs /\ ~Unborn(id)
    BY <1>1 DEF LifeInv, FreshIDs, TypeOK
  <2>2. \A id \in IDs : ~Unborn(id) => id < s_TotalEntities
    BY <1>2 DEF Unborn
  <2>3. \A id \in ids : id = building.id \/ id \in objects[Server]
    OBVIOUS
  <2> QED
    BY <1>2, <2>1, <2>2, <2>3
<1>7. \A id \in IDs : id # building.id => Neutral(building.packet[id])
  BY DEF LifeInv, PendingFrames
<1> HIDE DEF listing, full, ids
<1>8. \A id \in IDs : Unborn(id)' => Unborn(id) /\ id \notin ids /\ id # building.id
  <2> SUFFICES ASSUME NEW id \in IDs, Unborn(id)'
               PROVE  Unborn(id) /\ id \notin ids /\ id # building.id
    OBVIOUS
  <2>1. id \in Nat /\ id >= s_TotalEntities
    BY <1>2, <1>3 DEF Unborn
  <2>2. ~(id < s_TotalEntities)
    BY <1>2, <2>1
  <2> QED
    BY <1>2, <1>6, <2>1, <2>2 DEF Unborn
<1>9. FreshIDs'
  <2> SUFFICES ASSUME NEW id \in IDs, Unborn(id)'
               PROVE  /\ \A h \in Hosts : id \notin objects'[h]
                      /\ \A p \in Peers : Silent(broadcast'[p], id) /\ Silent(direct'[p], id)
    BY DEF FreshIDs, Silent, Neutral
  <2>1. Unborn(id) /\ id \notin ids /\ id # building.id
    BY <1>8
  <2>2. /\ \A h \in Hosts : id \notin objects[h]
        /\ \A p \in Peers : Silent(broadcast[p], id) /\ Silent(direct[p], id)
    BY <2>1 DEF LifeInv, FreshIDs
  <2>3. \A h \in Hosts : id \notin objects'[h]
    BY <1>3, <2>1, <2>2 DEF Hosts
  <2>4. ASSUME NEW p \in Peers
        PROVE  Silent(broadcast'[p], id) /\ Silent(direct'[p], id)
    <3>1. Silent(broadcast'[p], id)
      BY <1>2, <1>3, <1>4, <1>7, <2>1, <2>2, NeutralSend
    <3> HIDE DEF to
    <3>2. Silent(Send(direct, to, listing)[p], id)
      BY <1>4, <1>5, <2>1, <2>2, NeutralSend
    <3>3. Silent(Send(Send(direct, to, listing), to, full)[p], id)
      BY <1>4, <1>5, <3>2, NeutralSend
    <3> QED
      BY <1>3, <3>1, <3>3
  <2> QED
    BY <2>3, <2>4
<1>10. DirectListed'
  <2> DEFINE sent == Send(Send(direct, to, listing), to, full)
  <2> HIDE DEF to
  <2> SUFFICES ASSUME NEW p \in Peers, NEW i \in 1 .. Len(sent[p]), NEW id \in IDs
               PROVE  /\ sent[p][i][id].type # "Dealloc"
                      /\ sent[p][i][id].type = "Alloc" => id < listed'[p]
    BY <1>3 DEF DirectListed
  <2>1. \/ /\ i \in 1 .. Len(direct[p])
           /\ sent[p][i] = direct[p][i]
        \/ p \in to /\ sent[p][i] = listing
        \/ sent[p][i] = full
    <3>1. /\ listing \in Packet /\ full \in Packet /\ direct \in [Peers -> Seq(Packet)]
          /\ i \in 1 .. Len(Send(Send(direct, to, listing), to, full)[p])
      BY <1>4
    <3> QED
      BY <3>1, SendTwice
  <2>2. listed'[p] = IF p \in to THEN s_TotalEntities ELSE listed[p]
    BY <1>3
  <2> HIDE DEF sent
  <2>3. CASE i \in 1 .. Len(direct[p]) /\ sent[p][i] = direct[p][i]
    <3>1. /\ direct[p][i][id].type # "Dealloc"
          /\ direct[p][i][id].type = "Alloc" => id < listed[p]
      BY <2>3 DEF LifeInv, DirectListed
    <3>2. direct[p][i][id].type = "Alloc" => ~Unborn(id)
      BY <2>3 DEF LifeInv, FreshIDs, Silent, Neutral
    <3>3. ~Unborn(id) => id < s_TotalEntities
      BY <1>2 DEF Unborn
    <3> QED
      BY <2>2, <2>3, <3>1, <3>2, <3>3
  <2>4. CASE p \in to /\ sent[p][i] = listing
    BY <1>5, <1>6, <2>2, <2>4
  <2>5. CASE sent[p][i] = full
    BY <1>5, <2>5 DEF Neutral
  <2> QED
    BY <2>1, <2>3, <2>4, <2>5
<1>11. ListedPeers'
  BY <1>3 DEF LifeInv, ListedPeers
<1>12. PendingFrames'
  <2>1. \A id \in IDs : id # building'.id /\ Neutral(NoPacket[id])
    BY <1>2, NeutralPackets DEF IDs
  <2> QED
    BY <1>2, <1>3, <2>1 DEF LifeInv, PendingFrames, BuildPublish, NoBuild, Neutral
<1>13. Lives'
  <2> SUFFICES ASSUME NEW p \in Peers, NEW id \in IDs, Announced(p, id)'
               PROVE  InStep(objects'[Server], objects'[p], broadcast'[p], id)
    BY DEF Lives, InStep, Ordered, InFlight
  <2>1. p \in connected /\ id < s_TotalEntities /\ listed[p] <= id
    <3>1. p \in connected /\ id < s_TotalEntities /\ listed'[p] <= id
      BY <1>3 DEF Announced
    <3>2. p \notin to
      BY <1>2, <1>3, <3>1
    <3> QED
      BY <1>3, <3>1, <3>2
  <2>2. CASE id = building.id
    <3>1. /\ Silent(broadcast[p], id) /\ id \notin objects[p]
          /\ building.packet[id].type = "Alloc"
      BY <1>1, <2>2 DEF LifeInv, FreshIDs, Unborn, PendingFrames
    <3>2. ~Neutral(building.packet[id])
      BY <3>1 DEF Neutral
    <3>3. broadcast'[p] = Append(broadcast[p], building.packet) /\ broadcast[p] \in Seq(Packet)
      <4>1. building.packet \in Packet /\ \E k \in IDs : ~Neutral(building.packet[k])
        BY <1>2, <3>2
      <4>2. broadcast \in [Peers -> Seq(Packet)] /\ p \in connected
        BY <1>4, <2>1
      <4>3. /\ Send(broadcast, connected, building.packet)[p]
                   = Append(broadcast[p], building.packet)
            /\ broadcast[p] \in Seq(Packet)
        BY <4>1, <4>2, SendCases
      <4> QED
        BY <1>3, <4>3
    <3>4. id \in objects'[Server] /\ id \notin objects'[p]
      BY <1>3, <2>2, <3>1 DEF ids
    <3> QED
      BY <1>2, <3>1, <3>3, <3>4, AllocSent
  <2>3. CASE id # building.id
    <3>1. InStep(objects[Server], objects[p], broadcast[p], id)
      BY <2>1, <2>3 DEF LifeInv, Lives, Announced
    <3>2. InStep(objects[Server], objects[p], broadcast'[p], id)
      BY <1>2, <1>3, <1>4, <1>7, <2>3, <3>1, NeutralSend
    <3>3. id \in objects'[Server] <=> id \in objects[Server]
      BY <1>3, <2>3 DEF ids
    <3> QED
      BY <1>3, <3>2, <3>3, SameLists
  <2> QED
    BY <2>2, <2>3
<1> QED
  BY <1>1, <1>9, <1>10, <1>11, <1>12, <1>13 DEF LifeInv

\* A packet broadcast to every connected peer; the objects of the server it frees
\* leave the server's list.
LEMMA BroadcastLife ==
    ASSUME LifeInv, TypeOK', NEW packet \in Packet,
           broadcast' = Send(broadcast, connected, packet),
           \A id \in IDs : \/ /\ Neutral(packet[id])
                              /\ id \in objects'[Server] <=> id \in objects[Server]
                           \/ /\ packet[id].type = "Dealloc"
                              /\ id \in objects[Server] /\ id \notin objects'[Server],
           \A p \in Peers : objects'[p] = objects[p],
           UNCHANGED <<s_TotalEntities, building, connected, direct, listed, net>>,
           \A id \in IDs : Neutral(sync'.packet[id])
    PROVE  LifeInv'
<1>1. broadcast \in [Peers -> Seq(Packet)] /\ Server \in Hosts
  BY DEF LifeInv, TypeOK, Hosts
<1>2. FreshIDs'
  <2> SUFFICES ASSUME NEW id \in IDs, Unborn(id)
               PROVE  /\ \A h \in Hosts : id \notin objects'[h]
                      /\ \A p \in Peers : Silent(broadcast'[p], id) /\ Silent(direct[p], id)
    BY DEF FreshIDs, Silent, Neutral, Unborn
  <2>1. /\ \A h \in Hosts : id \notin objects[h]
        /\ \A p \in Peers : Silent(broadcast[p], id) /\ Silent(direct[p], id)
    BY DEF LifeInv, FreshIDs
  <2>2. Neutral(packet[id]) /\ id \notin objects'[Server]
    BY <1>1, <2>1
  <2>3. \A h \in Hosts : id \notin objects'[h]
    BY <2>1, <2>2 DEF Hosts
  <2>4. \A p \in Peers : Silent(broadcast'[p], id)
    BY <1>1, <2>1, <2>2, NeutralSend
  <2> QED
    BY <2>1, <2>3, <2>4
<1>3. Lives'
  <2> SUFFICES ASSUME NEW p \in Peers, NEW id \in IDs, Announced(p, id)
               PROVE  InStep(objects'[Server], objects'[p], broadcast'[p], id)
    BY SMTT(30) DEF Lives, InStep, Ordered, InFlight, Announced
  <2>1. InStep(objects[Server], objects[p], broadcast[p], id) /\ p \in connected
    BY DEF LifeInv, Lives, Announced
  <2>2. CASE Neutral(packet[id]) /\ (id \in objects'[Server] <=> id \in objects[Server])
    <3>1. InStep(objects[Server], objects[p], broadcast'[p], id)
      BY <1>1, <2>1, <2>2, NeutralSend
    <3> QED
      BY <2>2, <3>1, SameLists
  <2>3. CASE packet[id].type = "Dealloc" /\ id \in objects[Server] /\ id \notin objects'[Server]
    <3>1. ~Neutral(packet[id])
      BY <2>3 DEF Neutral
    <3>2. broadcast'[p] = Append(broadcast[p], packet) /\ broadcast[p] \in Seq(Packet)
      BY <1>1, <2>1, <3>1, SendCases
    <3> QED
      BY <2>1, <2>3, <3>2, DeallocSent
  <2> QED
    BY <2>2, <2>3
<1>4. DirectListed' /\ ListedPeers' /\ PendingFrames'
  BY DEF LifeInv, DirectListed, ListedPeers, PendingFrames, Neutral
<1> QED
  BY <1>2, <1>3, <1>4 DEF LifeInv

LEMMA SyncLife ==
    ASSUME LifeInv, Sync
    PROVE  LifeInv'
<1>1. TypeOK' /\ TypeOK /\ Server \in Hosts /\ Server \notin Peers /\ Peers \subseteq Hosts
  BY SyncType, HostsAssumption DEF LifeInv, Hosts
<1>2. \A id \in IDs : Neutral(sync.packet[id])
  BY DEF LifeInv, PendingFrames
<1>3. CASE SyncSnapshot
  <2>1. \A id \in IDs : Neutral(sync'.packet[id])
    BY <1>3, NeutralPackets DEF SyncSnapshot
  <2>2. net.stage # "idle" => net.peer \in connected
    BY DEF LifeInv, ListedPeers
  <2> QED
    BY <1>1, <1>3, <2>1, <2>2, LifeUntouched DEF SyncSnapshot, netVars
<1>4. CASE SyncBroadcast
  <2>1. \A id \in IDs : Neutral(sync'.packet[id])
    BY <1>4, NeutralPackets DEF SyncBroadcast
  <2>2. /\ broadcast' = Send(broadcast, connected, sync.packet) /\ sync.packet \in Packet
        /\ UNCHANGED <<objects, s_TotalEntities, building, connected, direct, listed, net>>
    BY <1>1, <1>4 DEF SyncBroadcast, hostVars, TypeOK
  <2> QED
    BY <1>1, <1>2, <2>1, <2>2, BroadcastLife
<1>5. CASE SyncPostUpdate
  <2> DEFINE loose == objects[Server] \ held
             frees == [id \in IDs |-> IF id \in loose THEN DeallocFrame ELSE NoFrame]
  <2>1. /\ broadcast' = Send(broadcast, connected, frees)
        /\ objects' = [objects EXCEPT ![Server] = @ \ loose]
        /\ sync'.packet = sync.packet
        /\ UNCHANGED <<s_TotalEntities, building, connected, direct, listed, net>>
    BY <1>5 DEF SyncPostUpdate
  <2>2. frees \in Packet
    BY FrameTypes DEF Packet
  <2>3. \A id \in IDs : /\ id \in loose => frees[id].type = "Dealloc"
                        /\ id \notin loose => Neutral(frees[id])
    BY DEF DeallocFrame, NoFrame, ListFrame, Neutral
  <2>4. loose \subseteq objects[Server]
    OBVIOUS
  <2> HIDE DEF frees, loose
  <2>5. /\ objects'[Server] = objects[Server] \ loose
        /\ \A p \in Peers : objects'[p] = objects[p]
    BY <1>1, <2>1 DEF TypeOK
  <2>6. \A id \in IDs : \/ /\ Neutral(frees[id])
                           /\ id \in objects'[Server] <=> id \in objects[Server]
                        \/ /\ frees[id].type = "Dealloc"
                           /\ id \in objects[Server] /\ id \notin objects'[Server]
    BY <2>3, <2>4, <2>5
  <2>7. \A id \in IDs : Neutral(sync'.packet[id])
    BY <1>2, <2>1
  <2> QED
    BY <1>1, <2>1, <2>2, <2>5, <2>6, <2>7, BroadcastLife
<1> QED
  BY <1>3, <1>4, <1>5 DEF Sync

\* Packets sent on channel 1, which only list objects the server has.
LEMMA DirectSentLife ==
    ASSUME LifeInv, TypeOK', NEW to, NEW packet \in Packet,
           direct' = Send(direct, to, packet),
           \A id \in IDs : \/ Neutral(packet[id])
                           \/ packet[id].type = "Alloc" /\ id \in objects[Server],
           \A p \in Peers : \/ listed'[p] = listed[p]
                            \/ p \in connected /\ listed'[p] = s_TotalEntities,
           \A p \in to, id \in IDs : packet[id].type = "Alloc" => listed'[p] = s_TotalEntities,
           UNCHANGED <<s_TotalEntities, building, connected, broadcast, objects, sync>>,
           net'.stage # "idle" => net'.peer \in connected
    PROVE  LifeInv'
<1>1. /\ direct \in [Peers -> Seq(Packet)] /\ Server \in Hosts
      /\ s_TotalEntities \in Nat /\ IDs \subseteq Nat
  BY DEF LifeInv, TypeOK, Hosts, IDs
<1>2. FreshIDs'
  <2> SUFFICES ASSUME NEW id \in IDs, Unborn(id), NEW p \in Peers
               PROVE  Silent(direct'[p], id)
    BY DEF LifeInv, FreshIDs, Silent, Neutral, Unborn
  <2>1. Silent(direct[p], id) /\ id \notin objects[Server]
    BY <1>1 DEF LifeInv, FreshIDs
  <2>2. Neutral(packet[id])
    BY <2>1
  <2> QED
    BY <1>1, <2>1, <2>2, NeutralSend
<1>3. \A id \in IDs : ~Unborn(id) => id < s_TotalEntities
  BY <1>1 DEF Unborn
<1>4. DirectListed'
  <2> SUFFICES ASSUME NEW p \in Peers, NEW i \in 1 .. Len(direct'[p]), NEW id \in IDs
               PROVE  /\ direct'[p][i][id].type # "Dealloc"
                      /\ direct'[p][i][id].type = "Alloc" => id < listed'[p]
    BY DEF DirectListed
  <2>1. \A k \in 1 .. Len(direct'[p]) :
           \/ k \in 1 .. Len(direct[p]) /\ direct'[p][k] = direct[p][k]
           \/ p \in to /\ direct'[p][k] = packet
    BY <1>1, SendIndex
  <2>2. CASE i \in 1 .. Len(direct[p]) /\ direct'[p][i] = direct[p][i]
    <3>1. /\ direct[p][i][id].type # "Dealloc"
          /\ direct[p][i][id].type = "Alloc" => id < listed[p]
      BY <2>2 DEF LifeInv, DirectListed
    <3>2. direct[p][i][id].type = "Alloc" => ~Unborn(id)
      BY <2>2 DEF LifeInv, FreshIDs, Silent, Neutral
    <3> QED
      BY <1>3, <2>2, <3>1, <3>2
  <2>3. CASE p \in to /\ direct'[p][i] = packet
    <3>1. packet[id].type # "Dealloc"
      BY DEF Neutral
    <3>2. packet[id].type = "Alloc" => id < listed'[p]
      <4>1. packet[id].type = "Alloc" => id \in objects[Server]
        BY DEF Neutral
      <4>2. id \in objects[Server] => ~Unborn(id)
        BY <1>1 DEF LifeInv, FreshIDs
      <4> QED
        BY <1>3, <2>3, <4>1, <4>2
    <3> QED
      BY <2>3, <3>1, <3>2
  <2> QED
    BY <2>1, <2>2, <2>3
<1>5. \A p \in Peers, id \in IDs : Announced(p, id)' => Announced(p, id)
  <2> SUFFICES ASSUME NEW p \in Peers, NEW id \in IDs, Announced(p, id)'
               PROVE  Announced(p, id)
    OBVIOUS
  <2>1. p \in connected /\ id < s_TotalEntities /\ building.id # id /\ listed'[p] <= id
    BY DEF Announced
  <2>2. listed'[p] # s_TotalEntities
    BY <1>1, <2>1
  <2> QED
    BY <2>1, <2>2 DEF Announced
<1>6. Lives'
  BY <1>5 DEF LifeInv, Lives, InStep, Ordered, InFlight
<1>7. ListedPeers' /\ PendingFrames'
  BY DEF LifeInv, ListedPeers, PendingFrames, Neutral
<1> QED
  BY <1>2, <1>4, <1>6, <1>7 DEF LifeInv

LEMMA NetLife ==
    ASSUME LifeInv, Net
    PROVE  LifeInv'
<1>1. TypeOK' /\ TypeOK
  BY NetType DEF LifeInv
<1>2. /\ \A id \in IDs : Neutral(sync.packet[id])
      /\ net.stage # "idle" => net.peer \in connected
      /\ \A p \in Peers \ connected : listed[p] = MaxEntities
  BY DEF LifeInv, PendingFrames, ListedPeers
<1>3. ASSUME NEW p \in Peers, Connect(p)
      PROVE  LifeInv'
  <2>1. /\ UNCHANGED <<s_TotalEntities, building, sync, objects, broadcast, direct, listed>>
        /\ connected' = connected \cup {p} /\ p \notin connected
        /\ net' = [stage |-> "lists", peer |-> p]
    BY <1>3 DEF Connect, hostVars
  <2>2. \A q \in Peers, id \in IDs : Announced(q, id)' => Announced(q, id)
    <3>1. \A id \in IDs : ~(listed[p] <= id)
      <4>1. listed[p] = MaxEntities
        BY <1>2, <2>1
      <4> QED
        BY <4>1, BoundsAssumption DEF IDs
    <3> QED
      BY <2>1, <3>1 DEF Announced
  <2>3. FreshIDs'
    BY <2>1 DEF LifeInv, FreshIDs, Unborn, Silent, Neutral
  <2>4. DirectListed'
    BY <2>1 DEF LifeInv, DirectListed
  <2>5. Lives'
    <3> SUFFICES ASSUME NEW q \in Peers, NEW id \in IDs, Announced(q, id)'
                 PROVE  InStep(objects[Server], objects[q], broadcast[q], id)
      BY <2>1 DEF Lives, InStep, Ordered, InFlight
    <3> QED
      BY <2>2 DEF LifeInv, Lives
  <2>6. ListedPeers' /\ PendingFrames'
    BY <1>2, <2>1 DEF LifeInv, ListedPeers, PendingFrames, Neutral
  <2> QED
    BY <1>1, <2>3, <2>4, <2>5, <2>6 DEF LifeInv
<1>4. ASSUME NEW p \in Peers, ServerReceive(p)
      PROVE  LifeInv'
  BY <1>1, <1>2, <1>4, LifeUntouched DEF ServerReceive, serverVars
<1>5. ASSUME NEW p \in Peers, Disconnect(p)
      PROVE  LifeInv'
  <2>1. /\ UNCHANGED <<s_TotalEntities, building, sync, net>>
        /\ connected' = connected \ {p} /\ net.stage = "idle"
        /\ \A q \in Peers : listed'[q] = IF q = p THEN MaxEntities ELSE listed[q]
        /\ \A q \in Peers : /\ broadcast'[q] = IF q = p THEN <<>> ELSE broadcast[q]
                            /\ direct'[q] = IF q = p THEN <<>> ELSE direct[q]
        /\ \A h \in Hosts : objects'[h] = IF h = p THEN {} ELSE objects[h]
    BY <1>1, <1>5 DEF Disconnect, serverVars, TypeOK, Hosts
  <2>2. Server # p /\ Server \in Hosts /\ Peers \subseteq Hosts
    BY HostsAssumption DEF Hosts
  <2>3. FreshIDs'
    BY <2>1 DEF LifeInv, FreshIDs, Unborn, Silent, Neutral
  <2>4. DirectListed'
    BY <2>1 DEF LifeInv, DirectListed
  <2>5. Lives'
    <3> SUFFICES ASSUME NEW q \in Peers, NEW id \in IDs, Announced(q, id)'
                 PROVE  InStep(objects'[Server], objects'[q], broadcast'[q], id)
      BY DEF Lives, InStep, Ordered, InFlight
    <3>1. q # p /\ Announced(q, id)
      BY <2>1 DEF Announced
    <3>2. InStep(objects[Server], objects[q], broadcast[q], id)
      BY <3>1 DEF LifeInv, Lives
    <3> QED
      BY <2>1, <2>2, <3>1, <3>2
  <2>6. ListedPeers' /\ PendingFrames'
    BY <1>2, <2>1 DEF LifeInv, ListedPeers, PendingFrames, Neutral
  <2> QED
    BY <1>1, <2>3, <2>4, <2>5, <2>6 DEF LifeInv
<1>6. CASE SendWorldLists
  <2> DEFINE listing == ListPacket(objects[Server], owner, net.peer)
  <2>1. net.peer \in connected /\ connected \subseteq Peers
    BY <1>1, <1>2, <1>6 DEF SendWorldLists, TypeOK
  <2>2. /\ direct' = Send(direct, {net.peer}, listing)
        /\ listed' = [listed EXCEPT ![net.peer] = s_TotalEntities]
        /\ UNCHANGED <<s_TotalEntities, building, connected, broadcast, objects, sync>>
        /\ net'.peer = net.peer
    BY <1>6 DEF SendWorldLists, hostVars
  <2>3. \A id \in IDs : \/ Neutral(listing[id])
                        \/ listing[id].type = "Alloc" /\ id \in objects[Server]
    BY NeutralPackets DEF Neutral
  <2>4. listing \in Packet
    BY ListPacketType
  <2> HIDE DEF listing
  <2>5. /\ \A p \in Peers : \/ listed'[p] = listed[p]
                            \/ p \in connected /\ listed'[p] = s_TotalEntities
        /\ \A p \in {net.peer}, id \in IDs :
               listing[id].type = "Alloc" => listed'[p] = s_TotalEntities
    BY <1>1, <2>1, <2>2 DEF TypeOK
  <2>6. net'.stage # "idle" => net'.peer \in connected
    BY <2>1, <2>2
  <2> QED
    BY <1>1, <2>2, <2>3, <2>4, <2>5, <2>6, DirectSentLife
<1>7. CASE SendWorldSnapshot
  <2> DEFINE full == SnapshotPacket(var[Server], Local(Server), TRUE)
  <2>1. /\ direct' = Send(direct, {net.peer}, full)
        /\ UNCHANGED <<s_TotalEntities, building, connected, broadcast, objects, sync, listed>>
        /\ net'.stage = "idle"
    BY <1>7 DEF SendWorldSnapshot, IdleNet
  <2>2. full \in Packet
    BY <1>1, SnapshotTypes DEF TypeOK, Hosts
  <2>3. \A id \in IDs : Neutral(full[id])
    BY NeutralPackets
  <2> HIDE DEF full
  <2>4. \A p \in {net.peer}, id \in IDs :
            full[id].type = "Alloc" => listed'[p] = s_TotalEntities
    BY <2>3 DEF Neutral
  <2> QED
    BY <1>1, <2>1, <2>2, <2>3, <2>4, DirectSentLife
<1> QED
  BY <1>3, <1>4, <1>5, <1>6, <1>7 DEF Net

\* The client's list after a packet.
LEMMA ReceivedObjects ==
    ASSUME TypeOK, NEW p \in Peers, NEW packet, HandleEntSnapshot(p, packet)
    PROVE  /\ \A h \in Hosts : h # p => objects'[h] = objects[h]
           /\ \A id \in IDs : id \in objects'[p] <=>
                  \/ packet[id].type = "Alloc"
                  \/ id \in objects[p] /\ packet[id].type # "Dealloc"
BY DEF HandleEntSnapshot, Frees, TypeOK, Hosts

LEMMA ClientLife ==
    ASSUME LifeInv, NEW p \in Peers, Client(p)
    PROVE  LifeInv'
<1>1. TypeOK' /\ TypeOK /\ Server # p /\ Server \in Hosts /\ Peers \subseteq Hosts
  BY ClientType, HostsAssumption DEF LifeInv, Hosts
<1>2. CASE ClientReceiveBroadcast(p)
  <2>1. /\ broadcast[p] \in Seq(Packet) /\ broadcast[p] # <<>>
        /\ \A q \in Peers : broadcast'[q] = IF q = p THEN Tail(broadcast[p]) ELSE broadcast[q]
        /\ UNCHANGED <<s_TotalEntities, building, sync, net, connected, direct, listed>>
    BY <1>1, <1>2 DEF ClientReceiveBroadcast, serverVars, TypeOK
  <2>2. /\ \A h \in Hosts : h # p => objects'[h] = objects[h]
        /\ \A id \in IDs : id \in objects'[p] <=>
               \/ Head(broadcast[p])[id].type = "Alloc"
               \/ id \in objects[p] /\ Head(broadcast[p])[id].type # "Dealloc"
    BY <1>1, <1>2, ReceivedObjects DEF ClientReceiveBroadcast
  <2>3. FreshIDs'
    <3> SUFFICES ASSUME NEW id \in IDs, Unborn(id)
                 PROVE  /\ \A h \in Hosts : id \notin objects'[h]
                        /\ \A q \in Peers : Silent(broadcast'[q], id) /\ Silent(direct[q], id)
      BY <2>1 DEF FreshIDs, Silent, Neutral, Unborn
    <3>1. /\ \A h \in Hosts : id \notin objects[h]
          /\ \A q \in Peers : Silent(broadcast[q], id) /\ Silent(direct[q], id)
      BY DEF LifeInv, FreshIDs
    <3>2. Silent(Tail(broadcast[p]), id) /\ Neutral(Head(broadcast[p])[id])
      BY <2>1, <3>1, SilentTail
    <3>3. Head(broadcast[p])[id].type # "Alloc"
      BY <3>2 DEF Neutral
    <3>4. \A h \in Hosts : id \notin objects'[h]
      BY <1>1, <2>2, <3>1, <3>3
    <3> QED
      BY <2>1, <3>1, <3>2, <3>4
  <2>4. Lives'
    <3> SUFFICES ASSUME NEW q \in Peers, NEW id \in IDs, Announced(q, id)
                 PROVE  InStep(objects'[Server], objects'[q], broadcast'[q], id)
      BY <2>1 DEF Lives, Announced, InStep, Ordered, InFlight
    <3>1. InStep(objects[Server], objects[q], broadcast[q], id)
      BY DEF LifeInv, Lives
    <3>2. objects'[Server] = objects[Server]
      BY <1>1, <2>2
    <3>3. CASE q = p
      <4>1. InStep(objects[Server], objects'[p], Tail(broadcast[p]), id)
        BY <2>1, <2>2, <3>1, <3>3, FirstTaken
      <4> QED
        BY <2>1, <3>2, <3>3, <4>1
    <3>4. CASE q # p
      BY <1>1, <2>1, <2>2, <3>1, <3>2, <3>4
    <3> QED
      BY <3>3, <3>4
  <2>5. DirectListed' /\ ListedPeers' /\ PendingFrames'
    BY <2>1 DEF LifeInv, DirectListed, ListedPeers, PendingFrames, Neutral
  <2> QED
    BY <1>1, <2>3, <2>4, <2>5 DEF LifeInv
<1>3. CASE ClientReceiveDirect(p)
  <2>1. /\ direct[p] \in Seq(Packet) /\ direct[p] # <<>>
        /\ \A q \in Peers : direct'[q] = IF q = p THEN Tail(direct[p]) ELSE direct[q]
        /\ UNCHANGED <<s_TotalEntities, building, sync, net, connected, broadcast, listed>>
    BY <1>1, <1>3 DEF ClientReceiveDirect, serverVars, TypeOK
  <2>2. /\ \A h \in Hosts : h # p => objects'[h] = objects[h]
        /\ \A id \in IDs : id \in objects'[p] <=>
               \/ Head(direct[p])[id].type = "Alloc"
               \/ id \in objects[p] /\ Head(direct[p])[id].type # "Dealloc"
    BY <1>1, <1>3, ReceivedObjects DEF ClientReceiveDirect
  <2>3. /\ 1 \in 1 .. Len(direct[p]) /\ Head(direct[p]) = direct[p][1]
        /\ \A i \in 1 .. Len(Tail(direct[p])) :
               i + 1 \in 1 .. Len(direct[p]) /\ Tail(direct[p])[i] = direct[p][i + 1]
    BY <2>1, TailElements
  <2>4. FreshIDs'
    <3> SUFFICES ASSUME NEW id \in IDs, Unborn(id)
                 PROVE  /\ \A h \in Hosts : id \notin objects'[h]
                        /\ \A q \in Peers : Silent(broadcast[q], id) /\ Silent(direct'[q], id)
      BY <2>1 DEF FreshIDs, Silent, Neutral, Unborn
    <3>1. /\ \A h \in Hosts : id \notin objects[h]
          /\ \A q \in Peers : Silent(broadcast[q], id) /\ Silent(direct[q], id)
      BY DEF LifeInv, FreshIDs
    <3>2. Silent(Tail(direct[p]), id) /\ Neutral(Head(direct[p])[id])
      BY <2>1, <3>1, SilentTail
    <3>3. Head(direct[p])[id].type # "Alloc"
      BY <3>2 DEF Neutral
    <3>4. \A h \in Hosts : id \notin objects'[h]
      BY <1>1, <2>2, <3>1, <3>3
    <3> QED
      BY <2>1, <3>1, <3>2, <3>4
  <2>5. DirectListed'
    <3> SUFFICES ASSUME NEW q \in Peers, NEW i \in 1 .. Len(direct'[q]), NEW id \in IDs
                 PROVE  /\ direct'[q][i][id].type # "Dealloc"
                        /\ direct'[q][i][id].type = "Alloc" => id < listed[q]
      BY <2>1 DEF DirectListed
    <3>1. \E k \in 1 .. Len(direct[q]) : direct'[q][i] = direct[q][k]
      <4>1. CASE q = p
        BY <2>1, <2>3, <4>1
      <4>2. CASE q # p
        BY <2>1, <4>2
      <4> QED
        BY <4>1, <4>2
    <3> QED
      BY <3>1 DEF LifeInv, DirectListed
  <2>6. Lives'
    <3> SUFFICES ASSUME NEW q \in Peers, NEW id \in IDs, Announced(q, id)
                 PROVE  InStep(objects'[Server], objects'[q], broadcast[q], id)
      BY <2>1 DEF Lives, Announced, InStep, Ordered, InFlight
    <3>1. InStep(objects[Server], objects[q], broadcast[q], id)
      BY DEF LifeInv, Lives
    <3>2. objects'[Server] = objects[Server]
      BY <1>1, <2>2
    <3>3. CASE q = p
\* Announced peers are not told of the object on channel 1.
      <4>1. /\ Head(direct[p])[id].type # "Dealloc"
            /\ Head(direct[p])[id].type = "Alloc" => id < listed[p]
        BY <2>3 DEF LifeInv, DirectListed
      <4>2. listed[p] <= id /\ listed[p] \in Nat /\ id \in Nat
        BY <1>1, <3>3 DEF Announced, TypeOK, IDs
      <4>3. ~(id < listed[p])
        BY <4>2
      <4>4. id \in objects'[p] <=> id \in objects[p]
        BY <2>2, <4>1, <4>3
      <4> QED
        BY <3>1, <3>2, <3>3, <4>4, SameLists
    <3>4. CASE q # p
      BY <1>1, <2>2, <3>1, <3>2, <3>4
    <3> QED
      BY <3>3, <3>4
  <2>7. ListedPeers' /\ PendingFrames'
    BY <2>1 DEF LifeInv, ListedPeers, PendingFrames, Neutral
  <2> QED
    BY <1>1, <2>4, <2>5, <2>6, <2>7 DEF LifeInv
<1>4. CASE ClientSnapshot(p)
  <2>1. /\ \A id \in IDs : Neutral(sync.packet[id])
        /\ net.stage # "idle" => net.peer \in connected
    BY DEF LifeInv, PendingFrames, ListedPeers
  <2> QED
    BY <1>1, <1>4, <2>1, LifeUntouched DEF ClientSnapshot, serverVars
<1> QED
  BY <1>2, <1>3, <1>4 DEF Client

LEMMA NextLife == LifeInv /\ [Next]_vars => LifeInv'
<1> SUFFICES ASSUME LifeInv, [Next]_vars PROVE LifeInv'
  OBVIOUS
<1>1. TypeOK /\ TypeOK'
  BY NextTypeOK DEF LifeInv
<1>2. /\ \A id \in IDs : Neutral(sync.packet[id])
      /\ net.stage # "idle" => net.peer \in connected
  BY DEF LifeInv, PendingFrames, ListedPeers
<1>3. CASE App
  <2>1. ASSUME NEW id \in IDs, Release(id)
        PROVE  LifeInv'
    BY <1>1, <1>2, <2>1, LifeUntouched DEF Release, hostVars, netVars
  <2>2. ASSUME NEW h \in Writers, NEW id \in IDs, NEW v, AppWrite(h, id, v)
        PROVE  LifeInv'
    BY <1>1, <1>2, <2>2, LifeUntouched DEF AppWrite, serverVars, netVars
  <2> QED
    BY <1>3, <2>1, <2>2, BuildBeginLife DEF App, Set, Invalidate, Lock
<1>4. CASE UNCHANGED vars
  BY <1>1, <1>2, <1>4, LifeUntouched DEF vars, serverVars, hostVars, netVars
<1> QED
  BY <1>3, <1>4, BuildPublishLife, SyncLife, NetLife, ClientLife DEF Next

\* Whatever Build, PostUpdate, connections, disconnections and the two channels do
\* in between, an object a connected peer learns of from broadcasts is on its way
\* to it until EntAllocate made it, and its end is on its way until EntDeallocate.
THEOREM LifecycleCorrect == Spec => []AnnouncedLifecycle
<1>1. LifeInv => AnnouncedLifecycle
  BY DEF LifeInv, Lives, InStep, AnnouncedLifecycle
<1> QED
  BY <1>1, InitLife, NextLife, PTL DEF Spec

-----------------------------------------------------------------------------
(* Values.  The theorem is about objects without owners and peers that were *)
(* there from the start: the forced snapshot for an owner or for a peer     *)
(* that joins clears m_bChanged and reaches nobody else.                    *)

\* What a frame on its way says of the server's variable s: no frame has a number that
\* s has not reached, and the one with its number has its value.
Good(s, frame) ==
    frame.type = "Data" => /\ frame.sequence <= s.sequence
                           /\ ~s.changed /\ frame.sequence = s.sequence => frame.data = s.data
Newest(s, frame) == frame.type = "Data" /\ frame.sequence = s.sequence

\* A peer with the objects here follows the server's variable s of object id, when c is
\* its own copy, q the broadcasts on their way, x the frame Build has under way and y
\* the one the tick has.
Follows(s, here, c, q, x, y, id) ==
    /\ Good(s, x) /\ Good(s, y) /\ \A i \in 1 .. Len(q) : Good(s, q[i][id])
    /\ id \in here => /\ c.sequence <= s.sequence
                      /\ ~s.changed /\ c.sequence = s.sequence => c.data = s.data
    /\ id \notin here =>
           \A i, j \in 1 .. Len(q) : q[i][id].type = "Alloc" /\ q[j][id].type = "Data" => i < j
    /\ ~s.changed => \/ id \in here /\ c.sequence = s.sequence
                     \/ Newest(s, x) \/ Newest(s, y)
                     \/ \E i \in 1 .. Len(q) : Newest(s, q[i][id])

\* Nobody owns an object, and nobody joins: the clients only listen.
OneWay ==
    /\ net = IdleNet /\ building.owner = NoPeer
    /\ \A id \in IDs : owner[id] = NoPeer
    /\ \A p \in Peers : direct[p] = <<>> /\ uplink[p] = <<>>
    /\ \A p \in Peers, id \in IDs : ~var[p][id].locked

\* The numbers of the server's variables count the changes and do not wrap.
Numbered ==
    \A id \in IDs :
        /\ var[Server][id].sequence + (IF var[Server][id].changed THEN 1 ELSE 0) <= writes + 1
        /\ var[Server][id].sequence = 0 => var[Server][id].changed
        /\ id \notin objects[Server] => var[Server][id].sequence = 0
        /\ id \in objects[Server] => controller[Server][id] = "LOCAL"

\* An object has no data frames before it is published.
NoDataYet ==
    \A id \in IDs : Unborn(id) =>
        /\ building.packet[id].type # "Data" /\ sync.packet[id].type # "Data"
        /\ \A p \in Peers : \A i \in 1 .. Len(broadcast[p]) : broadcast[p][i][id].type # "Data"

TickSent == sync.stage # "broadcast" => sync.packet = NoPacket

AllFollow ==
    \A p \in connected, id \in IDs : id \in objects[Server] /\ listed[p] <= id =>
        Follows(var[Server][id], objects[p], var[p][id], broadcast[p],
                building.packet[id], sync.packet[id], id)

FollowInv == OneWay /\ Numbered /\ NoDataYet /\ TickSent /\ AllFollow

LEMMA VarFields ==
    ASSUME NEW v \in NetVar
    PROVE  v.sequence \in Nat /\ v.changed \in BOOLEAN
BY DataAssumption DEF NetVar, SeqNumbers

LEMMA FrameFields ==
    ASSUME NEW f \in Frame
    PROVE  f.sequence \in Nat
BY DataAssumption DEF Frame, SeqNumbers

\* The application changes the server's variable, or locks it.
LEMMA FollowsWrite ==
    ASSUME NEW s, NEW s2, NEW here, NEW c, NEW q, NEW x, NEW y, NEW id,
           Follows(s, here, c, q, x, y, id),
           s2.sequence = s.sequence, ~s2.changed => ~s.changed /\ s2.data = s.data
    PROVE  Follows(s2, here, c, q, x, y, id)
<1>1. \A f : Good(s, f) => Good(s2, f)
  BY DEF Good
<1>2. \A f : Newest(s, f) => Newest(s2, f)
  BY DEF Newest
<1>3. Good(s2, x) /\ Good(s2, y) /\ \A i \in 1 .. Len(q) : Good(s2, q[i][id])
  BY <1>1 DEF Follows
<1>4. id \in here => /\ c.sequence <= s2.sequence
                     /\ ~s2.changed /\ c.sequence = s2.sequence => c.data = s2.data
  BY DEF Follows
<1>5. ~s2.changed => \/ id \in here /\ c.sequence = s2.sequence
                     \/ Newest(s2, x) \/ Newest(s2, y)
                     \/ \E i \in 1 .. Len(q) : Newest(s2, q[i][id])
  BY <1>2 DEF Follows
<1> QED
  BY <1>3, <1>4, <1>5 DEF Follows

\* A snapshot takes the variable into the packet of Build or of the tick.
LEMMA FollowsSnapshot ==
    ASSUME NEW s \in NetVar, NEW s2 \in NetVar, NEW here, NEW c \in NetVar, NEW q \in Seq(Packet),
           NEW x \in Frame, NEW y \in Frame, NEW x2, NEW y2, NEW d \in Frame, NEW id \in IDs,
           Follows(s, here, c, q, x, y, id),
           s2.sequence = s.sequence + 1, ~s2.changed,
           d.type = "Data", d.sequence = s2.sequence, d.data = s2.data,
           (x2 = d /\ y2 = y) \/ (x2 = x /\ y2 = d)
    PROVE  Follows(s2, here, c, q, x2, y2, id)
<1>1. s.sequence \in Nat /\ c.sequence \in Nat /\ s2.sequence \in Nat
  BY VarFields
<1>2. ASSUME NEW f \in Frame, Good(s, f) PROVE Good(s2, f)
  <2>1. f.sequence \in Nat
    BY FrameFields
  <2>2. f.type = "Data" => f.sequence <= s2.sequence /\ f.sequence # s2.sequence
    BY <1>1, <1>2, <2>1 DEF Good
  <2> QED
    BY <2>2 DEF Good
<1>3. Good(s2, d) /\ Newest(s2, d)
  BY <1>1 DEF Good, Newest
<1>4. Good(s2, x2) /\ Good(s2, y2)
  BY <1>2, <1>3 DEF Follows
<1>5. ASSUME NEW i \in 1 .. Len(q) PROVE Good(s2, q[i][id])
  <2>1. q[i][id] \in Frame
    <3>1. q[i] \in Packet
      BY ElementOfSeq
    <3> QED
      BY <3>1 DEF Packet
  <2>2. Good(s, q[i][id])
    BY DEF Follows
  <2> QED
    BY <1>2, <2>1, <2>2
<1>6. id \in here => c.sequence <= s2.sequence /\ c.sequence # s2.sequence
  BY <1>1 DEF Follows
<1>7. Newest(s2, x2) \/ Newest(s2, y2)
  BY <1>3
<1>8. id \notin here =>
          \A i, j \in 1 .. Len(q) : q[i][id].type = "Alloc" /\ q[j][id].type = "Data" => i < j
  BY DEF Follows
<1> QED
  BY <1>4, <1>5, <1>6, <1>7, <1>8 DEF Follows

\* A packet that is about to be sent is forgotten, or begun, with no data of the object.
LEMMA FollowsPending ==
    ASSUME NEW s, NEW here, NEW c, NEW q, NEW x, NEW y, NEW x2, NEW y2, NEW id,
           Follows(s, here, c, q, x, y, id),
           x2 = x \/ (x.type # "Data" /\ x2.type # "Data"),
           y2 = y \/ (y.type # "Data" /\ y2.type # "Data")
    PROVE  Follows(s, here, c, q, x2, y2, id)
<1>1. Good(s, x2) /\ Good(s, y2)
  BY DEF Follows, Good
<1>2. (Newest(s, x) => Newest(s, x2)) /\ (Newest(s, y) => Newest(s, y2))
  BY DEF Newest
<1> QED
  BY <1>1, <1>2 DEF Follows

\* A packet is sent; its frame of the object was under way, or says nothing of its value.
LEMMA FollowsSent ==
    ASSUME NEW s, NEW here, NEW c, NEW q \in Seq(Packet), NEW x, NEW y, NEW x2, NEW y2,
           NEW id \in IDs, NEW z \in Packet, NEW r, r = Append(q, z),
           Follows(s, here, c, q, x, y, id), Neutral(z[id]),
           \/ x2 = x \/ (z[id] = x /\ x2.type # "Data"),
           \/ y2 = y \/ (z[id] = y /\ y2.type # "Data"),
           Good(s, z[id])
    PROVE  Follows(s, here, c, r, x2, y2, id)
<1>1. /\ Len(q) \in Nat /\ Len(r) = Len(q) + 1
      /\ \A i \in 1 .. Len(q) : i \in 1 .. Len(r) /\ r[i] = q[i] /\ i < Len(r)
      /\ Len(r) \in 1 .. Len(r) /\ r[Len(r)] = z
      /\ \A i \in 1 .. Len(r) : i = Len(r) \/ i \in 1 .. Len(q)
  BY AppendFrames
<1>2. Good(s, x2) /\ Good(s, y2)
  BY DEF Follows, Good
<1>3. ASSUME NEW i \in 1 .. Len(r) PROVE Good(s, r[i][id])
  BY <1>1 DEF Follows
<1>4. ASSUME id \notin here, NEW i \in 1 .. Len(r), NEW j \in 1 .. Len(r),
             r[i][id].type = "Alloc", r[j][id].type = "Data"
      PROVE  i < j
  <2>1. i # Len(r)
    BY <1>1, <1>4 DEF Neutral
  <2>2. i \in 1 .. Len(q) /\ i < Len(r) /\ r[i] = q[i]
    BY <1>1, <2>1
  <2>3. CASE j = Len(r)
    BY <2>2, <2>3
  <2>4. CASE j \in 1 .. Len(q)
    <3>1. q[i][id].type = "Alloc" /\ q[j][id].type = "Data"
      BY <1>1, <1>4, <2>2, <2>4
    <3> QED
      BY <1>4, <2>2, <2>4, <3>1 DEF Follows
  <2> QED
    BY <1>1, <2>3, <2>4
<1>5. ASSUME ~s.changed
      PROVE  \/ id \in here /\ c.sequence = s.sequence
             \/ Newest(s, x2) \/ Newest(s, y2)
             \/ \E i \in 1 .. Len(r) : Newest(s, r[i][id])
  <2>1. CASE id \in here /\ c.sequence = s.sequence
    BY <2>1
  <2>2. CASE Newest(s, x) \/ Newest(s, y)
    BY <1>1, <2>2
  <2>3. CASE \E i \in 1 .. Len(q) : Newest(s, q[i][id])
    BY <1>1, <2>3
  <2> QED
    BY <1>5, <2>1, <2>2, <2>3 DEF Follows
<1>6. id \in here => /\ c.sequence <= s.sequence
                     /\ ~s.changed /\ c.sequence = s.sequence => c.data = s.data
  BY DEF Follows
<1> QED
  BY <1>2, <1>3, <1>4, <1>5, <1>6 DEF Follows

\* A new object: the server has not cleared the flag of its constructor yet.
LEMMA FollowsNew ==
    ASSUME NEW s, NEW here, NEW c, NEW q, NEW x, NEW y, NEW id,
           s.changed, id \notin here, x.type # "Data", y.type # "Data",
           \A i \in 1 .. Len(q) : q[i][id].type # "Data"
    PROVE  Follows(s, here, c, q, x, y, id)
BY DEF Follows, Good

\* The peer takes the first packet: EntAllocate, or ReadEntityUpdate with its check of
\* the sequence number.
LEMMA FollowsTake ==
    ASSUME NEW s \in NetVar, NEW there, NEW here, NEW here2, NEW c \in NetVar, NEW c2,
           NEW q \in Seq(Packet), q # <<>>, NEW x, NEW y, NEW id \in IDs,
           Follows(s, here, c, q, x, y, id), InStep(there, here, q, id), id \in there,
           s.sequence = 0 => s.changed, NEW f \in Frame, f = Head(q)[id],
           id \in here2 <=> \/ f.type = "Alloc"
                            \/ id \in here /\ f.type # "Dealloc",
           f.type = "Alloc" /\ id \notin here => c2.sequence = 0,
           f.type = "Data" /\ id \in here /\ c.sequence <= f.sequence =>
               c2.sequence = f.sequence /\ c2.data = f.data,
           id \in here /\ (f.type = "None" \/ (f.type = "Data" /\ ~(c.sequence <= f.sequence))) =>
               c2 = c
    PROVE  Follows(s, here2, c2, Tail(q), x, y, id)
<1> DEFINE r == Tail(q)
<1>1. /\ Len(q) \in Nat /\ 1 \in 1 .. Len(q) /\ Head(q) = q[1]
      /\ Len(r) = Len(q) - 1
      /\ \A i \in 1 .. Len(r) : i + 1 \in 1 .. Len(q) /\ r[i] = q[i + 1]
      /\ \A i \in 1 .. Len(q) : i # 1 => i - 1 \in 1 .. Len(r) /\ r[i - 1] = q[i]
  BY TailElements
<1> HIDE DEF r
<1>2. s.sequence \in Nat /\ c.sequence \in Nat /\ f.sequence \in Nat
  BY VarFields, FrameFields
<1>3. /\ \A i \in 1 .. Len(q) : q[i][id].type # "Dealloc"
      /\ (\E i \in 1 .. Len(q) : q[i][id].type = "Alloc") <=> id \notin here
  BY DEF InStep, InFlight
<1>4. f = q[1][id] /\ f.type # "Dealloc" /\ Good(s, f)
  BY <1>1, <1>3 DEF Follows
<1>5. f.type = "Alloc" => id \notin here
  BY <1>1, <1>3, <1>4
<1>6. f.type = "Data" => id \in here
  <2> SUFFICES ASSUME f.type = "Data", id \notin here PROVE FALSE
    OBVIOUS
  <2>1. PICK i \in 1 .. Len(q) : q[i][id].type = "Alloc"
    BY <1>3
  <2>2. i < 1
    BY <1>1, <1>4, <2>1 DEF Follows
  <2> QED
    BY <2>1, <2>2
<1>7. f.type = "Alloc" \/ f.type = "Data" \/ f.type = "None"
  BY <1>4 DEF Frame
<1>8. Good(s, x) /\ Good(s, y) /\ \A i \in 1 .. Len(r) : Good(s, r[i][id])
  BY <1>1 DEF Follows
<1>9. id \in here2 => /\ c2.sequence <= s.sequence
                      /\ ~s.changed /\ c2.sequence = s.sequence => c2.data = s.data
  <2>1. CASE f.type = "Alloc"
    BY <1>2, <1>5, <2>1
  <2>2. CASE f.type = "Data"
    <3>1. CASE c.sequence <= f.sequence
      BY <1>4, <1>6, <2>2, <3>1 DEF Good
    <3>2. CASE ~(c.sequence <= f.sequence)
      BY <1>6, <2>2, <3>2 DEF Follows
    <3> QED
      BY <3>1, <3>2
  <2>3. CASE f.type = "None"
    BY <2>3 DEF Follows
  <2> QED
    BY <1>7, <2>1, <2>2, <2>3
<1>10. ASSUME id \notin here2, NEW i \in 1 .. Len(r), NEW j \in 1 .. Len(r),
              r[i][id].type = "Alloc", r[j][id].type = "Data"
       PROVE  i < j
  <2>1. id \notin here
    BY <1>4, <1>10
  <2>2. i + 1 \in 1 .. Len(q) /\ j + 1 \in 1 .. Len(q) /\ r[i] = q[i + 1] /\ r[j] = q[j + 1]
    BY <1>1
  <2>3. i + 1 < j + 1
    BY <1>10, <2>1, <2>2 DEF Follows
  <2> QED
    BY <1>1, <2>3
<1>11. ASSUME ~s.changed
       PROVE  \/ id \in here2 /\ c2.sequence = s.sequence
              \/ Newest(s, x) \/ Newest(s, y)
              \/ \E i \in 1 .. Len(r) : Newest(s, r[i][id])
  <2>1. CASE id \in here /\ c.sequence = s.sequence
    <3>1. f.type # "Alloc" /\ id \in here2
      BY <1>4, <1>5, <2>1
    <3>2. CASE f.type = "Data" /\ c.sequence <= f.sequence
      <4>1. f.sequence = s.sequence
        BY <1>2, <1>4, <2>1, <3>2 DEF Good
      <4> QED
        BY <2>1, <3>1, <3>2, <4>1
    <3>3. CASE f.type = "None" \/ (f.type = "Data" /\ ~(c.sequence <= f.sequence))
      BY <2>1, <3>1, <3>3
    <3> QED
      BY <1>7, <3>1, <3>2, <3>3
  <2>2. CASE Newest(s, x) \/ Newest(s, y)
    BY <2>2
  <2>3. CASE \E i \in 1 .. Len(q) : Newest(s, q[i][id])
    <3>1. PICK i \in 1 .. Len(q) : Newest(s, q[i][id])
      BY <2>3
    <3>2. CASE i = 1
      <4>1. f.type = "Data" /\ f.sequence = s.sequence /\ id \in here
        BY <1>4, <1>6, <3>1, <3>2 DEF Newest
      <4>2. c.sequence <= f.sequence
        BY <4>1 DEF Follows
      <4> QED
        BY <4>1, <4>2
    <3>3. CASE i # 1
      BY <1>1, <3>1, <3>3
    <3> QED
      BY <3>2, <3>3
  <2> QED
    BY <1>11, <2>1, <2>2, <2>3 DEF Follows
<1>12. Follows(s, here2, c2, r, x, y, id)
  BY <1>8, <1>9, <1>10, <1>11 DEF Follows
<1> QED
  BY <1>12 DEF r

\* A packet is broadcast, if there is something in it.
LEMMA FollowsBroadcast ==
    ASSUME NEW s, NEW here, NEW c, NEW queues \in [Peers -> Seq(Packet)], NEW p \in connected,
           p \in Peers, NEW x, NEW y, NEW x2, NEW y2, NEW id \in IDs, NEW z \in Packet,
           Follows(s, here, c, queues[p], x, y, id), Neutral(z[id]), Good(s, z[id]),
           x2 = x \/ (z[id] = x /\ x2.type # "Data"),
           y2 = y \/ (z[id] = y /\ y2.type # "Data")
    PROVE  Follows(s, here, c, Send(queues, connected, z)[p], x2, y2, id)
<1>1. CASE Modified(z)
  <2>1. Send(queues, connected, z)[p] = Append(queues[p], z)
    BY <1>1 DEF Send
  <2> DEFINE q == queues[p]
             r == Append(q, z)
  <2>2. q \in Seq(Packet) /\ Follows(s, here, c, q, x, y, id) /\ r = Append(q, z)
    OBVIOUS
  <2> HIDE DEF q, r
  <2>3. Follows(s, here, c, r, x2, y2, id)
    BY <2>2, FollowsSent
  <2> QED
    BY <2>1, <2>3 DEF q, r
<1>2. CASE ~Modified(z)
  <2>1. Send(queues, connected, z)[p] = queues[p]
    BY <1>2 DEF Send
  <2>2. z[id].type # "Data"
    BY <1>2 DEF Modified
  <2>3. /\ x2 = x \/ (x.type # "Data" /\ x2.type # "Data")
        /\ y2 = y \/ (y.type # "Data" /\ y2.type # "Data")
    BY <2>2
  <2>4. Follows(s, here, c, queues[p], x2, y2, id)
    BY <2>3, FollowsPending
  <2> QED
    BY <2>1, <2>4
<1> QED
  BY <1>1, <1>2

\* The assumptions: sequence checks, no owners, no connections after the start, and
\* fewer changes than sequence numbers.
Regular ==
    SeqCheck /\ Owners \subseteq {NoPeer} /\ MaxConnects = 0 /\ MaxWrites + 1 < SeqMod

RegularInv == LifeInv /\ ControlInv /\ FollowInv

LEMMA RegularFacts ==
    ASSUME Regular, RegularInv
    PROVE  /\ TypeOK /\ Server \in Hosts /\ Peers \subseteq Hosts /\ Server \notin Peers
           /\ \A p \in Peers : Local(p) = {} /\ Usable(p) = {}
           /\ \A p \in Peers, id \in IDs : ~IsNetworkLocal(p, id)
           /\ Local(Server) = objects[Server] /\ objects[Server] \subseteq IDs
           /\ \A id \in IDs : Unborn(id) => id \notin objects[Server]
           /\ building.packet \in Packet /\ sync.packet \in Packet
<1>1. TypeOK /\ Server \in Hosts /\ Peers \subseteq Hosts /\ Server \notin Peers /\ NoPeer \notin Peers
  BY HostsAssumption DEF RegularInv, LifeInv, Hosts
<1>2. \A p \in Peers, id \in IDs : ~IsNetworkLocal(p, id)
  BY <1>1 DEF RegularInv, ControlInv, ClientControl, FollowInv, OneWay
<1>3. \A h \in Hosts : objects[h] \subseteq IDs
  BY <1>1 DEF TypeOK
<1>4. \A p \in Peers : Local(p) = {} /\ Usable(p) = {}
  BY <1>1, <1>2, <1>3 DEF Local, Usable
<1>5. Local(Server) = objects[Server]
  BY <1>1, <1>3 DEF Local, IsNetworkLocal, RegularInv, FollowInv, Numbered
<1>6. \A id \in IDs : Unborn(id) => id \notin objects[Server]
  BY <1>1 DEF RegularInv, LifeInv, FreshIDs
<1>7. building.packet \in Packet /\ sync.packet \in Packet
  BY <1>1, NoPacketType DEF TypeOK, Builds, NoBuild
<1> QED
  BY <1>1, <1>2, <1>3, <1>4, <1>5, <1>6, <1>7

\* Steps that change nothing of this.
LEMMA FollowUntouched ==
    ASSUME FollowInv,
           UNCHANGED <<s_TotalEntities, hostVars, owner, building, sync, net, netVars,
                       writes, listed>>
    PROVE  FollowInv'
<1>1. /\ s_TotalEntities' = s_TotalEntities /\ objects' = objects /\ controller' = controller
      /\ var' = var /\ owner' = owner /\ building' = building /\ sync' = sync /\ net' = net
      /\ connected' = connected /\ broadcast' = broadcast /\ direct' = direct
      /\ uplink' = uplink /\ writes' = writes /\ listed' = listed
  BY DEF hostVars, netVars
<1>2. OneWay'
  BY <1>1 DEF FollowInv, OneWay
<1>3. Numbered'
  BY <1>1 DEF FollowInv, Numbered
<1>4. NoDataYet' /\ TickSent'
  BY <1>1 DEF FollowInv, NoDataYet, TickSent, Unborn
<1>5. AllFollow'
  BY <1>1 DEF FollowInv, AllFollow
<1> QED
  BY <1>2, <1>3, <1>4, <1>5 DEF FollowInv

\* Set, Invalidate and Lock on the server.
LEMMA WriteFollow ==
    ASSUME Regular, RegularInv, NEW id \in IDs, NEW v \in NetVar, AppWrite(Server, id, v),
           v.sequence = var[Server][id].sequence,
           v.changed \/ (v.changed = var[Server][id].changed /\ v.data = var[Server][id].data)
    PROVE  FollowInv'
<1>1. TypeOK /\ Server \in Hosts /\ Peers \subseteq Hosts /\ Server \notin Peers
  BY RegularFacts
<1>2. /\ var' = [var EXCEPT ![Server][id] = v] /\ writes' = writes + 1
      /\ s_TotalEntities' = s_TotalEntities /\ objects' = objects /\ controller' = controller
      /\ owner' = owner /\ building' = building /\ sync' = sync /\ net' = net
      /\ connected' = connected /\ broadcast' = broadcast /\ direct' = direct
      /\ uplink' = uplink /\ listed' = listed
  BY DEF AppWrite, serverVars, netVars
<1>3. /\ \A p \in Peers : var'[p] = var[p]
      /\ \A i \in IDs : var'[Server][i] = IF i = id THEN v ELSE var[Server][i]
  BY <1>1, <1>2 DEF TypeOK
<1>4. \A i \in IDs : var[Server][i] \in NetVar
  BY <1>1 DEF TypeOK
<1>5. FollowInv
  BY DEF RegularInv
<1>6. OneWay'
  BY <1>2, <1>3, <1>5 DEF FollowInv, OneWay
<1>7. Numbered'
  <2> SUFFICES ASSUME NEW i \in IDs
               PROVE  /\ var'[Server][i].sequence
                             + (IF var'[Server][i].changed THEN 1 ELSE 0) <= writes + 1 + 1
                      /\ var'[Server][i].sequence = 0 => var'[Server][i].changed
                      /\ i \notin objects[Server] => var'[Server][i].sequence = 0
                      /\ i \in objects[Server] => controller[Server][i] = "LOCAL"
    BY <1>2 DEF Numbered
  <2> DEFINE s == var[Server][i]
             s2 == var'[Server][i]
  <2>1. /\ s.sequence + (IF s.changed THEN 1 ELSE 0) <= writes + 1
        /\ s.sequence = 0 => s.changed
        /\ i \notin objects[Server] => s.sequence = 0
        /\ i \in objects[Server] => controller[Server][i] = "LOCAL"
    BY <1>5 DEF FollowInv, Numbered
  <2>2. s2.sequence = s.sequence /\ (s.changed => s2.changed)
    BY <1>3
  <2>3. s.sequence \in Nat /\ writes \in Nat
    BY <1>1, <1>4, VarFields, BoundsAssumption DEF TypeOK
  <2> HIDE DEF s, s2
  <2>4. s2.sequence + (IF s2.changed THEN 1 ELSE 0) <= writes + 1 + 1
    BY <2>1, <2>2, <2>3
  <2> QED
    BY <2>1, <2>2, <2>4 DEF s, s2
<1>8. NoDataYet' /\ TickSent'
  BY <1>2, <1>5 DEF FollowInv, NoDataYet, TickSent, Unborn
<1>9. AllFollow'
  <2> SUFFICES ASSUME NEW p \in connected, NEW i \in IDs, i \in objects[Server], listed[p] <= i
               PROVE  Follows(var'[Server][i], objects[p], var'[p][i], broadcast[p],
                              building.packet[i], sync.packet[i], i)
    BY <1>2 DEF AllFollow
  <2>1. Follows(var[Server][i], objects[p], var[p][i], broadcast[p],
                building.packet[i], sync.packet[i], i)
    BY <1>5 DEF FollowInv, AllFollow
  <2>2. p \in Peers
    BY <1>1 DEF TypeOK
  <2>3. /\ var'[Server][i].sequence = var[Server][i].sequence
        /\ ~var'[Server][i].changed => /\ ~var[Server][i].changed
                                       /\ var'[Server][i].data = var[Server][i].data
        /\ var'[p] = var[p]
    BY <1>3, <2>2
  <2> QED
    BY <2>1, <2>3, FollowsWrite
<1> QED
  BY <1>6, <1>7, <1>8, <1>9 DEF FollowInv

LEMMA CallFollow ==
    ASSUME Regular, RegularInv, NEW h \in Writers, NEW id \in IDs,
           \/ \E value \in Values : Set(h, id, value)
           \/ Invalidate(h, id)
           \/ Lock(h, id)
    PROVE  FollowInv'
<1>1. TypeOK /\ Server \in Hosts /\ \A p \in Peers : Usable(p) = {}
  BY RegularFacts
<1>2. PICK v : AppWrite(h, id, v)
  BY DEF Set, Invalidate, Lock
<1>3. h = Server
  <2>1. h \in Peers \cup {Server} /\ id \in Usable(h)
    BY <1>2, HostsAssumption DEF AppWrite
  <2> QED
    BY <1>1, <2>1
<1>4. var[Server][id] \in NetVar
  BY <1>1 DEF TypeOK
<1>5. ASSUME NEW value \in Values, Set(h, id, value) PROVE FollowInv'
  <2>1. AppWrite(Server, id, ChangedVar(var[Server][id], value))
    BY <1>3, <1>5 DEF Set
  <2>2. /\ ChangedVar(var[Server][id], value) \in NetVar
        /\ ChangedVar(var[Server][id], value).changed
        /\ ChangedVar(var[Server][id], value).sequence = var[Server][id].sequence
    BY <1>4 DEF ChangedVar, NetVar
  <2> QED
    BY <2>1, <2>2, WriteFollow
<1>6. CASE Invalidate(h, id)
  <2>1. AppWrite(Server, id, ChangedVar(var[Server][id], var[Server][id].data))
    BY <1>3, <1>6 DEF Invalidate
  <2>2. /\ ChangedVar(var[Server][id], var[Server][id].data) \in NetVar
        /\ ChangedVar(var[Server][id], var[Server][id].data).changed
        /\ ChangedVar(var[Server][id], var[Server][id].data).sequence = var[Server][id].sequence
    BY <1>4 DEF ChangedVar, NetVar
  <2> QED
    BY <2>1, <2>2, WriteFollow
<1>7. CASE Lock(h, id)
  <2>1. AppWrite(Server, id, LockToggled(var[Server][id]))
    BY <1>3, <1>7 DEF Lock
  <2>2. /\ LockToggled(var[Server][id]) \in NetVar
        /\ LockToggled(var[Server][id]).changed = var[Server][id].changed
        /\ LockToggled(var[Server][id]).data = var[Server][id].data
        /\ LockToggled(var[Server][id]).sequence = var[Server][id].sequence
    BY <1>4 DEF LockToggled, NetVar
  <2> QED
    BY <2>1, <2>2, WriteFollow
<1> QED
  BY <1>5, <1>6, <1>7

\* What a snapshot of the pending changes does to one variable, and its frame.
LEMMA TakenFacts ==
    ASSUME Regular, RegularInv, NEW id \in IDs, NEW packet,
           packet = SnapshotPacket(var[Server], Local(Server), FALSE),
           var' = [var EXCEPT ![Server] = SnapshotVars(@, Local(Server), FALSE)]
    PROVE  \/ /\ id \in objects[Server] /\ var[Server][id].changed
              /\ var'[Server][id].sequence = var[Server][id].sequence + 1
              /\ ~var'[Server][id].changed
              /\ packet[id].type = "Data" /\ packet[id].sequence = var'[Server][id].sequence
              /\ packet[id].data = var'[Server][id].data
           \/ var'[Server][id] = var[Server][id] /\ packet[id].type = "None"
<1> DEFINE s == var[Server][id]
<1>1. TypeOK /\ Server \in Hosts /\ Local(Server) = objects[Server]
  BY RegularFacts
<1>2. s \in NetVar /\ writes \in Nat /\ writes <= MaxWrites /\ s.sequence \in Nat
  <2>1. s \in NetVar /\ writes \in Nat /\ writes <= MaxWrites
    BY <1>1, BoundsAssumption DEF TypeOK
  <2> QED
    BY <2>1, VarFields
<1>3. var'[Server][id] = SnapshotVars(var[Server], Local(Server), FALSE)[id]
  BY <1>1 DEF TypeOK
<1>4. CASE id \in Taken(var[Server], Local(Server), FALSE)
  <2>1. id \in objects[Server] /\ s.changed
    BY <1>1, <1>4 DEF Taken
  <2>2. var'[Server][id] = SentVar(s) /\ packet[id] = DataFrame(s, FALSE)
    BY <1>3, <1>4 DEF SnapshotVars, SnapshotPacket
  <2>3. s.sequence + 1 <= writes + 1
    BY <2>1 DEF RegularInv, FollowInv, Numbered
  <2>4. (s.sequence + 1) % SeqMod = s.sequence + 1
    <3>1. s.sequence + 1 \in Nat /\ SeqMod \in Nat /\ s.sequence + 1 < SeqMod
      BY <1>2, <2>3, BoundsAssumption, DataAssumption DEF Regular
    <3> QED
      BY <3>1
  <2> HIDE DEF s
  <2>5. /\ SentVar(s).sequence = s.sequence + 1 /\ ~SentVar(s).changed
        /\ SentVar(s).data = s.data
    BY <2>4 DEF SentVar
  <2>6. /\ DataFrame(s, FALSE).type = "Data" /\ DataFrame(s, FALSE).data = s.data
        /\ DataFrame(s, FALSE).sequence = s.sequence + 1
    BY <2>4 DEF DataFrame
  <2>7. /\ var'[Server][id].sequence = s.sequence + 1 /\ ~var'[Server][id].changed
        /\ var'[Server][id].data = s.data
        /\ packet[id].type = "Data" /\ packet[id].data = s.data
        /\ packet[id].sequence = s.sequence + 1
    BY <2>2, <2>5, <2>6
  <2> QED
    BY <2>1, <2>7 DEF s
<1>5. CASE id \notin Taken(var[Server], Local(Server), FALSE)
  <2>1. var'[Server][id] = s /\ packet[id] = NoFrame
    BY <1>3, <1>5 DEF SnapshotVars, SnapshotPacket
  <2>2. NoFrame.type = "None"
    BY DEF NoFrame, ListFrame
  <2> QED
    BY <2>1, <2>2
<1> QED
  BY <1>4, <1>5

\* Such a snapshot takes one number for each change it sends.
LEMMA TakenNumbered ==
    ASSUME Regular, RegularInv,
           var' = [var EXCEPT ![Server] = SnapshotVars(@, Local(Server), FALSE)],
           UNCHANGED <<objects, controller, writes>>
    PROVE  Numbered' /\ \A p \in Peers : var'[p] = var[p]
<1>1. TypeOK /\ Server \in Hosts /\ Server \notin Peers /\ Peers \subseteq Hosts
  BY RegularFacts
<1>2. \A p \in Peers : var'[p] = var[p]
  BY <1>1 DEF TypeOK
<1>3. ASSUME NEW id \in IDs
      PROVE  /\ var'[Server][id].sequence
                    + (IF var'[Server][id].changed THEN 1 ELSE 0) <= writes + 1
             /\ var'[Server][id].sequence = 0 => var'[Server][id].changed
             /\ id \notin objects[Server] => var'[Server][id].sequence = 0
             /\ id \in objects[Server] => controller[Server][id] = "LOCAL"
  <2>1. /\ var[Server][id].sequence + (IF var[Server][id].changed THEN 1 ELSE 0) <= writes + 1
        /\ var[Server][id].sequence = 0 => var[Server][id].changed
        /\ id \notin objects[Server] => var[Server][id].sequence = 0
        /\ id \in objects[Server] => controller[Server][id] = "LOCAL"
    BY DEF RegularInv, FollowInv, Numbered
  <2>2. \/ /\ id \in objects[Server] /\ var[Server][id].changed
           /\ var'[Server][id].sequence = var[Server][id].sequence + 1
           /\ ~var'[Server][id].changed
        \/ var'[Server][id] = var[Server][id]
    BY TakenFacts
  <2>3. var[Server][id].sequence \in Nat /\ writes \in Nat
    <3>1. var[Server][id] \in NetVar /\ writes \in Nat
      BY <1>1, BoundsAssumption DEF TypeOK
    <3> QED
      BY <3>1, VarFields
  <2>4. CASE /\ id \in objects[Server] /\ var[Server][id].changed
             /\ var'[Server][id].sequence = var[Server][id].sequence + 1
             /\ ~var'[Server][id].changed
    <3> DEFINE s == var[Server][id]
               s2 == var'[Server][id]
    <3>1. /\ s.changed /\ s2.sequence = s.sequence + 1 /\ ~s2.changed
          /\ s.sequence + (IF s.changed THEN 1 ELSE 0) <= writes + 1
          /\ s.sequence \in Nat
      BY <2>1, <2>3, <2>4
    <3> HIDE DEF s, s2
    <3>2. s2.sequence + (IF s2.changed THEN 1 ELSE 0) <= writes + 1 /\ s2.sequence # 0
      BY <2>3, <3>1
    <3> QED
      BY <2>1, <2>4, <3>2 DEF s, s2
  <2>5. CASE var'[Server][id] = var[Server][id]
    BY <2>1, <2>5
  <2> QED
    BY <2>2, <2>4, <2>5
<1> QED
  BY <1>2, <1>3 DEF Numbered

LEMMA SyncSnapshotFollow ==
    ASSUME Regular, RegularInv, TypeOK', SyncSnapshot
    PROVE  FollowInv'
<1> DEFINE packet == SnapshotPacket(var[Server], Local(Server), FALSE)
<1>1. /\ TypeOK /\ Server \in Hosts /\ Peers \subseteq Hosts
      /\ building.packet \in Packet /\ sync.packet \in Packet
      /\ \A id \in IDs : Unborn(id) => id \notin objects[Server]
  BY RegularFacts
<1>2. /\ sync.stage = "snapshot"
      /\ sync' = [stage |-> "broadcast", packet |-> packet]
      /\ var' = [var EXCEPT ![Server] = SnapshotVars(@, Local(Server), FALSE)]
      /\ s_TotalEntities' = s_TotalEntities /\ objects' = objects /\ controller' = controller
      /\ owner' = owner /\ building' = building /\ net' = net
      /\ connected' = connected /\ broadcast' = broadcast /\ direct' = direct
      /\ uplink' = uplink /\ listed' = listed /\ writes' = writes
  BY DEF SyncSnapshot, netVars
<1>3. Numbered' /\ \A p \in Peers : var'[p] = var[p]
  BY <1>2, TakenNumbered
<1>4. sync'.packet = packet /\ sync'.stage = "broadcast" /\ packet \in Packet
  <2>1. sync'.packet = packet /\ sync'.stage = "broadcast"
    BY <1>2
  <2>2. sync'.packet \in Packet
    BY DEF TypeOK
  <2> QED
    BY <2>1, <2>2
<1>5. \A id \in IDs :
         \/ /\ id \in objects[Server] /\ var[Server][id].changed
            /\ var'[Server][id].sequence = var[Server][id].sequence + 1
            /\ ~var'[Server][id].changed
            /\ packet[id].type = "Data" /\ packet[id].sequence = var'[Server][id].sequence
            /\ packet[id].data = var'[Server][id].data
         \/ var'[Server][id] = var[Server][id] /\ packet[id].type = "None"
  BY <1>2, TakenFacts
<1> HIDE DEF packet
<1>6. FollowInv
  BY DEF RegularInv
<1>7. OneWay'
  BY <1>2, <1>3, <1>6 DEF FollowInv, OneWay
<1>8. NoDataYet'
  <2> SUFFICES ASSUME NEW id \in IDs, Unborn(id)
               PROVE  /\ building.packet[id].type # "Data" /\ packet[id].type # "Data"
                      /\ \A p \in Peers : \A i \in 1 .. Len(broadcast[p]) :
                             broadcast[p][i][id].type # "Data"
    BY <1>2, <1>4 DEF NoDataYet, Unborn
  <2>1. packet[id].type = "None"
    BY <1>1, <1>5
  <2> QED
    BY <1>6, <2>1 DEF FollowInv, NoDataYet
<1>9. TickSent'
  BY <1>4 DEF TickSent
<1>10. AllFollow'
  <2> SUFFICES ASSUME NEW p \in connected, NEW id \in IDs, id \in objects[Server], listed[p] <= id
               PROVE  Follows(var'[Server][id], objects[p], var[p][id], broadcast[p],
                              building.packet[id], packet[id], id)
    <3>1. \A p \in connected : p \in Peers
      BY <1>1 DEF TypeOK
    <3> QED
      BY <1>2, <1>3, <1>4, <3>1 DEF AllFollow
  <2> DEFINE s == var[Server][id]
             s2 == var'[Server][id]
             c == var[p][id]
             q == broadcast[p]
             x == building.packet[id]
             y == sync.packet[id]
             d == packet[id]
  <2>1. Follows(s, objects[p], c, q, x, y, id)
    BY <1>6 DEF FollowInv, AllFollow
  <2>2. s \in NetVar /\ s2 \in NetVar /\ c \in NetVar /\ q \in Seq(Packet)
    BY <1>1 DEF TypeOK
  <2>3. x \in Frame /\ y \in Frame /\ d \in Frame
    BY <1>1, <1>4 DEF Packet
  <2>4. y.type # "Data"
    BY <1>2, <1>6 DEF FollowInv, TickSent, NoPacket, NoFrame, ListFrame
  <2>5. \/ /\ s2.sequence = s.sequence + 1 /\ ~s2.changed
           /\ d.type = "Data" /\ d.sequence = s2.sequence /\ d.data = s2.data
        \/ s2 = s /\ d.type = "None"
    BY <1>5
  <2> HIDE DEF s, s2, c, q, x, y, d
  <2>6. Follows(s2, objects[p], c, q, x, d, id)
    <3>1. CASE /\ s2.sequence = s.sequence + 1 /\ ~s2.changed
               /\ d.type = "Data" /\ d.sequence = s2.sequence /\ d.data = s2.data
      BY <2>1, <2>2, <2>3, <3>1, FollowsSnapshot
    <3>2. CASE s2 = s /\ d.type = "None"
      BY <2>1, <2>4, <3>2, FollowsPending
    <3> QED
      BY <2>5, <3>1, <3>2
  <2> QED
    BY <2>6 DEF s, s2, c, q, x, y, d
<1> QED
  BY <1>3, <1>7, <1>8, <1>9, <1>10 DEF FollowInv

LEMMA BuildBeginFollow ==
    ASSUME Regular, RegularInv, TypeOK', NEW o \in Owners, BuildBegin(o)
    PROVE  FollowInv'
<1> DEFINE packet == SnapshotPacket(var[Server], Local(Server), FALSE)
           new == s_TotalEntities
<1>1. /\ TypeOK /\ Server \in Hosts /\ Peers \subseteq Hosts
      /\ building.packet \in Packet /\ sync.packet \in Packet
      /\ \A id \in IDs : Unborn(id) => id \notin objects[Server]
  BY RegularFacts
<1>2. /\ building = NoBuild /\ o = NoPeer /\ new \in IDs /\ new \in Nat
      /\ building' = [id |-> new, owner |-> o,
                      packet |-> [packet EXCEPT ![new] = AllocFrame("NONE")]]
      /\ var' = [var EXCEPT ![Server] = SnapshotVars(@, Local(Server), FALSE)]
      /\ s_TotalEntities' = new + 1 /\ objects' = objects /\ controller' = controller
      /\ owner' = owner /\ sync' = sync /\ net' = net
      /\ connected' = connected /\ broadcast' = broadcast /\ direct' = direct
      /\ uplink' = uplink /\ listed' = listed /\ writes' = writes
  <2>1. new \in IDs /\ new \in Nat
    BY <1>1, BoundsAssumption DEF BuildBegin, TypeOK, IDs
  <2> QED
    BY <2>1 DEF BuildBegin, netVars, Regular
<1>3. Numbered' /\ \A p \in Peers : var'[p] = var[p]
  BY <1>2, TakenNumbered
<1>4. \A id \in IDs :
         \/ /\ id \in objects[Server] /\ var[Server][id].changed
            /\ var'[Server][id].sequence = var[Server][id].sequence + 1
            /\ ~var'[Server][id].changed
            /\ packet[id].type = "Data" /\ packet[id].sequence = var'[Server][id].sequence
            /\ packet[id].data = var'[Server][id].data
         \/ var'[Server][id] = var[Server][id] /\ packet[id].type = "None"
  BY <1>2, TakenFacts
<1>5. /\ packet \in Packet /\ building'.owner = NoPeer /\ building'.id = new
      /\ \A id \in IDs : building'.packet[id] = IF id = new THEN AllocFrame("NONE") ELSE packet[id]
  <2>1. packet \in Packet
    BY <1>1, SnapshotTypes DEF TypeOK
  <2> HIDE DEF packet
  <2>2. building'.owner = NoPeer /\ building'.id = new
        /\ building'.packet = [packet EXCEPT ![new] = AllocFrame("NONE")]
    BY <1>2
  <2> QED
    BY <1>2, <2>1, <2>2 DEF Packet
<1> HIDE DEF packet
<1>6. FollowInv
  BY DEF RegularInv
<1>7. OneWay'
  BY <1>2, <1>3, <1>5, <1>6 DEF FollowInv, OneWay
<1>8. Unborn(new) /\ new \notin objects[Server]
  BY <1>1, <1>2 DEF Unborn
<1>9. NoDataYet'
  <2> SUFFICES ASSUME NEW id \in IDs, Unborn(id)'
               PROVE  /\ building'.packet[id].type # "Data" /\ sync.packet[id].type # "Data"
                      /\ \A p \in Peers : \A i \in 1 .. Len(broadcast[p]) :
                             broadcast[p][i][id].type # "Data"
    BY <1>2 DEF NoDataYet
  <2>1. Unborn(id)
    <3>1. id \in Nat
      BY DEF IDs
    <3> QED
      BY <1>2, <1>5, <3>1 DEF Unborn
  <2>2. building'.packet[id].type # "Data"
    <3>1. CASE id = new
      BY <1>5, <3>1 DEF AllocFrame, ListFrame
    <3>2. CASE id # new
      BY <1>1, <1>4, <1>5, <2>1, <3>2
    <3> QED
      BY <3>1, <3>2
  <2> QED
    BY <1>6, <2>1, <2>2 DEF FollowInv, NoDataYet
<1>10. TickSent'
  BY <1>2, <1>6 DEF FollowInv, TickSent
<1>11. AllFollow'
  <2> SUFFICES ASSUME NEW p \in connected, NEW id \in IDs, id \in objects[Server], listed[p] <= id
               PROVE  Follows(var'[Server][id], objects[p], var[p][id], broadcast[p],
                              packet[id], sync.packet[id], id)
    <3>1. \A p \in connected : p \in Peers
      BY <1>1 DEF TypeOK
    <3>2. \A id \in objects[Server] : id \in IDs => building'.packet[id] = packet[id]
      BY <1>5, <1>8
    <3> QED
      BY <1>2, <1>3, <3>1, <3>2 DEF AllFollow
  <2> DEFINE s == var[Server][id]
             s2 == var'[Server][id]
             c == var[p][id]
             q == broadcast[p]
             x == building.packet[id]
             y == sync.packet[id]
             d == packet[id]
  <2>1. Follows(s, objects[p], c, q, x, y, id)
    BY <1>6 DEF FollowInv, AllFollow
  <2>2. s \in NetVar /\ s2 \in NetVar /\ c \in NetVar /\ q \in Seq(Packet)
    BY <1>1 DEF TypeOK
  <2>3. x \in Frame /\ y \in Frame /\ d \in Frame
    BY <1>1, <1>5 DEF Packet
  <2>4. x.type # "Data"
    BY <1>2 DEF NoBuild, NoPacket, NoFrame, ListFrame
  <2>5. \/ /\ s2.sequence = s.sequence + 1 /\ ~s2.changed
           /\ d.type = "Data" /\ d.sequence = s2.sequence /\ d.data = s2.data
        \/ s2 = s /\ d.type = "None"
    BY <1>4
  <2> HIDE DEF s, s2, c, q, x, y, d
  <2>6. Follows(s2, objects[p], c, q, d, y, id)
    <3>1. CASE /\ s2.sequence = s.sequence + 1 /\ ~s2.changed
               /\ d.type = "Data" /\ d.sequence = s2.sequence /\ d.data = s2.data
      BY <2>1, <2>2, <2>3, <3>1, FollowsSnapshot
    <3>2. CASE s2 = s /\ d.type = "None"
      BY <2>1, <2>4, <3>2, FollowsPending
    <3> QED
      BY <2>5, <3>1, <3>2
  <2> QED
    BY <2>6 DEF s, s2, c, q, x, y, d
<1> QED
  BY <1>3, <1>7, <1>9, <1>10, <1>11 DEF FollowInv

\* A packet without data of an object brings none into the queues.
LEMMA NoDataSent ==
    ASSUME TypeOK, NEW z \in Packet, broadcast' = Send(broadcast, connected, z),
           NEW id \in IDs, z[id].type # "Data", NEW p \in Peers,
           \A i \in 1 .. Len(broadcast[p]) : broadcast[p][i][id].type # "Data"
    PROVE  \A i \in 1 .. Len(broadcast'[p]) : broadcast'[p][i][id].type # "Data"
<1>1. broadcast \in [Peers -> Seq(Packet)]
  BY DEF TypeOK
<1>2. \A i \in 1 .. Len(broadcast'[p]) :
          \/ i \in 1 .. Len(broadcast[p]) /\ broadcast'[p][i] = broadcast[p][i]
          \/ broadcast'[p][i] = z
  BY <1>1, SendIndex
<1> QED
  BY <1>2

LEMMA SyncBroadcastFollow ==
    ASSUME Regular, RegularInv, SyncBroadcast
    PROVE  FollowInv'
<1>1. /\ TypeOK /\ Server \in Hosts /\ Peers \subseteq Hosts
      /\ building.packet \in Packet /\ sync.packet \in Packet
  BY RegularFacts
<1>2. /\ broadcast' = Send(broadcast, connected, sync.packet)
      /\ sync'.stage = "post" /\ sync'.packet = NoPacket
      /\ var' = var /\ s_TotalEntities' = s_TotalEntities /\ objects' = objects
      /\ controller' = controller /\ owner' = owner /\ building' = building /\ net' = net
      /\ connected' = connected /\ direct' = direct
      /\ uplink' = uplink /\ listed' = listed /\ writes' = writes
  BY DEF SyncBroadcast, hostVars
<1>3. FollowInv
  BY DEF RegularInv
<1>4. \A id \in IDs : NoPacket[id].type # "Data"
  BY DEF NoPacket, NoFrame, ListFrame
<1>5. OneWay'
  BY <1>2, <1>3 DEF FollowInv, OneWay
<1>6. Numbered'
  BY <1>2, <1>3 DEF FollowInv, Numbered
<1>7. NoDataYet'
  <2> SUFFICES ASSUME NEW id \in IDs, Unborn(id)
               PROVE  /\ building.packet[id].type # "Data" /\ NoPacket[id].type # "Data"
                      /\ \A p \in Peers : \A i \in 1 .. Len(broadcast'[p]) :
                             broadcast'[p][i][id].type # "Data"
    BY <1>2 DEF NoDataYet, Unborn
  <2>1. /\ building.packet[id].type # "Data" /\ sync.packet[id].type # "Data"
        /\ \A p \in Peers : \A i \in 1 .. Len(broadcast[p]) : broadcast[p][i][id].type # "Data"
    BY <1>3 DEF FollowInv, NoDataYet
  <2>2. \A p \in Peers : \A i \in 1 .. Len(broadcast'[p]) : broadcast'[p][i][id].type # "Data"
    BY <1>1, <1>2, <2>1, NoDataSent
  <2> QED
    BY <1>4, <2>1, <2>2
<1>8. TickSent'
  BY <1>2 DEF TickSent
<1>9. AllFollow'
  <2> SUFFICES ASSUME NEW p \in connected, NEW id \in IDs, id \in objects[Server], listed[p] <= id
               PROVE  Follows(var[Server][id], objects[p], var[p][id],
                              Send(broadcast, connected, sync.packet)[p],
                              building.packet[id], NoPacket[id], id)
    BY <1>2 DEF AllFollow
  <2> DEFINE s == var[Server][id]
             c == var[p][id]
             x == building.packet[id]
             y == sync.packet[id]
             y2 == NoPacket[id]
             z == sync.packet
  <2>1. Follows(s, objects[p], c, broadcast[p], x, y, id)
    BY <1>3 DEF FollowInv, AllFollow
  <2>2. broadcast \in [Peers -> Seq(Packet)] /\ p \in Peers /\ z \in Packet
    BY <1>1 DEF TypeOK
  <2>3. Neutral(z[id]) /\ z[id] = y /\ y2.type # "Data"
    BY <1>4 DEF RegularInv, LifeInv, PendingFrames
  <2>4. Good(s, z[id])
    BY <2>1, <2>3 DEF Follows
  <2> HIDE DEF s, c, x, y, y2, z
  <2>5. Follows(s, objects[p], c, Send(broadcast, connected, z)[p], x, y2, id)
    BY <2>1, <2>2, <2>3, <2>4, FollowsBroadcast
  <2> QED
    BY <2>5 DEF s, c, x, y, y2, z
<1> QED
  BY <1>5, <1>6, <1>7, <1>8, <1>9 DEF FollowInv

\* PostUpdate frees the objects that the application dropped and leaves the others.
LEMMA SyncPostUpdateFollow ==
    ASSUME Regular, RegularInv, SyncPostUpdate
    PROVE  FollowInv'
<1> DEFINE loose == objects[Server] \ held
           frees == [id \in IDs |-> IF id \in loose THEN DeallocFrame ELSE NoFrame]
<1>1. /\ TypeOK /\ Server \in Hosts /\ Peers \subseteq Hosts /\ Server \notin Peers
      /\ building.packet \in Packet /\ sync.packet \in Packet
  BY RegularFacts
<1>2. /\ broadcast' = Send(broadcast, connected, frees)
      /\ objects' = [objects EXCEPT ![Server] = @ \ loose]
      /\ controller' = [controller EXCEPT ![Server] =
              [id \in IDs |-> IF id \in loose THEN "NONE" ELSE @[id]]]
      /\ var' = [var EXCEPT ![Server] =
              [id \in IDs |-> IF id \in loose THEN NewVar ELSE @[id]]]
      /\ sync'.packet = sync.packet /\ sync.stage # "broadcast"
      /\ s_TotalEntities' = s_TotalEntities /\ owner' = owner /\ building' = building
      /\ net' = net /\ connected' = connected /\ direct' = direct
      /\ uplink' = uplink /\ listed' = listed /\ writes' = writes
  BY DEF SyncPostUpdate
<1>3. /\ frees \in Packet
      /\ \A id \in IDs : /\ frees[id].type # "Data"
                         /\ id \notin loose => Neutral(frees[id])
  <2>1. frees \in Packet
    BY FrameTypes DEF Packet
  <2> QED
    BY <2>1 DEF DeallocFrame, NoFrame, ListFrame, Neutral
<1> HIDE DEF loose, frees
<1>4. /\ objects'[Server] = objects[Server] \ loose
      /\ \A p \in Peers : objects'[p] = objects[p] /\ var'[p] = var[p]
      /\ \A id \in IDs : /\ var'[Server][id] = IF id \in loose THEN NewVar ELSE var[Server][id]
                         /\ id \notin loose => controller'[Server][id] = controller[Server][id]
  <2>1. /\ objects'[Server] = objects[Server] \ loose
        /\ \A p \in Peers : objects'[p] = objects[p]
    BY <1>1, <1>2 DEF TypeOK
  <2>2. /\ \A p \in Peers : var'[p] = var[p]
        /\ \A id \in IDs : var'[Server][id] = IF id \in loose THEN NewVar ELSE var[Server][id]
    BY <1>1, <1>2 DEF TypeOK
  <2>3. \A id \in IDs : id \notin loose => controller'[Server][id] = controller[Server][id]
    BY <1>1, <1>2 DEF TypeOK
  <2> QED
    BY <2>1, <2>2, <2>3
<1>5. FollowInv
  BY DEF RegularInv
<1>6. OneWay'
  BY <1>2, <1>4, <1>5 DEF FollowInv, OneWay
<1>7. Numbered'
  <2>1. NewVar.sequence = 0 /\ NewVar.changed
    BY DEF NewVar
  <2>2. writes \in Nat
    BY <1>1, BoundsAssumption DEF TypeOK
  <2> SUFFICES ASSUME NEW id \in IDs
               PROVE  /\ var'[Server][id].sequence
                             + (IF var'[Server][id].changed THEN 1 ELSE 0) <= writes + 1
                      /\ var'[Server][id].sequence = 0 => var'[Server][id].changed
                      /\ id \notin objects'[Server] => var'[Server][id].sequence = 0
                      /\ id \in objects'[Server] => controller'[Server][id] = "LOCAL"
    BY <1>2 DEF Numbered
  <2>3. CASE id \in loose
    <3>1. var'[Server][id] = NewVar /\ id \notin objects'[Server]
      BY <1>4, <2>3
    <3> QED
      BY <2>1, <2>2, <3>1
  <2>4. CASE id \notin loose
    <3>1. /\ var'[Server][id] = var[Server][id]
          /\ id \in objects'[Server] <=> id \in objects[Server]
          /\ controller'[Server][id] = controller[Server][id]
      BY <1>4, <2>4
    <3> QED
      BY <1>5, <3>1 DEF FollowInv, Numbered
  <2> QED
    BY <2>3, <2>4
<1>8. NoDataYet'
  <2> SUFFICES ASSUME NEW id \in IDs, Unborn(id)
               PROVE  /\ building.packet[id].type # "Data" /\ sync.packet[id].type # "Data"
                      /\ \A p \in Peers : \A i \in 1 .. Len(broadcast'[p]) :
                             broadcast'[p][i][id].type # "Data"
    BY <1>2 DEF NoDataYet, Unborn
  <2>1. /\ building.packet[id].type # "Data" /\ sync.packet[id].type # "Data"
        /\ \A p \in Peers : \A i \in 1 .. Len(broadcast[p]) : broadcast[p][i][id].type # "Data"
    BY <1>5 DEF FollowInv, NoDataYet
  <2>2. \A p \in Peers : \A i \in 1 .. Len(broadcast'[p]) : broadcast'[p][i][id].type # "Data"
    BY <1>1, <1>2, <1>3, <2>1, NoDataSent
  <2> QED
    BY <2>1, <2>2
<1>9. TickSent'
  BY <1>2, <1>5 DEF FollowInv, TickSent
<1>10. AllFollow'
  <2> SUFFICES ASSUME NEW p \in connected, NEW id \in IDs, id \in objects'[Server], listed[p] <= id
               PROVE  Follows(var'[Server][id], objects'[p], var'[p][id],
                              Send(broadcast, connected, frees)[p],
                              building.packet[id], sync.packet[id], id)
    BY <1>2 DEF AllFollow
  <2> DEFINE s == var[Server][id]
             c == var[p][id]
             x == building.packet[id]
             y == sync.packet[id]
  <2>1. broadcast \in [Peers -> Seq(Packet)] /\ p \in Peers
    BY <1>1 DEF TypeOK
  <2>2. /\ id \in objects[Server] /\ id \notin loose
        /\ var'[Server][id] = s /\ var'[p][id] = c /\ objects'[p] = objects[p]
    BY <1>4, <2>1
  <2>3. Follows(s, objects[p], c, broadcast[p], x, y, id)
    BY <1>5, <2>2 DEF FollowInv, AllFollow
  <2>4. Neutral(frees[id]) /\ Good(s, frees[id])
    BY <1>3, <2>2 DEF Good
  <2> HIDE DEF s, c, x, y
  <2>5. Follows(s, objects[p], c, Send(broadcast, connected, frees)[p], x, y, id)
    BY <1>3, <2>1, <2>3, <2>4, FollowsBroadcast
  <2> QED
    BY <2>2, <2>5 DEF s, c, x, y
<1> QED
  BY <1>6, <1>7, <1>8, <1>9, <1>10 DEF FollowInv

\* Build enters an object without an owner and broadcasts its packet.
LEMMA BuildPublishFollow ==
    ASSUME Regular, RegularInv, BuildPublish
    PROVE  FollowInv'
<1> DEFINE new == building.id
           z == building.packet
<1>1. /\ TypeOK /\ Server \in Hosts /\ Peers \subseteq Hosts /\ Server \notin Peers
      /\ building.packet \in Packet /\ sync.packet \in Packet
  BY RegularFacts
<1>2. FollowInv /\ building.owner = NoPeer /\ NoPeer \notin connected
  BY <1>1, HostsAssumption DEF RegularInv, FollowInv, OneWay, TypeOK
<1>3. new \in IDs /\ building # NoBuild
  BY <1>1 DEF BuildPublish, TypeOK, Builds
<1>4. {building.owner} \cap connected = {}
  BY <1>2
<1>5. /\ objects' = [objects EXCEPT ![Server] = objects[Server] \cup {new}]
      /\ controller' = [controller EXCEPT ![Server][new] = "LOCAL"]
      /\ owner' = [owner EXCEPT ![new] = NoPeer]
      /\ broadcast' = Send(broadcast, connected, z)
      /\ var' = var /\ building' = NoBuild
      /\ s_TotalEntities' = s_TotalEntities /\ sync' = sync /\ net' = net
      /\ connected' = connected /\ uplink' = uplink /\ writes' = writes
  BY <1>2 DEF BuildPublish
<1>6. direct' = direct
  <2>1. PICK a, b : direct' = Send(Send(direct, {}, a), {}, b)
    BY <1>4 DEF BuildPublish
  <2>2. direct = [p \in Peers |-> direct[p]]
    BY <1>1 DEF TypeOK
  <2>3. Send(direct, {}, a) = direct /\ Send(direct, {}, b) = direct
    BY <2>2 DEF Send
  <2> QED
    BY <2>1, <2>3
<1>7. listed' = listed
  <2>1. listed' = [p \in Peers |-> listed[p]]
    BY <1>4 DEF BuildPublish
  <2> QED
    BY <1>1, <2>1 DEF TypeOK
<1>8. /\ objects'[Server] = objects[Server] \cup {new}
      /\ \A p \in Peers : objects'[p] = objects[p]
      /\ \A id \in IDs : owner'[id] = NoPeer
      /\ controller'[Server][new] = "LOCAL"
      /\ \A id \in IDs : id # new => controller'[Server][id] = controller[Server][id]
  <2>1. objects'[Server] = objects[Server] \cup {new} /\ \A p \in Peers : objects'[p] = objects[p]
    BY <1>1, <1>5 DEF TypeOK
  <2>2. \A id \in IDs : owner'[id] = NoPeer
    BY <1>1, <1>2, <1>5 DEF TypeOK, FollowInv, OneWay
  <2>3. /\ controller'[Server][new] = "LOCAL"
        /\ \A id \in IDs : id # new => controller'[Server][id] = controller[Server][id]
    BY <1>1, <1>3, <1>5 DEF TypeOK
  <2> QED
    BY <2>1, <2>2, <2>3
<1>9. Unborn(new) /\ new \notin objects[Server] /\ \A h \in Hosts : new \notin objects[h]
  <2>1. Unborn(new)
    BY DEF Unborn
  <2> QED
    BY <1>1, <1>3, <2>1 DEF RegularInv, LifeInv, FreshIDs
<1>10. NoBuild.owner = NoPeer /\ NoBuild.packet = NoPacket /\ NoBuild.id = -1
  BY DEF NoBuild
<1>11. \A id \in IDs : NoPacket[id].type # "Data"
  BY DEF NoPacket, NoFrame, ListFrame
<1>12. OneWay'
  BY <1>2, <1>5, <1>6, <1>8, <1>10 DEF FollowInv, OneWay
<1>13. Numbered'
  <2> SUFFICES ASSUME NEW id \in IDs
               PROVE  /\ var[Server][id].sequence
                             + (IF var[Server][id].changed THEN 1 ELSE 0) <= writes + 1
                      /\ var[Server][id].sequence = 0 => var[Server][id].changed
                      /\ id \notin objects'[Server] => var[Server][id].sequence = 0
                      /\ id \in objects'[Server] => controller'[Server][id] = "LOCAL"
    BY <1>5 DEF Numbered
  <2>1. /\ var[Server][id].sequence + (IF var[Server][id].changed THEN 1 ELSE 0) <= writes + 1
        /\ var[Server][id].sequence = 0 => var[Server][id].changed
        /\ id \notin objects[Server] => var[Server][id].sequence = 0
        /\ id \in objects[Server] => controller[Server][id] = "LOCAL"
    BY <1>2 DEF FollowInv, Numbered
  <2>2. id \in objects'[Server] => controller'[Server][id] = "LOCAL"
    BY <1>8, <2>1
  <2>3. id \notin objects'[Server] => id \notin objects[Server]
    BY <1>8
  <2> QED
    BY <2>1, <2>2, <2>3
<1>14. NoDataYet'
  <2> SUFFICES ASSUME NEW id \in IDs, Unborn(id)'
               PROVE  /\ NoPacket[id].type # "Data" /\ sync.packet[id].type # "Data"
                      /\ \A p \in Peers : \A i \in 1 .. Len(broadcast'[p]) :
                             broadcast'[p][i][id].type # "Data"
    BY <1>5, <1>10 DEF NoDataYet
  <2>1. Unborn(id)
    <3>1. id \in Nat /\ id # -1
      BY DEF IDs
    <3> QED
      BY <1>5, <1>10, <3>1 DEF Unborn
  <2>2. /\ building.packet[id].type # "Data" /\ sync.packet[id].type # "Data"
        /\ \A p \in Peers : \A i \in 1 .. Len(broadcast[p]) : broadcast[p][i][id].type # "Data"
    BY <1>2, <2>1 DEF FollowInv, NoDataYet
  <2>3. \A p \in Peers : \A i \in 1 .. Len(broadcast'[p]) : broadcast'[p][i][id].type # "Data"
    BY <1>1, <1>5, <2>2, NoDataSent
  <2> QED
    BY <1>11, <2>2, <2>3
<1>15. TickSent'
  BY <1>2, <1>5 DEF FollowInv, TickSent
<1>16. AllFollow'
  <2> SUFFICES ASSUME NEW p \in connected, NEW id \in IDs, id \in objects'[Server], listed[p] <= id
               PROVE  Follows(var[Server][id], objects'[p], var[p][id], broadcast'[p],
                              NoPacket[id], sync.packet[id], id)
    BY <1>5, <1>7, <1>10 DEF AllFollow
  <2>1. broadcast \in [Peers -> Seq(Packet)] /\ p \in Peers /\ p \in Hosts
    BY <1>1 DEF TypeOK
  <2>2. objects'[p] = objects[p] /\ NoPacket[id].type # "Data"
    BY <1>8, <1>11, <2>1
  <2>3. CASE id = new
    <3>1. id \notin objects[p] /\ id \notin objects[Server]
      BY <1>9, <2>1, <2>3
    <3>2. var[Server][id].changed
      BY <1>2, <3>1 DEF FollowInv, Numbered
    <3>3. /\ building.packet[id].type # "Data" /\ sync.packet[id].type # "Data"
          /\ \A i \in 1 .. Len(broadcast[p]) : broadcast[p][i][id].type # "Data"
      BY <1>2, <1>9, <2>1, <2>3 DEF FollowInv, NoDataYet
    <3>4. \A i \in 1 .. Len(broadcast'[p]) : broadcast'[p][i][id].type # "Data"
      BY <1>1, <1>5, <2>1, <3>3, NoDataSent
    <3> QED
      BY <2>2, <3>1, <3>2, <3>3, <3>4, FollowsNew
  <2>4. CASE id # new
    <3> DEFINE s == var[Server][id]
               c == var[p][id]
               x == building.packet[id]
               y == sync.packet[id]
               x2 == NoPacket[id]
    <3>1. id \in objects[Server]
      BY <1>8, <2>4
    <3>2. Follows(s, objects[p], c, broadcast[p], x, y, id)
      BY <1>2, <3>1 DEF FollowInv, AllFollow
    <3>3. Neutral(z[id]) /\ z[id] = x /\ x2.type # "Data" /\ z \in Packet
      BY <1>1, <1>11, <2>4 DEF RegularInv, LifeInv, PendingFrames
    <3>4. Good(s, z[id])
      BY <3>2, <3>3 DEF Follows
    <3> HIDE DEF s, c, x, y, x2, z
    <3>5. Follows(s, objects[p], c, Send(broadcast, connected, z)[p], x2, y, id)
      BY <2>1, <3>2, <3>3, <3>4, FollowsBroadcast
    <3> QED
      BY <1>5, <2>2, <3>5 DEF s, c, x, y, x2
  <2> QED
    BY <2>3, <2>4
<1> QED
  BY <1>12, <1>13, <1>14, <1>15, <1>16 DEF FollowInv

\* What the first packet of broadcasts does to a peer's variable.
LEMMA ReceivedVar ==
    ASSUME Regular, RegularInv, NEW p \in Peers, NEW packet \in Packet,
           HandleEntSnapshot(p, packet), NEW id \in IDs
    PROVE  /\ ~var'[p][id].locked
           /\ packet[id].type = "Alloc" /\ id \notin objects[p] => var'[p][id].sequence = 0
           /\ (packet[id].type = "Data" /\ id \in objects[p]
                   /\ var[p][id].sequence <= packet[id].sequence) =>
                   /\ var'[p][id].sequence = packet[id].sequence
                   /\ var'[p][id].data = packet[id].data
           /\ (id \in objects[p] /\
                   (\/ packet[id].type = "None"
                    \/ packet[id].type = "Data"
                       /\ ~(var[p][id].sequence <= packet[id].sequence))) =>
                   var'[p][id] = var[p][id]
<1> DEFINE c == var[p][id]
           f == packet[id]
<1>1. TypeOK /\ p \in Hosts /\ ~IsNetworkLocal(p, id) /\ SeqCheck
  BY RegularFacts DEF Regular
<1>2. ~c.locked
  BY DEF RegularInv, FollowInv, OneWay
<1>3. var'[p][id] = IF Allocates(p, id, f) \/ Frees(f) THEN NewVar
                    ELSE IF Accepts(p, id, f, NoPeer) THEN Apply(c, f) ELSE c
  BY <1>1 DEF HandleEntSnapshot, TypeOK
<1>4. ~NewVar.locked /\ NewVar.sequence = 0
  BY DEF NewVar
<1>5. Accepts(p, id, f, NoPeer) <=>
          f.type = "Data" /\ id \in objects[p] /\ c.sequence <= f.sequence
  BY <1>1 DEF Accepts, CheckSequence
<1>6. (Allocates(p, id, f) <=> f.type = "Alloc" /\ id \notin objects[p])
      /\ (Frees(f) <=> f.type = "Dealloc")
  BY DEF Allocates, Frees
<1> HIDE DEF c, f
<1>7. Apply(c, f).sequence = f.sequence /\ Apply(c, f).data = f.data /\ ~Apply(c, f).locked
  BY <1>2 DEF Apply
<1>8. CASE f.type = "Alloc" /\ id \notin objects[p]
  BY <1>3, <1>4, <1>6, <1>8 DEF c, f
<1>9. CASE f.type = "Dealloc"
  BY <1>3, <1>4, <1>6, <1>9 DEF c, f
<1>10. CASE f.type # "Dealloc" /\ ~(f.type = "Alloc" /\ id \notin objects[p])
  <2>1. var'[p][id] = IF Accepts(p, id, f, NoPeer) THEN Apply(c, f) ELSE c
    BY <1>3, <1>6, <1>10
  <2>2. CASE f.type = "Data" /\ id \in objects[p] /\ c.sequence <= f.sequence
    <3>1. var'[p][id] = Apply(c, f)
      BY <1>5, <2>1, <2>2
    <3> QED
      BY <1>7, <2>2, <3>1 DEF c, f
  <2>3. CASE ~(f.type = "Data" /\ id \in objects[p] /\ c.sequence <= f.sequence)
    <3>1. var'[p][id] = c
      BY <1>5, <2>1, <2>3
    <3> QED
      BY <1>2, <1>10, <2>3, <3>1 DEF c, f
  <2> QED
    BY <2>2, <2>3
<1> QED
  BY <1>8, <1>9, <1>10

LEMMA ReceiveFollow ==
    ASSUME Regular, RegularInv, NEW p \in Peers, ClientReceiveBroadcast(p)
    PROVE  FollowInv'
<1> DEFINE q == broadcast[p]
           packet == Head(broadcast[p])
<1>1. /\ TypeOK /\ Server \in Hosts /\ Peers \subseteq Hosts /\ Server \notin Peers /\ p \in Hosts
      /\ \A id \in IDs : Unborn(id) => id \notin objects[Server]
  BY RegularFacts
<1>2. /\ q \in Seq(Packet) /\ q # <<>> /\ HandleEntSnapshot(p, packet)
      /\ \A r \in Peers : broadcast'[r] = IF r = p THEN Tail(q) ELSE broadcast[r]
      /\ s_TotalEntities' = s_TotalEntities /\ owner' = owner /\ building' = building
      /\ sync' = sync /\ net' = net /\ connected' = connected /\ direct' = direct
      /\ uplink' = uplink /\ listed' = listed /\ writes' = writes
  BY <1>1 DEF ClientReceiveBroadcast, serverVars, TypeOK
<1>3. /\ packet \in Packet /\ packet = q[1] /\ 1 \in 1 .. Len(q)
      /\ \A i \in 1 .. Len(Tail(q)) : i + 1 \in 1 .. Len(q) /\ Tail(q)[i] = q[i + 1]
  <2>1. /\ packet = q[1] /\ 1 \in 1 .. Len(q)
        /\ \A i \in 1 .. Len(Tail(q)) : i + 1 \in 1 .. Len(q) /\ Tail(q)[i] = q[i + 1]
    BY <1>2, TailElements
  <2>2. q[1] \in Packet
    BY <1>2, <2>1, ElementOfSeq
  <2> QED
    BY <2>1, <2>2
<1>4. /\ \A h \in Hosts : h # p => objects'[h] = objects[h] /\ var'[h] = var[h]
                                   /\ controller'[h] = controller[h]
      /\ \A id \in IDs : id \in objects'[p] <=>
               \/ packet[id].type = "Alloc"
               \/ id \in objects[p] /\ packet[id].type # "Dealloc"
  <2>1. /\ \A h \in Hosts : h # p => objects'[h] = objects[h]
        /\ \A id \in IDs : id \in objects'[p] <=>
               \/ packet[id].type = "Alloc"
               \/ id \in objects[p] /\ packet[id].type # "Dealloc"
    BY <1>1, <1>2, ReceivedObjects
  <2>2. \A h \in Hosts : h # p => var'[h] = var[h] /\ controller'[h] = controller[h]
    BY <1>1, <1>2 DEF HandleEntSnapshot, TypeOK
  <2> QED
    BY <2>1, <2>2
<1>5. FollowInv
  BY DEF RegularInv
<1>6. OneWay'
  <2>1. \A id \in IDs : ~var'[p][id].locked
    BY <1>2, <1>3, ReceivedVar
  <2>2. \A r \in Peers, id \in IDs : ~var'[r][id].locked
    BY <1>1, <1>4, <1>5, <2>1 DEF FollowInv, OneWay
  <2> QED
    BY <1>2, <1>5, <2>2 DEF FollowInv, OneWay
<1>7. Server # p /\ objects'[Server] = objects[Server] /\ var'[Server] = var[Server]
      /\ controller'[Server] = controller[Server]
  BY <1>1, <1>4
<1>8. Numbered'
  BY <1>2, <1>5, <1>7 DEF FollowInv, Numbered
<1>9. NoDataYet'
  <2> SUFFICES ASSUME NEW id \in IDs, Unborn(id)
               PROVE  /\ building.packet[id].type # "Data" /\ sync.packet[id].type # "Data"
                      /\ \A r \in Peers : \A i \in 1 .. Len(broadcast'[r]) :
                             broadcast'[r][i][id].type # "Data"
    BY <1>2 DEF NoDataYet, Unborn
  <2>1. /\ building.packet[id].type # "Data" /\ sync.packet[id].type # "Data"
        /\ \A r \in Peers : \A i \in 1 .. Len(broadcast[r]) : broadcast[r][i][id].type # "Data"
    BY <1>5 DEF FollowInv, NoDataYet
  <2>2. \A i \in 1 .. Len(Tail(q)) : Tail(q)[i][id].type # "Data"
    BY <1>3, <2>1
  <2> QED
    BY <1>2, <2>1, <2>2
<1>10. TickSent'
  BY <1>2, <1>5 DEF FollowInv, TickSent
<1>11. AllFollow'
  <2> SUFFICES ASSUME NEW r \in connected, NEW id \in IDs, id \in objects[Server], listed[r] <= id
               PROVE  Follows(var[Server][id], objects'[r], var'[r][id], broadcast'[r],
                              building.packet[id], sync.packet[id], id)
    BY <1>2, <1>7 DEF AllFollow
  <2>1. r \in Peers /\ r \in Hosts
    BY <1>1 DEF TypeOK
  <2>2. Follows(var[Server][id], objects[r], var[r][id], broadcast[r],
                building.packet[id], sync.packet[id], id)
    BY <1>5 DEF FollowInv, AllFollow
  <2>3. CASE r # p
    <3>1. objects'[r] = objects[r] /\ var'[r] = var[r] /\ broadcast'[r] = broadcast[r]
      BY <1>2, <1>4, <2>1, <2>3
    <3> QED
      BY <2>2, <3>1
  <2>4. CASE r = p
    <3> DEFINE s == var[Server][id]
               c == var[p][id]
               c2 == var'[p][id]
               x == building.packet[id]
               y == sync.packet[id]
               f == packet[id]
               there == objects[Server]
               here == objects[p]
               here2 == objects'[p]
    <3>1. s \in NetVar /\ c \in NetVar /\ f \in Frame
      BY <1>1, <1>3 DEF TypeOK, Packet
    <3>2. Follows(s, here, c, q, x, y, id)
      BY <2>2, <2>4
    <3>3. InStep(there, here, q, id)
      <4>1. Announced(p, id)
        <5>1. ~Unborn(id) /\ id \in Nat /\ s_TotalEntities \in Nat
          BY <1>1, BoundsAssumption DEF IDs, TypeOK
        <5> QED
          BY <2>4, <5>1 DEF Announced, Unborn
      <4> QED
        BY <4>1 DEF RegularInv, LifeInv, Lives
    <3>4. s.sequence = 0 => s.changed
      BY <1>5 DEF FollowInv, Numbered
    <3>5. id \in here2 <=> \/ f.type = "Alloc"
                           \/ id \in here /\ f.type # "Dealloc"
      BY <1>4
    <3>6. /\ f.type = "Alloc" /\ id \notin here => c2.sequence = 0
          /\ f.type = "Data" /\ id \in here /\ c.sequence <= f.sequence =>
                c2.sequence = f.sequence /\ c2.data = f.data
          /\ id \in here /\ (f.type = "None" \/ (f.type = "Data" /\ ~(c.sequence <= f.sequence))) =>
                c2 = c
      BY <1>2, <1>3, ReceivedVar
    <3>7. f = Head(q)[id] /\ id \in there /\ q \in Seq(Packet) /\ q # <<>>
      BY <1>2
    <3>8. broadcast'[p] = Tail(q)
      BY <1>2
    <3> HIDE DEF s, c, c2, x, y, f, there, here, here2, q, packet
    <3>9. Follows(s, here2, c2, Tail(q), x, y, id)
      BY <3>1, <3>2, <3>3, <3>4, <3>5, <3>6, <3>7, FollowsTake
    <3> QED
      BY <2>4, <3>8, <3>9 DEF s, c2, x, y, here2
  <2> QED
    BY <2>3, <2>4
<1> QED
  BY <1>6, <1>8, <1>9, <1>10, <1>11 DEF FollowInv

LEMMA ClientFollow ==
    ASSUME Regular, RegularInv, NEW p \in Peers, Client(p)
    PROVE  FollowInv'
<1>1. direct[p] = <<>> /\ Local(p) = {}
  BY RegularFacts DEF RegularInv, FollowInv, OneWay
<1>2. ~ClientReceiveDirect(p) /\ ~ClientSnapshot(p)
  BY <1>1 DEF ClientReceiveDirect, ClientSnapshot, Taken
<1> QED
  BY <1>2, ReceiveFollow DEF Client

\* Nobody connects, leaves or sends anything to the server.
LEMMA NoNet ==
    ASSUME Regular, RegularInv
    PROVE  ~Net
<1>1. /\ TypeOK /\ net.stage = "idle" /\ \A p \in Peers : uplink[p] = <<>>
  BY RegularFacts DEF RegularInv, FollowInv, OneWay, IdleNet
<1>2. \A p \in Peers : ~(connects[p] < MaxConnects)
  BY <1>1 DEF TypeOK, Regular
<1>3. ~SendWorldLists /\ ~SendWorldSnapshot
  BY <1>1 DEF SendWorldLists, SendWorldSnapshot
<1>4. \A p \in Peers : ~Connect(p) /\ ~ServerReceive(p) /\ ~Disconnect(p)
  BY <1>1, <1>2 DEF Connect, ServerReceive, Disconnect
<1> QED
  BY <1>3, <1>4 DEF Net

LEMMA InitFollow == Regular /\ Init => FollowInv
<1> SUFFICES ASSUME Regular, Init PROVE FollowInv
  OBVIOUS
<1>1. /\ Server \in Hosts /\ Peers \subseteq Hosts /\ MaxEntities \in Nat
  BY HostsAssumption, BoundsAssumption DEF Hosts
<1>2. NewVar.sequence = 0 /\ NewVar.changed /\ ~NewVar.locked
  BY DEF NewVar
<1>3. \A h \in Hosts, id \in IDs : var[h][id] = NewVar /\ id \notin objects[h]
  BY DEF Init
<1>4. building.packet = NoPacket /\ building.owner = NoPeer /\ sync.packet = NoPacket
  BY DEF Init, NoBuild
<1>5. \A id \in IDs : NoPacket[id].type # "Data"
  BY DEF NoPacket, NoFrame, ListFrame
<1>6. \A p \in Peers : broadcast[p] = <<>> /\ direct[p] = <<>> /\ uplink[p] = <<>>
  BY DEF Init
<1>7. OneWay
  BY <1>1, <1>2, <1>3, <1>4, <1>6 DEF OneWay, Init
<1>8. Numbered
  BY <1>1, <1>2, <1>3 DEF Numbered, Init
<1>9. NoDataYet /\ TickSent
  <2>1. \A p \in Peers : Len(broadcast[p]) = 0
    BY <1>6
  <2> QED
    BY <1>4, <1>5, <2>1 DEF NoDataYet, TickSent
<1>10. AllFollow
  BY <1>1, <1>3 DEF AllFollow
<1> QED
  BY <1>7, <1>8, <1>9, <1>10 DEF FollowInv

LEMMA NextRegular == Regular /\ RegularInv /\ [Next]_vars => RegularInv'
<1> SUFFICES ASSUME Regular, RegularInv, [Next]_vars PROVE RegularInv'
  OBVIOUS
<1>1. LifeInv' /\ ControlInv' /\ TypeOK'
  BY NextLife, NextControl DEF RegularInv, LifeInv
<1>2. FollowInv
  BY DEF RegularInv
<1>3. CASE App
  <2>1. ASSUME NEW id \in IDs, Release(id) PROVE FollowInv'
    BY <1>2, <2>1, FollowUntouched DEF Release
  <2>2. ASSUME NEW o \in Owners, BuildBegin(o) PROVE FollowInv'
    BY <1>1, <2>2, BuildBeginFollow
  <2>3. ASSUME NEW h \in Writers, NEW id \in IDs,
               \/ \E value \in Values : Set(h, id, value)
               \/ Invalidate(h, id)
               \/ Lock(h, id)
        PROVE  FollowInv'
    BY <2>3, CallFollow
  <2>4. FollowInv'
    BY <1>3, <2>1, <2>2, <2>3 DEF App
  <2> QED
    BY <1>1, <2>4 DEF RegularInv
<1>4. CASE Sync
  <2>1. FollowInv'
    BY <1>1, <1>4, SyncSnapshotFollow, SyncBroadcastFollow, SyncPostUpdateFollow DEF Sync
  <2> QED
    BY <1>1, <2>1 DEF RegularInv
<1>5. CASE UNCHANGED vars
  <2>1. FollowInv'
    BY <1>2, <1>5, FollowUntouched DEF vars, serverVars
  <2> QED
    BY <1>1, <2>1 DEF RegularInv
<1>6. CASE BuildPublish
  BY <1>1, <1>6, BuildPublishFollow DEF RegularInv
<1>7. CASE \E p \in Peers : Client(p)
  BY <1>1, <1>7, ClientFollow DEF RegularInv
<1> QED
  BY <1>3, <1>4, <1>5, <1>6, <1>7, NoNet DEF Next

LEMMA RegularConverged ==
    ASSUME Regular, RegularInv
    PROVE  Converged
<1> SUFFICES ASSUME Quiet, NEW p \in Peers, NEW id \in objects[Server], Announced(p, id)
             PROVE  var[p][id].data = var[Server][id].data
  BY DEF Converged
<1>1. /\ TypeOK /\ Server \in Hosts /\ Local(Server) = objects[Server] /\ id \in IDs
      /\ building.packet \in Packet /\ sync.packet \in Packet
  BY RegularFacts
<1>2. ~var[Server][id].changed
  BY <1>1 DEF Quiet, Taken
<1>3. building.packet[id].type # "Data" /\ sync.packet[id].type # "Data" /\ Len(broadcast[p]) = 0
  BY <1>1 DEF Quiet, Modified, NoBuild, NoPacket, NoFrame, ListFrame
<1>4. Follows(var[Server][id], objects[p], var[p][id], broadcast[p],
              building.packet[id], sync.packet[id], id)
  BY <1>1 DEF Announced, RegularInv, FollowInv, AllFollow
<1>5. id \in objects[p] /\ var[p][id].sequence = var[Server][id].sequence
  BY <1>2, <1>3, <1>4 DEF Follows, Newest
<1> QED
  BY <1>2, <1>4, <1>5 DEF Follows

\* With sequence checks on, when no object has an owner, no peer joins or leaves after
\* the start, and there are fewer changes than sequence numbers: whenever nothing is
\* under way, every peer holds the server's last value of every object, however
\* Set, SnapshotUpdate, Build, whose packet takes the changes of other objects with it,
\* and the client's ReadEntityUpdate interleave.
THEOREM ConvergedCorrect ==
    ASSUME SeqCheck, Owners \subseteq {NoPeer}, MaxConnects = 0, MaxWrites + 1 < SeqMod
    PROVE  Spec => []Converged
<1>1. Regular
  BY DEF Regular
<1>2. Init => RegularInv
  BY <1>1, InitLife, InitControl, InitFollow DEF RegularInv
<1>3. RegularInv /\ [Next]_vars => RegularInv'
  BY <1>1, NextRegular
<1>4. RegularInv => Converged
  BY <1>1, RegularConverged
<1> QED
  BY <1>2, <1>3, <1>4, PTL DEF Spec
=============================================================================
