---------------------------- MODULE Replication ----------------------------
(***************************************************************************)
(* Replication of networked objects between one NETTIK server and its      *)
(* clients: NetSystem, NetSystemServer and NetSystemClient over the ENet   *)
(* transport, with the objects of one CEntities manager in one             *)
(* VirtualInstance.  Every object carries one reliable NetVar.             *)
(*                                                                         *)
(* Four kinds of thread interleave:                                        *)
(*   - the application thread of the server (Build, Set, dropping the last *)
(*     reference) and of a client (Set on an object it controls);          *)
(*   - the server's sync thread (NetSystem::Update);                       *)
(*   - the server's network thread (connect callback, received packets);   *)
(*   - a client's sync and network threads.                                *)
(*                                                                         *)
(* A reliable ENet channel delivers in order and exactly once, and the     *)
(* channels of a peer are independent of each other.  BroadcastStream uses *)
(* channel 0, SendStream channel 1.  The packets that one call sends back  *)
(* to back on one channel are one element of its queue.                    *)
(***************************************************************************)
EXTENDS Integers, Sequences, FiniteSets

CONSTANTS
    Peers,         \* the ENet peer slots of the server's host
    Server,        \* the server host
    NoPeer,        \* nullptr in the place of an ENetPeer*
    MaxEntities,   \* bound on the number of calls of Build
    Values,        \* contents of a NetVar
    ZeroValue,     \* what the NetVar constructor stores
    SeqMod,        \* 2^32 in the code: m_iSequenceID is an uint32_t
    SeqCheck,      \* m_CheckSequence of the NetVars
    Owners,        \* what the application passes to Build
    Established,   \* the peers that are connected before the first Build
    MaxConnects,   \* bound on the connections of one slot
    AppOps,        \* the NetVar calls the application makes
    Writers,       \* the hosts whose application makes them
    MaxWrites      \* bound on the number of these calls

ASSUME HostsAssumption ==
    /\ Server \notin Peers /\ NoPeer \notin Peers /\ Server # NoPeer
    /\ Owners \subseteq Peers \cup {NoPeer}
    /\ Established \subseteq Peers
    /\ Writers \subseteq Peers \cup {Server}
ASSUME DataAssumption ==
    /\ ZeroValue \in Values
    /\ SeqMod \in Nat \ {0}
    /\ SeqCheck \in BOOLEAN
    /\ AppOps \subseteq {"Set", "Invalidate", "Lock"}
ASSUME BoundsAssumption ==
    MaxEntities \in Nat /\ MaxConnects \in Nat /\ MaxWrites \in Nat

VARIABLES
    s_TotalEntities,  \* the next NetID
    objects,          \* per host: the NetIDs in m_NetworkObjects
    controller,       \* per host and NetID: NetObject::m_Controller
    var,              \* per host and NetID: the object's CNetVarBase
    owner,            \* per NetID: m_pPeer of the server's object
    held,             \* NetIDs the server's application has a shared_ptr to
    building,         \* the call of Build under way
    sync,             \* the server's sync thread
    net,              \* the server's network thread
    connected,        \* the peers ENet has connected
    broadcast,        \* per peer: channel 0, server to client
    direct,           \* per peer: channel 1, server to client
    uplink,           \* per peer: channel 1, client to server
    connects,         \* per slot: connections so far
    writes,           \* NetVar calls so far
    listed            \* history: s_TotalEntities at the last SendObjectLists

serverVars == <<s_TotalEntities, owner, held, building, sync, net>>
hostVars == <<objects, controller, var>>
netVars == <<connected, broadcast, direct, uplink>>
vars == <<serverVars, hostVars, netVars, connects, writes, listed>>

Hosts == Peers \cup {Server}
IDs == 0 .. MaxEntities - 1
Controllers == {"NONE", "LOCAL"}
SeqNumbers == 0 .. SeqMod - 1

\* The members of CNetVarBase that replication reads or writes.
NetVar == [data : Values, changed : BOOLEAN, forced : BOOLEAN,
           locked : BOOLEAN, sequence : SeqNumbers]

\* Mutant of NewVar: the constructor does not zero the data.
NewVarUnset == [data |-> NoPeer, changed |-> TRUE, forced |-> FALSE,
                locked |-> FALSE, sequence |-> 0]

\* A constructed NetVar: zeroed, and flagged as changed.
NewVar == [data |-> ZeroValue, changed |-> TRUE, forced |-> FALSE,
           locked |-> FALSE, sequence |-> 0]

\* SnapshotEntList: one frame of a packet.  "None" says that a packet holds no
\* frame for an object.
Frame == [type : {"None", "Alloc", "Dealloc", "Data"}, controller : Controllers,
          data : Values, sequence : SeqNumbers, forced : BOOLEAN]
ListFrame(type, c) == [type |-> type, controller |-> c, data |-> ZeroValue,
                       sequence |-> 0, forced |-> FALSE]
NoFrame == ListFrame("None", "NONE")
AllocFrame(c) == ListFrame("Alloc", c)
DeallocFrame == ListFrame("Dealloc", "NONE")

\* A packet has at most one frame per object (an object has one variable), so
\* the order of the frames does not matter.
Packet == [IDs -> Frame]
NoPacket == [id \in IDs |-> NoFrame]

\* Mutant of Modified: a stream with a single frame counts as empty.
ModifiedOffByOne(packet) == Cardinality({id \in IDs : packet[id].type # "None"}) > 1

\* SnapshotStream::modified
Modified(packet) == \E id \in IDs : packet[id].type # "None"

NoBuild == [id |-> -1, owner |-> NoPeer, packet |-> NoPacket]
Builds == {NoBuild} \cup [id : IDs, owner : Peers \cup {NoPeer}, packet : Packet]
SyncStages == {"snapshot", "broadcast", "post", "post2"}
IdleNet == [stage |-> "idle", peer |-> NoPeer]
NetStates == {IdleNet} \cup [stage : {"lists", "snapshot"}, peer : Peers]

-----------------------------------------------------------------------------
(* Snapshots of NetVars.                                                    *)

IsNetworkLocal(h, id) == controller[h][id] = "LOCAL"
Local(h) == {id \in objects[h] : IsNetworkLocal(h, id)}

\* TakeVariableSnapshot returns early unless the variable changed or the
\* snapshot is forced.
Taken(v, ids, bForced) == {id \in ids : bForced \/ v[id].changed}

DataFrame(v, bForced) ==
    [type |-> "Data", controller |-> "NONE", data |-> v.data,
     sequence |-> (v.sequence + 1) % SeqMod, forced |-> v.forced \/ bForced]

\* The frames a snapshot of the objects ids writes.
SnapshotPacket(v, ids, bForced) ==
    [id \in IDs |-> IF id \in Taken(v, ids, bForced)
                    THEN DataFrame(v[id], bForced) ELSE NoFrame]

SentVar(v) == [data |-> v.data, changed |-> FALSE, forced |-> FALSE,
               locked |-> v.locked, sequence |-> (v.sequence + 1) % SeqMod]

\* The variables after the snapshot: number taken, change flags cleared.
SnapshotVars(v, ids, bForced) ==
    [id \in IDs |-> IF id \in Taken(v, ids, bForced)
                    THEN SentVar(v[id]) ELSE v[id]]

\* Mutant of ListPacket: every owned object is announced as LOCAL.
ListPacketAnyOwner(ids, own, p) ==
    [id \in IDs |-> IF id \in ids
                    THEN AllocFrame(IF own[id] # NoPeer THEN "LOCAL" ELSE "NONE")
                    ELSE NoFrame]

\* The Alloc frames SendObjectLists writes for peer p.
ListPacket(ids, own, p) ==
    [id \in IDs |-> IF id \in ids
                    THEN AllocFrame(IF own[id] = p THEN "LOCAL" ELSE "NONE")
                    ELSE NoFrame]

\* The queues after a packet is sent to the peers in to.
Send(queue, to, packet) ==
    [p \in Peers |-> IF p \in to /\ Modified(packet)
                     THEN Append(queue[p], packet) ELSE queue[p]]

-----------------------------------------------------------------------------
(* Applying frames.                                                         *)

\* Mutant of CheckSequence: no sequence is refused.
CheckSequenceNever(v, sequence) == TRUE

CheckSequence(v, sequence) == ~SeqCheck \/ v.sequence <= sequence

\* The early returns of NetSystem::ReadEntityUpdate.  from is NoPeer on a
\* client, which passes no owner to check.
Accepts(h, id, frame, from) ==
    /\ frame.type = "Data"
    /\ id \in objects[h]
    /\ from # NoPeer => owner[id] = from
    /\ IsNetworkLocal(h, id) => frame.forced
    /\ CheckSequence(var[h][id], frame.sequence)

\* Mutants of Apply: a received value is flagged as forced, too; is not flagged as
\* changed.
ApplyForces(v, frame) ==
    [data     |-> IF v.locked THEN v.data ELSE frame.data,
     changed  |-> v.changed \/ ~v.locked,
     forced   |-> v.forced \/ ~v.locked,
     locked   |-> v.locked,
     sequence |-> frame.sequence]
ApplySilent(v, frame) ==
    [data     |-> IF v.locked THEN v.data ELSE frame.data,
     changed  |-> v.changed,
     forced   |-> v.forced,
     locked   |-> v.locked,
     sequence |-> frame.sequence]

\* SetSequence, then CNetVarBase::Set on raw data, which a lock stops.  They are
\* one step here; NetVarThreads takes the Set apart.
Apply(v, frame) ==
    [data     |-> IF v.locked THEN v.data ELSE frame.data,
     changed  |-> v.changed \/ ~v.locked,
     forced   |-> v.forced,
     locked   |-> v.locked,
     sequence |-> frame.sequence]

\* EntAllocate ignores an Alloc frame for an object the client already has.
Allocates(p, id, frame) == frame.type = "Alloc" /\ id \notin objects[p]
Frees(frame) == frame.type = "Dealloc"

\* NetSystemClient::HandleEntSnapshot
HandleEntSnapshot(p, packet) ==
    /\ objects' = [objects EXCEPT ![p] =
           {id \in IDs : \/ packet[id].type = "Alloc"
                         \/ id \in @ /\ ~Frees(packet[id])}]
    /\ controller' = [controller EXCEPT ![p] =
           [id \in IDs |-> IF Allocates(p, id, packet[id])
                           THEN packet[id].controller
                           ELSE IF Frees(packet[id]) THEN "NONE" ELSE @[id]]]
    /\ var' = [var EXCEPT ![p] =
           [id \in IDs |-> IF Allocates(p, id, packet[id]) \/ Frees(packet[id])
                           THEN NewVar
                           ELSE IF Accepts(p, id, packet[id], NoPeer)
                                THEN Apply(@[id], packet[id]) ELSE @[id]]]

-----------------------------------------------------------------------------
Init ==
    /\ s_TotalEntities = 0
    /\ objects = [h \in Hosts |-> {}]
    /\ controller = [h \in Hosts |-> [id \in IDs |-> "NONE"]]
    /\ var = [h \in Hosts |-> [id \in IDs |-> NewVar]]
    /\ owner = [id \in IDs |-> NoPeer]
    /\ held = {}
    /\ building = NoBuild
    /\ sync = [stage |-> "snapshot", packet |-> NoPacket]
    /\ net = IdleNet
    /\ connected = Established
    /\ broadcast = [p \in Peers |-> <<>>]
    /\ direct = [p \in Peers |-> <<>>]
    /\ uplink = [p \in Peers |-> <<>>]
    /\ connects = [p \in Peers |-> 0]
    /\ writes = 0
    /\ listed = [p \in Peers |-> IF p \in Established THEN 0 ELSE MaxEntities]

-----------------------------------------------------------------------------
(* The server's application thread.                                         *)

\* CEntities::Build up to the lock: the object gets its NetID, and its Alloc
\* frame goes into one stream with the pending changes of the instance.
BuildBegin(o) ==
    /\ building = NoBuild
    /\ s_TotalEntities < MaxEntities
    /\ o # NoPeer => o \in connected
    /\ building' = [id |-> s_TotalEntities, owner |-> o,
                    packet |-> [SnapshotPacket(var[Server], Local(Server), FALSE)
                                EXCEPT ![s_TotalEntities] = AllocFrame("NONE")]]
    /\ var' = [var EXCEPT ![Server] = SnapshotVars(@, Local(Server), FALSE)]
    /\ s_TotalEntities' = s_TotalEntities + 1
    /\ UNCHANGED <<objects, controller, owner, held, sync, net, netVars,
                   connects, writes, listed>>

\* CEntities::Build under the lock: the object enters the list; the owner is
\* sent the list on channel 1; the stream is broadcast; the owner is sent a
\* forced snapshot of every object on channel 1.
BuildPublish ==
    LET id == building.id
        o == building.owner
        ids == objects[Server] \cup {id}
        own == [owner EXCEPT ![id] = o]
        to == {o} \cap connected
        forcedPacket == SnapshotPacket(var[Server], ids, TRUE)
    IN /\ building # NoBuild
       /\ objects' = [objects EXCEPT ![Server] = ids]
       /\ controller' = [controller EXCEPT ![Server][id] = "LOCAL"]
       /\ owner' = own
       /\ held' = held \cup {id}
       /\ broadcast' = Send(broadcast, connected, building.packet)
       /\ direct' = Send(Send(direct, to, ListPacket(ids, own, o)), to, forcedPacket)
       /\ var' = IF o = NoPeer THEN var
                 ELSE [var EXCEPT ![Server] = SnapshotVars(@, ids, TRUE)]
       /\ building' = NoBuild
       /\ listed' = [p \in Peers |-> IF p \in to THEN s_TotalEntities ELSE listed[p]]
       /\ UNCHANGED <<s_TotalEntities, sync, net, connected, uplink, connects, writes>>

\* The application drops its last reference; PostUpdate will collect it.
Release(id) ==
    /\ id \in held
    /\ held' = held \ {id}
    /\ UNCHANGED <<s_TotalEntities, owner, building, sync, net, hostVars, netVars,
                   connects, writes, listed>>

-----------------------------------------------------------------------------
(* NetVar calls of an application.  A client uses them on the objects it    *)
(* controls, the server on the objects it has a reference to.               *)

Usable(h) == IF h = Server THEN held ELSE Local(h)

AppWrite(h, id, v) ==
    /\ id \in Usable(h)
    /\ writes < MaxWrites
    /\ var' = [var EXCEPT ![h][id] = v]
    /\ writes' = writes + 1
    /\ UNCHANGED <<serverVars, objects, controller, netVars, connects, listed>>

ChangedVar(v, value) == [data |-> value, changed |-> TRUE, forced |-> TRUE,
                         locked |-> v.locked, sequence |-> v.sequence]
LockToggled(v) == [data |-> v.data, changed |-> v.changed, forced |-> v.forced,
                   locked |-> ~v.locked, sequence |-> v.sequence]

\* CNetVarBase::Set: nothing happens if the value is the same.
Set(h, id, value) ==
    /\ "Set" \in AppOps
    /\ var[h][id].data # value
    /\ AppWrite(h, id, ChangedVar(var[h][id], value))

\* CNetVarBase::Invalidate
Invalidate(h, id) ==
    /\ "Invalidate" \in AppOps
    /\ AppWrite(h, id, ChangedVar(var[h][id], var[h][id].data))

\* CNetVarBase::Lock and Unlock
Lock(h, id) ==
    /\ "Lock" \in AppOps
    /\ AppWrite(h, id, LockToggled(var[h][id]))

-----------------------------------------------------------------------------
(* The server's sync thread: NetSystem::Update.                             *)

SyncSnapshot ==
    /\ sync.stage = "snapshot"
    /\ sync' = [stage |-> "broadcast",
                packet |-> SnapshotPacket(var[Server], Local(Server), FALSE)]
    /\ var' = [var EXCEPT ![Server] = SnapshotVars(@, Local(Server), FALSE)]
    /\ UNCHANGED <<s_TotalEntities, owner, held, building, net, objects, controller,
                   netVars, connects, writes, listed>>

SyncBroadcast ==
    /\ sync.stage = "broadcast"
    /\ broadcast' = Send(broadcast, connected, sync.packet)
    /\ sync' = [stage |-> "post", packet |-> NoPacket]
    /\ UNCHANGED <<s_TotalEntities, owner, held, building, net, hostVars,
                   connected, direct, uplink, connects, writes, listed>>

\* CEntities::PostUpdate, run by SnapshotUpdate and again by ControllerUpdate:
\* objects without an outside reference are erased, and their destructor
\* broadcasts a Dealloc frame.
SyncPostUpdate ==
    LET loose == objects[Server] \ held
    IN /\ sync.stage \in {"post", "post2"}
       /\ objects' = [objects EXCEPT ![Server] = @ \ loose]
       /\ controller' = [controller EXCEPT ![Server] =
              [id \in IDs |-> IF id \in loose THEN "NONE" ELSE @[id]]]
       /\ var' = [var EXCEPT ![Server] =
              [id \in IDs |-> IF id \in loose THEN NewVar ELSE @[id]]]
       /\ broadcast' = Send(broadcast, connected,
              [id \in IDs |-> IF id \in loose THEN DeallocFrame ELSE NoFrame])
       /\ sync' = [stage |-> IF sync.stage = "post" THEN "post2" ELSE "snapshot",
                   packet |-> sync.packet]
       /\ UNCHANGED <<s_TotalEntities, owner, held, building, net, connected,
                      direct, uplink, connects, writes, listed>>

-----------------------------------------------------------------------------
(* The server's network thread: NetSystem::ProcessNetStack.                 *)

\* ENet reports a new peer; from now on broadcasts reach it.
Connect(p) ==
    /\ net.stage = "idle"
    /\ p \notin connected
    /\ connects[p] < MaxConnects
    /\ connected' = connected \cup {p}
    /\ connects' = [connects EXCEPT ![p] = @ + 1]
    /\ net' = [stage |-> "lists", peer |-> p]
    /\ UNCHANGED <<s_TotalEntities, owner, held, building, sync, hostVars,
                   broadcast, direct, uplink, writes, listed>>

\* The connect callback: SendAllObjectLists ...
SendWorldLists ==
    /\ net.stage = "lists"
    /\ direct' = Send(direct, {net.peer}, ListPacket(objects[Server], owner, net.peer))
    /\ listed' = [listed EXCEPT ![net.peer] = s_TotalEntities]
    /\ net' = [stage |-> "snapshot", peer |-> net.peer]
    /\ UNCHANGED <<s_TotalEntities, owner, held, building, sync, hostVars, connected,
                   broadcast, uplink, connects, writes>>

\* ... and a forced snapshot, sent to the new peer only.
SendWorldSnapshot ==
    /\ net.stage = "snapshot"
    /\ direct' = Send(direct, {net.peer},
                      SnapshotPacket(var[Server], Local(Server), TRUE))
    /\ var' = [var EXCEPT ![Server] = SnapshotVars(@, Local(Server), TRUE)]
    /\ net' = IdleNet
    /\ UNCHANGED <<s_TotalEntities, owner, held, building, sync, objects, controller,
                   connected, broadcast, uplink, connects, writes, listed>>

\* NetSystemServer::HandleClientEntSnapshot
ServerReceive(p) ==
    /\ net.stage = "idle"
    /\ uplink[p] # <<>>
    /\ uplink' = [uplink EXCEPT ![p] = Tail(@)]
    /\ var' = [var EXCEPT ![Server] =
           [id \in IDs |-> IF Accepts(Server, id, Head(uplink[p])[id], p)
                           THEN Apply(@[id], Head(uplink[p])[id]) ELSE @[id]]]
    /\ UNCHANGED <<serverVars, objects, controller, connected, broadcast, direct,
                   connects, writes, listed>>

\* ENet reports that a peer is gone.  Its client process ends with it; the
\* server's objects keep their m_pPeer.
Disconnect(p) ==
    /\ net.stage = "idle"
    /\ p \in connected
    /\ connects[p] < MaxConnects
    /\ connected' = connected \ {p}
    /\ broadcast' = [broadcast EXCEPT ![p] = <<>>]
    /\ direct' = [direct EXCEPT ![p] = <<>>]
    /\ uplink' = [uplink EXCEPT ![p] = <<>>]
    /\ objects' = [objects EXCEPT ![p] = {}]
    /\ controller' = [controller EXCEPT ![p] = [id \in IDs |-> "NONE"]]
    /\ var' = [var EXCEPT ![p] = [id \in IDs |-> NewVar]]
    /\ listed' = [listed EXCEPT ![p] = MaxEntities]
    /\ UNCHANGED <<serverVars, connects, writes>>

-----------------------------------------------------------------------------
(* A client's network and sync threads.                                     *)

ClientReceiveBroadcast(p) ==
    /\ broadcast[p] # <<>>
    /\ HandleEntSnapshot(p, Head(broadcast[p]))
    /\ broadcast' = [broadcast EXCEPT ![p] = Tail(@)]
    /\ UNCHANGED <<serverVars, connected, direct, uplink, connects, writes, listed>>

ClientReceiveDirect(p) ==
    /\ direct[p] # <<>>
    /\ HandleEntSnapshot(p, Head(direct[p]))
    /\ direct' = [direct EXCEPT ![p] = Tail(@)]
    /\ UNCHANGED <<serverVars, connected, broadcast, uplink, connects, writes, listed>>

\* NetSystem::SnapshotUpdate on a client.
ClientSnapshot(p) ==
    /\ p \in connected
    /\ Taken(var[p], Local(p), FALSE) # {}
    /\ uplink' = Send(uplink, {p}, SnapshotPacket(var[p], Local(p), FALSE))
    /\ var' = [var EXCEPT ![p] = SnapshotVars(@, Local(p), FALSE)]
    /\ UNCHANGED <<serverVars, objects, controller, connected, broadcast, direct,
                   connects, writes, listed>>

-----------------------------------------------------------------------------
App ==
    \/ \E o \in Owners : BuildBegin(o)
    \/ \E id \in IDs : Release(id)
    \/ \E h \in Writers, id \in IDs : \/ \E value \in Values : Set(h, id, value)
                                      \/ Invalidate(h, id)
                                      \/ Lock(h, id)

Sync == SyncSnapshot \/ SyncBroadcast \/ SyncPostUpdate

Net == \/ \E p \in Peers : Connect(p) \/ ServerReceive(p) \/ Disconnect(p)
       \/ SendWorldLists
       \/ SendWorldSnapshot

Client(p) == ClientReceiveBroadcast(p) \/ ClientReceiveDirect(p) \/ ClientSnapshot(p)

Next == App \/ BuildPublish \/ Sync \/ Net \/ \E p \in Peers : Client(p)

Spec == Init /\ [][Next]_vars

\* The threads run: each loop keeps going, and ENet delivers reliable packets.
\* The application, connections and disconnections owe nothing.
Fairness ==
    /\ WF_vars(BuildPublish)
    /\ WF_vars(Sync)
    /\ WF_vars(SendWorldLists \/ SendWorldSnapshot)
    /\ \A p \in Peers : /\ WF_vars(ServerReceive(p))
                        /\ WF_vars(ClientReceiveBroadcast(p))
                        /\ WF_vars(ClientReceiveDirect(p))
                        /\ WF_vars(ClientSnapshot(p))

FairSpec == Spec /\ Fairness

-----------------------------------------------------------------------------
(* Properties.                                                              *)

\* Type invariant: every variable of every host and thread keeps the shape of
\* the member it models; in particular received frames leave well-formed
\* NetVars on the receiver.
TypeOK ==
    /\ s_TotalEntities \in 0 .. MaxEntities
    /\ objects \in [Hosts -> SUBSET IDs]
    /\ controller \in [Hosts -> [IDs -> Controllers]]
    /\ var \in [Hosts -> [IDs -> NetVar]]
    /\ owner \in [IDs -> Peers \cup {NoPeer}]
    /\ held \subseteq IDs
    /\ building \in Builds
    /\ sync \in [stage : SyncStages, packet : Packet]
    /\ net \in NetStates
    /\ connected \subseteq Peers
    /\ broadcast \in [Peers -> Seq(Packet)]
    /\ direct \in [Peers -> Seq(Packet)]
    /\ uplink \in [Peers -> Seq(Packet)]
    /\ connects \in [Peers -> 0 .. MaxConnects]
    /\ writes \in 0 .. MaxWrites
    /\ listed \in [Peers -> 0 .. MaxEntities]

\* A packet of queue q holds a frame of this type for id.
InFlight(q, id, type) == \E i \in 1 .. Len(q) : q[i][id].type = type

\* Peer p learns of object id from broadcasts only: it was connected when id was
\* built, does not own it, and SendObjectLists has not sent it to p.
Announced(p, id) ==
    p \in connected /\ listed[p] <= id /\ id < s_TotalEntities /\ building.id # id

\* An object that the server has and p does not is on its way to p; an object
\* that p has and the server does not is about to be freed.  (Build, PostUpdate
\* and FreeEntity on the server, EntAllocate and EntDeallocate on the client.)
AnnouncedLifecycle ==
    \A p \in Peers, id \in IDs : Announced(p, id) =>
        /\ id \in objects[Server] /\ id \notin objects[p] =>
               InFlight(broadcast[p], id, "Alloc")
        /\ id \in objects[p] /\ id \notin objects[Server] =>
               InFlight(broadcast[p], id, "Dealloc")

\* A client holds NET_CONTROLLER_LOCAL only for objects whose m_pPeer on the
\* server is its slot, so no two clients control one object.
ControlImpliesOwnership ==
    \A p \in Peers : \A id \in Local(p) : owner[id] = p

\* Nothing is under way: no packet in flight, no change waiting for a snapshot.
Quiet ==
    /\ building = NoBuild /\ net.stage = "idle" /\ ~Modified(sync.packet)
    /\ \A p \in Peers : broadcast[p] = <<>> /\ direct[p] = <<>> /\ uplink[p] = <<>>
    /\ \A h \in Hosts : Taken(var[h], Local(h), FALSE) = {}

\* When nothing is under way, a peer holds the server's value of each object it
\* learned of from broadcasts.  (SnapshotUpdate against Build and ReadEntityUpdate.)
Converged ==
    Quiet => \A p \in Peers : \A id \in objects[Server] :
                 Announced(p, id) => var[p][id].data = var[Server][id].data

\* The application's calls cause finitely many packets: the echo of an update by
\* its receiver (raw Set flags the variable as changed) dies out.
EchoDiesOut == <>[]Quiet
=============================================================================
