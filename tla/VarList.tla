------------------------------ MODULE VarList ------------------------------
(***************************************************************************)
(* CNetVarList: one list of one networked object, on the server and on its *)
(* clients.  A change of a list is not part of a snapshot: it is put as a  *)
(* packet into m_UpdateQueue.  The sync thread first gives the packets of  *)
(* the queue their peers (SendDelta) and then clears the queue (Flush);    *)
(* the destructor of a packet sends it, to the first peer of the host if   *)
(* it has been given none.  Between the two calls the lock is free.        *)
(*                                                                         *)
(* Three threads of the server meet in the list: the application, the      *)
(* network thread, which applies the packets of clients and queues them    *)
(* again for the others, and the sync thread.  Every element is written by *)
(* one host only (Writer): of two hosts that write one element, the list   *)
(* itself promises nothing.                                                *)
(***************************************************************************)
EXTENDS Integers, Sequences, FiniteSets

SX == INSTANCE SequencesExt

CONSTANTS
    Peers,      \* the clients; each has a player object in the list's manager
    Server,     \* the server host
    NoPeer,     \* nullptr
    FirstPeer,  \* the front of the server's m_PeerList
    Owner,      \* m_pPeer of the list's object, on the server
    Keys,
    Values,
    Default,    \* example_t()
    Absent,     \* no element in m_Data
    Writer,     \* per key: the host whose application writes the element
    MaxWrites   \* bound on the calls of the applications

ASSUME ListAssumption ==
    /\ Server \notin Peers /\ NoPeer \notin Peers \cup {Server}
    /\ FirstPeer \in Peers /\ Owner \in Peers \cup {NoPeer}
    /\ Default \in Values /\ Absent \notin Values
    /\ Writer \in [Keys -> Peers \cup {Server}]
    /\ IsFiniteSet(Peers) /\ IsFiniteSet(Keys)
    /\ MaxWrites \in Nat

VARIABLES
    m_Data,         \* per host and key: the value, or Absent
    m_UpdateQueue,  \* per host: the packets to send
    down,           \* per peer: channel 1, server to client
    up,             \* per peer: channel 1, client to server
    sync,           \* the server's sync thread: the next call
    net,            \* the server's network thread: the packet it works on
    writes          \* calls so far

vars == <<m_Data, m_UpdateQueue, down, up, sync, net, writes>>

Hosts == Peers \cup {Server}
Op(type, k, v) == [type |-> type, key |-> k, value |-> v]
IdleNet == [stage |-> "idle", op |-> Op("None", Absent, Absent)]

\* packet_filter: a packet, the peer it must not go to, the peers it goes to.
Entry(op, filter) == [op |-> op, filter |-> filter, peers |-> {}]

-----------------------------------------------------------------------------
Init ==
    /\ m_Data = [h \in Hosts |-> [k \in Keys |-> Absent]]
    /\ m_UpdateQueue = [h \in Hosts |-> <<>>]
    /\ down = [p \in Peers |-> <<>>]
    /\ up = [p \in Peers |-> <<>>]
    /\ sync = "delta"
    /\ net = IdleNet
    /\ writes = 0

\* What the handlers make of a packet: an add overwrites, an update or a removal of
\* an element that is not there does nothing.
Applied(data, op) ==
    CASE op.type = "add" -> [data EXCEPT ![op.key] = op.value]
      [] op.type = "update" /\ data[op.key] # Absent -> [data EXCEPT ![op.key] = op.value]
      [] op.type = "remove" -> [data EXCEPT ![op.key] = Absent]
      [] OTHER -> data

\* The list after a sequence of packets.
Replay(data, ops) ==
    LET after[n \in 0 .. Len(ops)] ==
            IF n = 0 THEN data ELSE Applied(after[n - 1], ops[n])
    IN  after[Len(ops)]

-----------------------------------------------------------------------------
(* The applications.  m_Mutex is held for the whole call.                   *)

Call(h, ops) ==
    /\ writes < MaxWrites
    /\ \A i \in DOMAIN ops : Writer[ops[i].key] = h
    /\ m_Data' = [m_Data EXCEPT ![h] = Replay(@, ops)]
    /\ m_UpdateQueue' = [m_UpdateQueue EXCEPT ![h] =
           @ \o [i \in DOMAIN ops |-> Entry(ops[i], NoPeer)]]
    /\ writes' = writes + 1
    /\ UNCHANGED <<down, up, sync, net>>

\* create returns the element that is there, set and remove refuse one that is not.
Create(h, k, v) == m_Data[h][k] = Absent /\ Call(h, <<Op("add", k, v)>>)
Set(h, k, v) == m_Data[h][k] # Absent /\ Call(h, <<Op("update", k, v)>>)
Remove(h, k) == m_Data[h][k] # Absent /\ Call(h, <<Op("remove", k, Absent)>>)

\* remove_all and clear go through the elements in the order of the map.
RemoveAll(h) ==
    LET present == {k \in Keys : m_Data[h][k] # Absent}
    IN /\ present # {}
       /\ \E keys \in [1 .. Cardinality(present) -> present] :
              /\ \A k \in present : \E i \in DOMAIN keys : keys[i] = k
              /\ Call(h, [i \in DOMAIN keys |-> Op("remove", keys[i], Absent)])

-----------------------------------------------------------------------------
(* The sync threads: UpdateListDelta.                                       *)

SendDelta ==
    /\ sync = "delta"
    /\ LET queue == m_UpdateQueue[Server]
           addressed(entry) == [entry EXCEPT !.peers = Peers \ {entry.filter}]
       IN m_UpdateQueue' = [m_UpdateQueue EXCEPT ![Server] =
              [i \in DOMAIN queue |-> addressed(queue[i])]]
    /\ sync' = "flush"
    /\ UNCHANGED <<m_Data, down, up, net, writes>>

\* Mutant of Targets: a packet without peers is dropped.
TargetsNoDefault(entry) == entry.peers

\* CProtoPacket::Dispatch and AllocateDefaultPeer
Targets(entry) == IF entry.peers = {} THEN {FirstPeer} ELSE entry.peers

\* The destructors run in the order of the queue.
OpsFor(p, queue) ==
    LET sent[n \in 0 .. Len(queue)] ==
            IF n = 0 THEN <<>>
            ELSE IF p \in Targets(queue[n]) THEN Append(sent[n - 1], queue[n].op)
                                            ELSE sent[n - 1]
    IN  sent[Len(queue)]

Flush ==
    /\ sync = "flush"
    /\ down' = [p \in Peers |-> down[p] \o OpsFor(p, m_UpdateQueue[Server])]
    /\ m_UpdateQueue' = [m_UpdateQueue EXCEPT ![Server] = <<>>]
    /\ sync' = "delta"
    /\ UNCHANGED <<m_Data, up, net, writes>>

Ops(queue) == [i \in DOMAIN queue |-> queue[i].op]

\* Mutant of Uplinked: the queue is sent from its end.
UplinkedReversed(p) == up[p] \o SX!Reverse(Ops(m_UpdateQueue[p]))

\* On a client no object has a peer, so every packet goes to the first peer, which
\* is the server.
Uplinked(p) == up[p] \o Ops(m_UpdateQueue[p])

ClientFlush(p) ==
    /\ m_UpdateQueue[p] # <<>>
    /\ up' = [up EXCEPT ![p] = Uplinked(p)]
    /\ m_UpdateQueue' = [m_UpdateQueue EXCEPT ![p] = <<>>]
    /\ UNCHANGED <<m_Data, down, sync, net, writes>>

-----------------------------------------------------------------------------
(* The network threads.                                                     *)

\* On a client there is nobody to tell, so that a handler is one step.
ClientReceive(p) ==
    /\ down[p] # <<>>
    /\ m_Data' = [m_Data EXCEPT ![p] = Applied(@, Head(down[p]))]
    /\ down' = [down EXCEPT ![p] = Tail(@)]
    /\ UNCHANGED <<m_UpdateQueue, up, sync, net, writes>>

\* on_remote_add, on_remote_update and on_remote_remove on the server.  The data is
\* written before the callbacks run, an element is removed after.
ServerReceive(p) ==
    LET op == Head(up[p])
        dropped == op.type = "update" /\ m_Data[Server][op.key] = Absent
    IN /\ net = IdleNet
       /\ up[p] # <<>>
       /\ up' = [up EXCEPT ![p] = Tail(@)]
       /\ m_Data' = IF op.type = "remove" THEN m_Data
                    ELSE [m_Data EXCEPT ![Server] = Applied(@, op)]
       /\ net' = IF dropped THEN IdleNet ELSE [stage |-> "dispatch", op |-> op]
       /\ UNCHANGED <<m_UpdateQueue, down, sync, writes>>

\* Mutant of Filter: the relayed packet goes to everybody.
FilterNobody == NoPeer

Filter == Owner

\* The callbacks of the constructor: unless it is alone, every player but the owner
\* is told.  The packet has the value that the list has now; reading m_Data[key]
\* inserts an element if there is none.
Dispatch ==
    LET k == net.op.key
        v == IF m_Data[Server][k] = Absent THEN Default ELSE m_Data[Server][k]
        relayed == Op(net.op.type, k, IF net.op.type = "remove" THEN Absent ELSE v)
    IN /\ net.stage = "dispatch"
       /\ m_Data' = [m_Data EXCEPT ![Server][k] = v]
       /\ m_UpdateQueue' = IF Cardinality(Peers) <= 1 THEN m_UpdateQueue
              ELSE [m_UpdateQueue EXCEPT ![Server] = Append(@, Entry(relayed, Filter))]
       /\ net' = IF net.op.type = "remove" THEN [stage |-> "erase", op |-> net.op]
                 ELSE IdleNet
       /\ UNCHANGED <<down, up, sync, writes>>

\* remove_at
Erase ==
    /\ net.stage = "erase"
    /\ m_Data' = [m_Data EXCEPT ![Server][net.op.key] = Absent]
    /\ net' = IdleNet
    /\ UNCHANGED <<m_UpdateQueue, down, up, sync, writes>>

-----------------------------------------------------------------------------
App == \E h \in Hosts : \/ \E k \in Keys, v \in Values : Create(h, k, v) \/ Set(h, k, v)
                        \/ \E k \in Keys : Remove(h, k)
                        \/ RemoveAll(h)
Net == (\E p \in Peers : ServerReceive(p)) \/ Dispatch \/ Erase
Client(p) == ClientFlush(p) \/ ClientReceive(p)

Next == App \/ SendDelta \/ Flush \/ Net \/ \E p \in Peers : Client(p)

Spec == Init /\ [][Next]_vars

-----------------------------------------------------------------------------
(* Properties.                                                              *)

\* The handler's change that is made but not queued, or queued but not made.
Unqueued == IF net.stage = "dispatch" THEN <<net.op>> ELSE <<>>
Unmade == IF net.stage = "erase" THEN <<net.op>> ELSE <<>>

\* Whatever the three threads of the server do, the first peer misses nothing: the
\* packets on their way to it, and then those in the queue, turn its list into the
\* server's.  (SendDelta and Flush against create, set, remove and on_remote_*.)
FirstPeerInStep ==
    Replay(m_Data[FirstPeer], down[FirstPeer] \o Ops(m_UpdateQueue[Server]) \o Unqueued)
        = Replay(m_Data[Server], Unmade \o Unqueued)

\* The server misses nothing of a client: what the client has queued and sent turns
\* the server's elements that this client writes into the client's own.
ServerInStep ==
    \A p \in Peers, k \in Keys : Writer[k] = p =>
        Replay(m_Data[Server], Unqueued \o Unmade \o up[p] \o Ops(m_UpdateQueue[p]))[k]
            = m_Data[p][k]

\* The owner is not sent the changes it made itself (the filter of the dispatch_*
\* calls, against SendDelta).  It holds only for an owner that is not the first peer:
\* the first peer also gets what is queued between SendDelta and Flush.
NoEcho ==
    \A p \in Peers : \A i \in 1 .. Len(down[p]) :
        Writer[down[p][i].key] = p => p # Owner
=============================================================================
