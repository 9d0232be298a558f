# NETTIK Networking in TLA+

NETTIK is a C++ library that replicates game objects from an authoritative
server to its clients over ENet.  This directory holds TLA+ modules that model
its replication core, configurations that check them with TLC, and proofs for
TLAPS.  Source paths are relative to `src/NETTIK_Networking/`; `README.md:N` and
`NetObject.h:N` in quotations are lines of the repository's own files.

    tlc -config lifecycle.cfg MCReplication.tla     # one run
    tlapm ReplicationProofs.tla                     # one proof module

`PROJECT.json` lists the components, runs, mutants, hazards, findings and
theorems, and gives for every definition the source lines it models.

## 1. The system

A process has one `NetSystem`, a `NetSystemServer` or a `NetSystemClient`.  It
owns an ENet host and a set of `VirtualInstance`s (worlds); an instance owns
entity managers (`CEntities<T>`), a manager owns objects (`NetObject`), an object
has variables (`NetVar`) and lists (`CNetVarList`).

| thread | code | touches |
|---|---|---|
| application | `CEntities::Build`, `NetVar::Set`, list calls, dropping a `shared_ptr` | everything |
| sync | `NetSystem::Update`: `SnapshotUpdate`, then `ControllerUpdate` | variables, lists, `PostUpdate` |
| network | `NetSystem::ProcessNetStack`: connections, frames, RPCs | variables, lists, objects (client) |

Traffic has three forms: snapshots (a header and frames of equal size), RPCs
(protobuf, used by lists), and ENet's own connect and disconnect events.
`BroadcastStream` sends on channel 0, `SendStream` and RPCs on channel 1; ENet
orders the packets of a channel, and nothing orders two channels.

### Components

**Replication of objects** (`NetSystem*`, `CEntities.h`, `NetObject`, `NetVar`,
`CNetVarBase.h`).  State: the objects of each host, whether an object is
controlled here (`NET_CONTROLLER_LOCAL`), `m_pPeer`, and each variable's data,
`m_bChanged`, `m_bForced`, `m_bLocked`, `m_iSequenceID`.  Operations: `Build`, release and
`PostUpdate`, `Set`, `Invalidate`, `Lock`, the snapshot of a tick, the connect callback,
the receivers on both sides, disconnection.  Hard: `Build` runs on the application
thread next to the tick and takes a snapshot of its own; the connect callback takes
a third, forced one; two channels; a peer learns of an object from a list or from
a broadcast.  Correct when: an announced object always reaches, and leaves, its peers;
one client at most controls an object, and it is the one the server chose; when
traffic ends, the peers hold the server's values; updates stop echoing.

**Snapshot framing** (`SnapshotStream.h`, `SnapshotHeader`, `SnapshotEntList.h`,
`VirtualInstance::DoSnapshot`, `HandleEntSnapshot`).  State: the streams of one packet.
Hard: the count is derived from what is in the stream already, frames have different
lengths and are padded, and one stream serves all instances of a tick.  Correct when
the receiver reads from a packet what was put into it, and no change is lost.

**Player realm** (`CPlayerRealm`).  State: players by realm ID, the free list, and
the player's own copy of its ID.  Correct when an ID is never lost, never given out
twice, and both copies agree.

**Variable lists** (`CNetVarList.h`, `NetVarListBase`, `INetworkPacketFactory`).  State: the
elements, the queue of packets with their filter.  Operations: `create`, `set`,
`remove`, `remove_all`, the two steps of `UpdateListDelta`, three remote handlers, the
relay to other players.  Hard: the lock is free between `SendDelta` and `Flush`,
between a handler's write and its relay, and between the relay of a removal and the
removal; packets are sent by destructors.  Correct when every player ends with the
server's list, and the author of a change does not get it back.

**NetVar thread safety** (`CNetVarBase.h`).  Nothing is locked: `Set` sets `m_bChanged` (in
`SetGuard`) before it stores the data, `TakeVariableSnapshot` clears it after it has read
them; that and the raw `Set` run on two other threads.  The raw `Set` looks at `m_bLocked` and then
stores.  Correct when a change stays flagged until a frame carries it, a peer ends with the last
value, and a locked variable takes no value from a peer.

**Threads, start and stop** (`INetworkThread`, `NetSystem`).  State: `m_bRunning`,
`m_bShuttingDown`, `m_pHost`, the two threads and their flags.  Operations: `Listen` of a server and
`Connect` of a client, `Start`, the two loops,
`Stop` (by the application, or by a client's disconnect callback on the network
thread itself), `Destroy`.  Hard: threads are ended with `TerminateThread`, wherever they
are and whatever they hold.  Correct when `Destroy` returns, ENet is never entered by
two threads or after its host is gone, and nobody waits for a lock that is never freed.

**Manager locks and lifetime** (`LockableVector.h`, `IEntityManager`, `VirtualInstance`).
Recursive mutexes per manager and per list, taken one inside the other; `s_TotalEntities` without
one; deferred deletion by map iterator.  Correct when no threads wait for each other and every
NetID is new.

**Interpolated NetVars** (`NetVarBufferBase`, `CNetVarBuffered*`).  State: a ring of four
positions, the active slot, the time since the last one.  Operations: `Set` on the network
thread, `GetInterpolated` on the application's.  Hard: no lock between them, and each `Set`
rewrites the position before it (banding); `m_iChanges`, which decides whether to interpolate, is counted by
both threads, and the application may clear it.  Correct when the shown point never leaves the
received positions, does not jump at an update and ends at the last one.

**Message dispatcher**: a locked queue of log lines that hands out pointers to its front.
**RPC and packet factory**: handler lookup and encoding.  **Timers**: pacing.
**Ownership frames**: `HandleEntOwnership` has no effect.  **Mathematics** (a course library
copied into the tree), **utilities**, **generated and vendored code**, **unit tests**: no state
of interest; the tests in `src/NETTIK_UnitTests` are for an older interface.

## 2. Modules

| module | models | kind |
|---|---|---|
| `Replication` | server, clients, threads and channels | state machine |
| `ReplicationProofs` | | theorems on `Replication`: types, control, the life of an object, the values that follow |
| `SnapshotPackets` | streams, headers, padding, cutting | state machine |
| `SnapshotPacketsProofs` | | theorems on `SnapshotPackets` |
| `PlayerRealm` | `CPlayerRealm` | state machine |
| `RealmSeats` | what a realm promises: numbered seats | abstract specification |
| `PlayerRealmProofs` | | theorems and refinement of `PlayerRealm` |
| `VarList` | one list on all hosts, with the server's three threads | state machine |
| `VarListProofs` | | theorems on `VarList` |
| `NetVarThreads` | the inside of one `CNetVarBase`, store by store, its `m_bLocked`, and a peer that takes its frames | state machine |
| `NetVarThreadsProofs` | | theorems on `NetVarThreads` |
| `NetThreads` | the threads of a `NetSystem` from its constructor to the calls after `Destroy`, and the locks that one of them can hold while it takes another or is in ENet | state machine |
| `NetThreadsProofs` | | theorems on `NetThreads` |
| `NetVarBuffer` | the ring of an interpolated variable, in the steps between which its two threads meet | state machine |
| `NetVarBufferProofs` | | theorems on `NetVarBuffer` |
| `InductionLemmas` | | induction over numbers and sequences, as statements about sets |
| `MC*` | small sets for TLC | model values |

`Replication` and `VarList` look at the system from above: a call is one step, or one
step per critical section.  `NetVarThreads` and `NetThreads` open those steps, the first for the
stores of a variable, the second for the locks and the ends of the threads.

### Replication

One manager in one instance, one reliable variable per object.  `objects`,
`controller` and `var` are indexed by host; `owner` is `m_pPeer` on the server.  A packet
is a function from NetIDs to frames, because an object has one variable and so a
packet one frame for it.  A step is a stretch of code that the managers' lock, or
being the only thread on its data, makes atomic:

* `Build` is two steps.  `BuildBegin` takes the NetID and the pending changes into its
  stream; `BuildPublish`, under the lock, lists the object, sends the owner its list and a
  forced snapshot on channel 1, and broadcasts the stream on channel 0.
* `SyncSnapshot`, `SyncBroadcast`, `SyncPostUpdate` are the tick.  `PostUpdate` runs twice
  in it (from `SnapshotUpdate` and from `ControllerUpdate`).  A reference dropped on the
  server (`Release`) makes the object collectable.
* `Connect`, `SendWorldLists`, `SendWorldSnapshot` are ENet's event and the two halves of
  the connect callback.  `ServerReceive` is `HandleClientEntSnapshot`.
* `ClientReceiveBroadcast`, `ClientReceiveDirect` are `HandleEntSnapshot` on each channel;
  `ClientSnapshot` is the client's tick.

A received frame is applied in one step (`Apply`), the look at `m_bLocked` included; what can come
between that look and the stores is in `NetVarThreads`.

A disconnection empties the channels and ends the client's process.  `listed` is history: which
objects a peer was sent in a list.

### SnapshotPackets

Byte streams are sequences of pieces with sizes, so that `CopyFrom` (padding),
`Generate`, `Result` and the receiver's two checks work on lengths as the code does,
without bytes.  The numbers of frames are taken modulo `CountMod` (2^16 in the code).

### PlayerRealm and RealmSeats

`Add` writes `m_PlayerList[GetFreeID()]` without looking at what is there.
`Promise == INSTANCE RealmSeats WITH ...` maps a taken ID to a seat with its player, its
number and its peer; `peak`, the most players at one time, is the number of seats.

### VarList

An element is written by one host (`Writer`); the list itself promises nothing of two
hosts that write one element.  `SendDelta` and `Flush` are the sync thread; `ServerReceive`,
`Dispatch` and `Erase` are the three stages of a remote handler.  On a client a
handler has nobody to tell (no object has a peer there) and is one step.

### NetVarThreads

`pc`, `todo` and `arg` say where each of the three threads is in its call.  A `Set` is its guard
(`Set`, `Invalidate`) and then one `Store` for each word of `m_Data` and each flag.  The raw `Set` is its
look at `m_bLocked` (`Receive`), then `RawSet` and its stores; the application may `Lock` and `Unlock`
between any two of these.  With `InOrder = FALSE` the stores happen in any order: they are neither
atomic nor fenced, so the compiler and the processor may reorder them, and what is shown of them
then holds for every build.  With `InOrder = TRUE` they happen as written (`InTurn`): flags before
the value in `Set(T)`, the value before the flag in the raw `Set`.  `Owned` says whether a client sends values
at all.  A snapshot (`BeginSnapshot` to `EndSnapshot`) has the manager's lock; `Send` is the broadcast after
it.  `last`, `overlapped`, `author`, `alone` and `late` are history: `overlapped` says that a snapshot and a
`Set` have been at work at one time, which is when a change can be lost, `late` counts the values
received that were stored since the last `Lock`.

### NetThreads

A call is a script, the sequence of its steps that another thread can notice (`Build`,
`Tick`, `Service`, `Stop`, ...), and `rest` is what each thread has still to do: `lock` and `unlock`,
`unless` for an early return when `m_bRunning` is off, `maybe` for what depends on data that the module
does not have, `enet` for a call of ENet under `m_ENET_RW`, `connect` for one without it.  A critical
section is two steps at least, so a thread can be ended inside any of them: `Terminate` throws its
script away and leaves `held` as it is.  `Each` strings together the scripts of the managers.

The locks are a mutex per manager, `m_ENET_RW`, the message queue's, and `m_Mutex` of a list (`UseList`,
`QueueChange`, `InvalidateEnts`, `SendDelta` and `Flush`, `ReceiveList`).  Three locks of the code are left out:
`m_QueuedEventsMutex` (`CNetVarList.h:610`, `:688`) is held for a copy or a push only;
`m_NetworkObjectsLocal` too, but for `~CEntities`, which takes it inside the manager's own; `m_CallbackMutex` is
taken by `~NetSystem` alone.  No thread holds one of them while it waits for another lock as long
as the system runs; an ended thread may keep one of the first two, as it may those that are modelled.

* `Applications` are the kinds of application: server or client, and the two uses of a list that
  take locks in opposite order, in `NetworkUpdate` (under the manager's lock, `CEntities.h:184`) and by
  `invalidate_ents` (which holds the list and takes the manager's, `CNetVarList.h:493`).
* A client's host is opened by its constructor (`NetSystemClient.cpp:16`), a server's by `Listen`, which is
  assumed to come before `Start`.  `CallConnect` may come before `Start` or after it; `late` marks the
  second.
* `CallAfter` are the calls after `Destroy`: reading the messages that are left, and deleting the
  managers (`~CEntities`), both of which lock.
* `raced` marks the case, a double delete, in which the code has no defined outcome.

A tick runs `DoPostUpdate` twice, as the code does.  The reliable and the unreliable pass over the same
locks are one; `GetByNetID` visits every manager, also behind the one that has the object; a
`NetworkUpdate` uses a list and does not build; pending deletions of managers are left out.

### NetVarBuffer

`Set` and `GetInterpolated` of `CNetVarBufferedVector` are cut where the other thread can change what
they go on to use: at each store, and where a value that was read is used later.  `TakeHeading` reads the two ends
of the way and whether the time frame is known in one step, and a slot, which is three floats, is
one access: on a line a torn slot cannot be told.  Positions are integers on a line, in units
that make every interpolated point of the run exact; the slots begin with `Junk`, because no
constructor fills them.  `Lerp` reads the time again or has it in a register; the `GetInterpolated` in `Set`
adds nothing to the time but writes back what it read (`KeepTime`).  `HalfSteps` are the values of
`dtms / 2`, an argument that differs from call to call.  `m_iChanges` is counted by `Set` (`Update` loads,
`CountChange` stores) and by `InvalidateChanges`, and cleared by `ClearChanges`, on the application's thread.

## 3. Runs

Every property is stated in words above its definition.

| run | bounds | shows |
|---|---|---|
| `lifecycle` | 2 slots, 1 object, a connection each | `TypeOK`; `AnnouncedLifecycle`: an object that an announced peer lacks, or keeps after the server freed it, has its Alloc or Dealloc in flight; `ControlImpliesOwnership` |
| `converge` | 1 peer, 2 objects, 2 calls, sequence checks on | `Converged` although the packets of `Build` and of the tick can overtake each other |
| `two_writers` | 2 peers, 1 object, 3 calls by owner and server, fairness | `Converged` for the peer that watches, `EchoDiesOut` |
| `realm` | 3 players | `IDsPartition`, `ImplementsSeats` |
| `framing` | 3 frame sizes, 2 packets in flight, a second instance without variables | `PacketsReadBack`, `NothingLost` |
| `lists` | 2 players, 2 elements, 4 calls | `FirstPeerInStep`, `ServerInStep`, `NoEcho` |
| `netvar` | 2 words, 2 values, 2 calls besides the snapshots | `ChangeKept`: a change is lost only to a snapshot that was at work while a `Set` was; `ReplicaConverges`; `LockStopsAllButOne` |
| `threads` | 2 managers, a list, 1 call, 1 event, `Stop` anywhere; a server that uses the list in `NetworkUpdate` or a client that calls `invalidate_ents`; fairness | `ENetSafe`, `NoCircularWait`, `NoOrphanedWait`, `DestroyReturns` |
| `interpolation` | 3 positions, 4 updates, 3 calls of `GetInterpolated`, `ClearChanges` or `InvalidateChanges` | `Settles`, `NothingMadeUp`, `NoJump` |
| `late_joiner` | 2 peers, one joins, 1 call | violates `Converged` |
| `lost_change` | 1 word, 2 calls, stores in program order, no value received | violates `ChangeSent` |
| `duplicate_id` | 1 manager, both threads build | violates `UniqueIDs` |

**Why the bounds are enough.**  The hazards are about pairs: two snapshots in the
wrong order (two objects, so that a second `Build` runs next to a tick), two peers (one that
is told and one that is not), a slot that is used twice (one reconnection).  Two calls
give a stale and a new value; three give a value that goes forth, back and is changed
meanwhile; four calls on a list are an add, a change and a removal with a second
element between them.  Frames need three sizes for a packet to have one that is
neither the longest nor the shortest.  `SeqMod` is above the number of snapshots of a
run where numbers are checked (8), and 1 where the code ignores them: `lifecycle`
has no values at all.  `MaxQueue` bounds the packets in flight in `SnapshotPackets`
only; the queues of the other modules are bounded by the calls.  In `netvar` two calls are a
`Set` and a value received, two `Set`s, or two values received and a `Lock`, with any number of snapshots between and during
them, and two words are enough to be torn.  In `threads` one call and one event put each
thread in each script, in every order (the call may also be one after `Destroy`); two managers are what a
circle of waits needs.  The two applications of the run have one use of the list each, on the side
where the other locks make it hard; the rest of the combinations, more managers and more calls
are left to the proofs, because half a million states take most of the time there is.
Four updates in `interpolation` go once round the ring; of its positions,
one is within reach of the first, one within the banding distance of the second only.  The
two steps of time, 6 and 12 ms in a frame of 10, put the point inside its way, at the 1.2 frames
where it has run furthest past the end, and beyond.

No configuration turns deadlock checking off: the tick can always run.

**Fairness** (`FairSpec`, used by `two_writers`): weak fairness of `BuildPublish`, of the
tick, of the connect callback, of every receiver and of the client's tick.  The loops
of `NetSystem::Run` and of the sync thread never stop while the system runs, and a reliable
ENet channel delivers.  The application owes nothing: no fairness of `Set`,
`Build`, `Release`, connections or disconnections.  `FairSpec` of `NetThreads` is weak fairness of
the application's thread alone: `DestroyReturns` must hold although the network and sync
threads may stop at any point, which is what `TerminateThread` makes them do.

### What the violations show

Each is a disagreement of the code with a line of the repository.

* `late_joiner`.  The forced snapshot for a connecting peer (`NetSystemServer.cpp:69`)
  clears `m_bChanged`, so a change that waited for the tick is sent to the new peer only;
  the others keep the old value.  `README.md:4`: "On each tick, the server will check
  for invalidations and send these changes to connected peers."
* `lost_change`.  `SetGuard` raises `m_bChanged` (`CNetVarBase.h:177`) before `Set` stores the value
  (`:162`).  The trace has the stores in program order and no value received: the tick's
  snapshot begins while a `Set` is under way, reads the old value after the flags are raised, the value is
  stored, and the snapshot clears the flags.  The new value is never sent.  `README.md:14`: "The
  NetVar classes are thread-safe."
* `duplicate_id`.  `s_TotalEntities++` (`IEntityManager.cpp:35`) has no lock: the application and
  a connect callback that both `Build` can return one NetID.  `IEntityManager.cpp:30`: "Gets
  the next UID of the application."

Met while modelling and not given a run:

* With `SeqCheck = FALSE`, the code's default, `converge` violates `Converged`.
  `Build` reads the changes before it takes the lock and sends them later, so a value that the
  tick took before can be sent after a newer one, and stays (`CEntities.h:333`).
* The broadcast Alloc (channel 0, `NET_CONTROLLER_NONE`) can arrive before the owner's list
  (channel 1, `NET_CONTROLLER_LOCAL`); the client ignores the second Alloc
  (`NetSystemClient.cpp:77`) and never controls its object.
* A Dealloc (channel 0) that overtakes its Alloc (channel 1, the list of a connecting peer)
  is ignored, and the copy stays (`NetObject.h:53`).  It is why `AnnouncedLifecycle` speaks of
  objects a peer learns of from broadcasts only.
* After a disconnection `m_pPeer` still points at the ENet slot (`NetSystem.cpp:566`), and the
  next client of the slot is told it controls the object.  `ControlImpliesOwnership` speaks
  of slots, not of clients, for this reason.
* One `SnapshotStream` serves all instances of a tick; `result()` returns the first instance's
  packet again (`SnapshotStream.h:28`).  With variables in two instances, `framing` violates
  `PacketsReadBack` and `NothingLost`.  A later instance without changes still broadcasts the packet, with
  a second header at its end, and the receivers drop it: that one is harmless, and in the run.
* A list change between `SendDelta` and `Flush` (`NetObject.cpp:48`) has no peers and goes to the
  first peer only; the properties of `lists` are about the first peer.
* Between the owner and the server, which both write a variable, a final difference is
  possible, since each ignores or echoes the other's value (`NetSystem.cpp:81`);
  `Converged` speaks of the peers that watch.
* A second `Add` of a player that is in the realm breaks the free list
  (`CPlayerRealm.cpp:60`): `IDsPartition` fails with `AddsAgain = TRUE`.
* If the owner of an object is the first peer, the window between `SendDelta` and `Flush` echoes
  the owner's change; `lists` therefore has another peer first.
* Two threads that `Build` with owners in two managers wait for each other
  (`CEntities.h:341`): `threads` violates `NoCircularWait` if the application's `Builds` have an owner too.
  In the run only the connect callback builds with an owner, as the library's use has it.
* Two uses of one list take its lock and the manager's in opposite order: `NetworkUpdate` runs under the
  manager's (`CEntities.h:184`) and may `set` an element; `invalidate_ents` holds the list's while its
  callbacks read the manager's players (`CNetVarList.h:493-508`).  With both in one application, and
  without the premise of `NoCircularWait`, TLC finds the sync thread and the application waiting for
  each other.
* `Connect` uses the host for up to ten seconds without `m_ENET_RW` (`NetSystemClient.cpp:200-214`).  Before
  `Start` nobody else does.  But the connect event that it fires for listeners (`:219-221`) is
  dropped unless `m_bRunning` is set (`NetSystem.cpp:502`), which asks for `Start` first; then the network
  thread services the same host, and `ENetSafe` without `~late` fails after six states.
* After `Destroy` the application can hang in a call that locks, if a thread was ended while
  it had that lock: reading the messages that are left, or deleting a manager (`CEntities.h:708`).  It does
  not hang in `Destroy`, nor in the `Send` of an object that it lets go of, which returns first because
  `m_bRunning` is off.  That is what `NoOrphanedWait` says.
* A thread that is ended inside ENet leaves the host half updated, and `Stop` then uses it to disconnect
  the peers and destroys it (`NetSystem.cpp:361-372`).  No property covers what ENet makes of that.
* `Lock` "Prevents **any** remote changes" (`README.md:35`), but the raw `Set` looks at `m_bLocked`
  (`CNetVarBase.h:136`) and stores later: a value that is past the look still lands after the application
  has locked.  `LockStopsAllButOne` is what is left of the promise: no second one does.
* `ClearChanges`, which `README.md:32` tells the application to call, sets the `m_iChanges` to 0 that
  `GetInterpolated` takes for the number of updates (`CNetVarBufferedVector.cpp:20`): until two more changes
  are counted the point is the live position, and it jumps there at the next `Set`.  `NoJump` therefore speaks of
  updates that end with `m_iChanges` at 2 or more.
* The comments of `CNetVarBufferedVector.cpp` say the opposite of its code: "Minimum amount of
  interpolation distance, anything less will be directly applied" (`:3-4`) and "Don't interpolate
  small values" (`:30`) stand above a test that applies directly what is more than 18 away, and
  interpolates what is less.  `NoJump` follows the code.
* `NothingMadeUp` needs both its conditions: with fewer than two values received, or with
  three that arrive during one `GetInterpolated`, the point can be anywhere.  Its bound is twice
  the overshoot of 3.6 that one way can have: a `Set` bands a point that is already past the
  last position into the active slot, and a reader that comes before the index moves on takes it for the
  end of its way and runs past that as well.  With one overshoot as the bound `interpolation`
  fails; it cannot go on, because every way of a `Set` ends at a received position.

## 4. Proofs

**Typing.**  `TypeCorrect == Spec => []TypeOK`.  `TypeOK` is inductive.  One lemma per group of
actions; the lemmas about operators (`SnapshotTypes`, `ListPacketType`, `SendType`,
`ApplyType`, `HandleEntSnapshotTypes`) say that snapshots are made of well-formed frames and
leave well-formed variables.  Assumed: the ASSUMEs of the module only.

**Who controls.**  `ControlCorrect == Spec => []ControlImpliesOwnership`, for every number of
peers, objects, connections, writes.  The property is not inductive: what makes a client
LOCAL is a frame that was sent earlier.  `ControlInv` adds to `TypeOK` that

* every frame in a `direct` queue that says LOCAL is for the peer that is the object's owner;
* every frame in a `broadcast` queue, in the tick's packet, and in the packet that a
  `Build` has under way says NONE;
* an object's owner is set at most once: an object that has no NetID yet, or is being
  built, has no owner, so a later `BuildPublish` cannot take one away.

`SendIndex`, `SendTwice` and `TailElements` describe the elements of a queue after `Send` and
after a receive; one lemma per group of actions shows that it keeps `ControlInv`.

**The life of an object.**  `LifecycleCorrect == Spec => []AnnouncedLifecycle`, for any number of peers, objects
and connections.  The property says that a frame is in flight, and nothing of its place;
a step that takes the first packet of a queue could take it too early.  `LifeInv` adds

* the order (`InStep`): a peer's queue has at most one Alloc and one Dealloc frame of an
  announced object, in this order; while the server has the object the Alloc is there exactly
  if the peer has not got it, afterwards both are, or the peer has the object and only the
  Dealloc is there, or neither;
* `FreshIDs`: of an object that has no NetID yet, or is being built, no host has a copy and
  no queue a frame;
* `PendingFrames`: of the packets a `Build` and the tick have under way, only a `Build`'s own
  object has an Alloc frame, and nothing is freed;
* `DirectListed` and `ListedPeers`: channel 1 allocates only objects that `SendObjectLists` listed, so it
  never meets the broadcasts of an announced one, and a slot that is not connected has
  nothing announced to it.

`AllocSent`, `DeallocSent`, `NeutralSent` and `FirstTaken` say what each packet does to `InStep` of one queue; the
lemmas of the actions cite them.

**Values.**  `ConvergedCorrect`: `Spec => []Converged` if sequence checks are on, no object has an owner, no
peer joins or leaves after the start, and there are fewer changes than sequence numbers; for
any number of peers, objects and calls, which may be `Set`, `Invalidate` and `Lock`.  These are the
assumptions of the run `converge`, and each is needed: without the checks the run fails; a joining
peer gets a forced snapshot of its own that clears `m_bChanged`, so that the others miss the change
(`late_joiner`), and the snapshot for a new owner does the same; a number that wraps is refused.
`Converged` speaks of quiet moments.  `FollowInv` says what holds in between, for each peer and
object (`Follows`): no frame on its way, in a packet of `Build`, of the tick or in the queue, has a
number the server's variable has not reached; a frame or a copy with its number has its value
unless it changed since; and unless it changed, the copy or such a frame exists.  A new object's
data frames come after its Alloc frame, or its first value would be dropped.  The other parts
(`OneWay`, `Numbered`, `NoDataYet`, `TickSent`) say that the clients only listen, that numbers count
the changes, and that a packet is sent once.  `InStep` of the previous theorem is used when a peer
takes a packet: an object that is missing is announced before any data of it.  TLC checked
`FollowInv` on the instance of `converge` first.

**Packets.**  `ReadBackCorrect` and `NothingLostCorrect` (`SnapshotPackets`): `Spec => []PacketsReadBack` and
`Spec => []NothingLost`, for any variables, names, sizes of frames and of the header, and any number of packets.
Assumed (`Supported`): the variables are in one instance, and their number and an Alloc frame are
below 2^16.  Both are needed: TLC violates `PacketsReadBack` with variables in two instances (the
stream that is used again, section 3), and with `CountMod = 4` for three variables, where the
count wraps to 0 and no header is written.

* `Cut(body, size, max, F)` says what the receiver does with the bytes after a header: each frame begins at a
  multiple of `max`, and the frames are `F`.  A frame of at most `max` with its padding extends a
  body by one multiple (`CutChunk`); `FlattenPacket` is the induction over the streams that `result()`
  appends, and `PacketRead` says that the size check passes and the frames come out.
* `LargestFacts`: what `DoSnapshot` computes is not below the size of any stream, so padding is never
  negative; `TakenFacts`: there are not more frames than variables, so the count does not wrap.
* `PacketInv`: of every packet in flight, what is read is what was put in, with one frame for a name;
  the stream of the loop is new, or `Spent`: it is at least as long as its header says, so that one more
  header at its end makes the receiver drop it, and no variable is in an instance that is still
  to come; and `Latest`: the last version of a variable is flagged, or it is received with
  nothing older behind it, or it is in a packet and no later one has a frame of the variable.  `NothingLost`
  alone is not inductive, since an older frame could arrive after the last one.

`Size` and the library's `FlattenSeq` are recursive functions; that they exist and what one more
element does to them are inductions over `InductionLemmas`.  TLC checked `PacketInv`, without its
types, with three instances first.

**The realm.**  The theorems assume `~AddsAgain`, that the application does not add a
player that is in the realm.  `TypeCorrect` and `PartitionCorrect` prove `TypeOK` and
`IDsPartition`, which together are inductive; the core is `FreeID`: the ID `GetFreeID` returns is not taken, and when the free
list is empty the number of players equals `peak` (a cardinality argument).
`RealmImplementsSeats` proves that the initial states map to initial states and every
step to a `Join`, a `Leave` or a stutter.

**A change is kept.**  `ChangeKeptCorrect == Spec => []ChangeKept` (`NetVarThreads`), for any
width of a value, any values and any number of calls.  The property speaks of moments at
which nothing is under way; `KeptInv` says what holds in between.  A snapshot has the lock
(`Locked`); and as long as no snapshot and `Set` have been at work at one time, a `Set`
under way has raised its flag or has still to, a snapshot under way has read what is
there, and when it clears the flag the last frame carries `m_Data` (`Kept`); `KeptForced` is the same
for the flag that makes an owner accept the server's value.  One lemma per action.

**A replica converges.**  `ReplicaConvergesCorrect == CheckSequence => (Spec => []ReplicaConverges)`.
`ReplicaInv` adds to `KeptInv` that frames under way have numbers up to `m_iSequenceID` and the
one with that number has the data of `last` (`FramesNumbered`), and that the replica has that
frame or it is on its way (`ReplicaFollows`).  The assumption is needed: without sequence
checks a frame that is overtaken replaces a newer one.

**A lock.**  `LockCorrect == Spec => []LockStopsAllButOne`, for any width of a value and number of calls.
`LateInv` says that while the variable is locked a value that has landed late came from the one raw `Set`
that was past its look at `m_bLocked`, and that the network thread is not in another: after a `Lock` it does
not pass the look again.

**The ring.**  `NetVarBuffer`: `TypeCorrect`; `SettlesCorrect == Spec => []Settles`, from `LastInRing`, which
says for each stage of a `Set` which slot has the position it works on;
`NoJumpCorrect == Spec => NoJump`, from an invariant that follows the point worked out at
the start of a `Set` through banding to the slot the new way starts at, whatever `ClearChanges` and
`InvalidateChanges` do to `m_iChanges` meanwhile;
`NothingMadeUpCorrect == Spec => NothingMadeUp`.  All for any positions, times and contents of
unfilled slots.  The invariant of the last, `KInv`:

* `RingHolds`: the active slot is the number of moves modulo 4; the slots moved on to (`Filled`)
  hold points within one overshoot of the received positions, the active one, but for the moment between
  banding and the move, a received position.
* `HandHolds`: a reader's `from` is the slot of the move before the one it began at, and while fewer
  than three updates have begun since, its heading still leads from that slot to within
  one overshoot.  `RingFar` says that two updates write only other slots.

`WayBound` is the arithmetic: up to 1.2 frames, the part of a way of at most 18 that is gone lies
on the way or past its end by the overshoot, rounding of the quotient included.

**Lists.**  `NoEchoCorrect`, `FirstPeerCorrect` and `ServerCorrect` (`VarList`), for any players, elements,
values and number of calls.  Assumed, as in the run: the first peer is not the owner and
writes nothing (`FirstPeerCorrect`), or only the owner and the server write (`ServerCorrect`).
`ListInv` types the queues and says that a change knows its origin from the queue to the
packet and that only changes of the server's own list are relayed.  What is queued and sent
is a list of changes, and `Replay`, a recursive function, applies them: `FirstPeerInv` says
what `Replay` makes of the first peer's list at each stage of a handler, counting the removal
that a handler has announced but not done yet; `ServerInv` is the same from the owner
to the server.  That `Replay` of a concatenation is `Replay` after `Replay` is an induction over
the length of a queue.  The library states induction for an operator `P(_)`; `InductionLemmas`
states it for a set of numbers, which the provers can use.

**Threads.**  `NetThreads`: `TypeCorrect`, `OrphanCorrect`, `ENetCorrect`, and `CircularCorrect`, which assumes that at
most one thread builds with owners; for any sequence of managers, any applications and any number of
calls and events.  The premises are in the properties: `ENetSafe` excludes `late` and `raced`, `NoCircularWait` an
application with both uses of a list.  All rest on `ThreadsCorrect == Spec => []ThreadsInv`; each of the properties alone is far
from inductive: whether a thread at a lock has another depends on the call it is in.

* `Who(t)` is what decides on the steps a thread may be at: the thread, the application's uses of the list, and
  for the application thread whether the system is `"new"`, `"up"` (`"late"` after a late `Connect`), in `Destroy` or
  `"gone"`.  `HeldBy(t)` is how often t has locked each lock; the locks are recursive, so a script is followed with
  depths and not with a set.
* `May(w, e, H)` says whether w may be at step e with the locks H: inside ENet it has `m_ENET_RW` (`Connect` does
  not, and may be there only before `Start` or late); at a lock it has neither `m_ENET_RW` nor the message
  queue's; for a second manager it must be an owner's builder; for a manager with a list it must be an
  application that calls `invalidate_ents`, and for a list with a manager one that uses it in `NetworkUpdate`;
  for `m_ENET_RW` the system must run.
* `Safe(w, H, s)`: w can do the rest `s` of a script with the locks H, skipping from `unless` and `maybe` or not, so
  that each step is one it may be at, and ends with no lock.  It is stated with a set of pairs that is
  closed under steps (`Closed`), so a step keeps it by definition; `Passes` composes it, and one lemma per script
  (`PassesBuild`, `PassesTick`, `PassesInvalidateEnts`, ...) shows that it can be begun.  The loop over the managers is an
  induction over their number.
* `ScriptInv`: every living thread is at a safe rest with the locks it has, or is the
  network thread in a `Stop` of its own, or the application in `Destroy`, with none.
* `PhaseInv`: before `Start` the workers have done nothing; until `Destroy` an ended thread has no lock; and
  `Stopped(k)` says what has been stopped at step k of `Destroy`, unless the network thread raced:
  flags, threads, host.  The delicate fact is `NetEnds`: past its flag the network thread is gone
  or is about to end itself.

An ended worker may keep any lock when `Destroy` goes on; `Destroy` takes none, and of the calls after it
only those that lock a manager or the message queue can meet it (`OrphanCorrect`).  `NoCircularWait` follows from the
order in which a thread may wait (`MayWait`): whoever has `m_ENET_RW` or the message queue waits for nobody, and
between managers and lists only one direction is open.  `ENetCorrect` is the lock on one side, and on the
other that both workers are ended when `Stop` reaches the host, and not begun when an early `Connect` runs.

**Model-checked only.**  `EchoDiesOut` and `DestroyReturns` need fairness, which the prover does not
handle.  `Converged` with an owner that writes (`two_writers`) is outside the theorem above.

## 5. Not modelled

* Unreliable variables, `IsActive`, several managers and several variables per object in
  `Replication`: the snapshot of a manager loops over them independently.  Their framing is
  in `SnapshotPackets`, their locks in `NetThreads`.
* Unlocked iterations (the connect callback's over a manager's objects, `SendContents` over a
  list), the deferred deletion of managers, a second `Stop` at the same time, a peer
  singleton that is replaced while its threads run: their outcomes are undefined
  behaviour of C++ that no model of this size could enumerate.
* Lists: joining (`SendContents`), `InvalidateVars`, scheduled events.
* The quaternion copy of the ring (`CNetVarBufferedQuat`: Slerp in place of a line),
  `CNetVarVector`, `cnetvarstring`.
* The contents of the message queue; time, bytes, protobuf, floating-point mathematics,
  logging, formatting.
* ENet, protobuf and googletest: third-party code, most of the lines of the tree.  ENet's
  channels are taken as reliable and ordered.  The matrices, vectors and quaternions are a
  course library without state; `EntityMessages.pb.*` are generated.

## 6. Plan

Done: `Replication`, `SnapshotPackets`, `PlayerRealm` with `RealmSeats`, `VarList`, `NetVarThreads`,
`NetThreads`, `NetVarBuffer`.  Next, in order:

1. `VarList`: joining and scheduled events.
2. An abstract register that `NetVarThreads` implements while `overlapped` is false, and
   with it the justification of the one-step `Set` of `Replication`.
3. `MessageDispatcher`, with a consumer that handles each message once.
