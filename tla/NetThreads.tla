----------------------------- MODULE NetThreads -----------------------------
(***************************************************************************)
(* The threads of one NetSystem, from its constructor to what the          *)
(* application may call after Destroy, and the locks that one of them can  *)
(* hold while it takes another or is inside ENet.  The application thread  *)
(* starts and ends the other two: net (ProcessNetStack) and sync (Update). *)
(* They are ended by TerminateThread, wherever they are, and what they had *)
(* locked stays locked.                                                    *)
(*                                                                         *)
(* A call is a script: the sequence of its steps that other threads can    *)
(* notice.  rest[t] is what thread t has still to do.  What a call         *)
(* computes between these steps is in the other modules; two passes over   *)
(* the same locks in a row, as for the reliable and the unreliable stream  *)
(* of a snapshot, are one.                                                 *)
(*                                                                         *)
(* Locks: one recursive mutex per manager (m_NetworkObjects), m_ENET_RW,   *)
(* m_MessagesMutex of the message queue, and m_Mutex of a list; a thread   *)
(* is never in two lists at once, so one list stands for all.              *)
(***************************************************************************)
EXTENDS Integers, Sequences, FiniteSets

CONSTANTS
    Managers,       \* sequence: the managers in the order of m_EntManagers
    ListManager,    \* the manager of the object that has the list
    Applications,   \* records: is it a server, and the uses it has for the list
    NoThread,
    Builds,         \* what the application builds: the thread, the manager, and
                    \* whether the object gets an owner
    MaxCalls,       \* bound on the application's calls while running
    MaxEvents       \* bound on ENet's events

Threads == {"app", "net", "sync"}
Workers == {"net", "sync"}
ManagerSet == {Managers[i] : i \in 1..Len(Managers)}
Locks == ManagerSet \cup {"m_ENET_RW", "m_MessagesMutex", "m_Mutex"}

ASSUME ThreadsAssumption ==
    /\ NoThread \notin Threads
    /\ Managers \in Seq(ManagerSet)
    /\ {"m_ENET_RW", "m_MessagesMutex", "m_Mutex"} \cap ManagerSet = {}
    /\ ListManager \in ManagerSet
    /\ Applications \subseteq
           [server : BOOLEAN, lists : SUBSET {"NetworkUpdate", "invalidate_ents"}]
    /\ Builds \subseteq [thread : {"app", "net"}, manager : ManagerSet, owned : BOOLEAN]
    /\ {MaxCalls, MaxEvents} \subseteq Nat

VARIABLES
    m_bServer, m_bRunning, m_bShuttingDown,
    lists,          \* where this application uses the list, besides its own thread's plain
                    \* calls: in NetworkUpdate, and by calling invalidate_ents
    m_pHost,        \* "open" or "null"
    object,         \* m_pThread and m_pSyncThread: is there an INetworkThread?
    status,         \* per worker: m_bRunning of its INetworkThread
    alive,          \* per thread: it exists
    rest,           \* per thread: the rest of its script
    held,           \* per lock: its owner and how often it has locked it
    s_TotalEntities,
    seen,           \* per thread: s_TotalEntities as read by s_TotalEntities++
    ids,            \* the NetIDs given out, in order
    phase,          \* of the application: "new", "up", "down" in Destroy, "gone" after it
    calls, events,  \* so far
    late,           \* history: Connect was called after Start
    raced           \* history: net has left its own object's destructor

flags == <<m_bServer, m_bRunning, m_bShuttingDown, lists>>
threads == <<object, status, alive>>
naming == <<s_TotalEntities, seen, ids>>
app == <<phase, calls, events, late>>
vars == <<flags, m_pHost, threads, rest, held, naming, app, raced>>

-----------------------------------------------------------------------------
(* Scripts.  "unless" returns from the next n steps if m_bRunning is off,  *)
(* "maybe" leaves them out or not.                                         *)
Step(op, on) == [op |-> op, on |-> on, skip |-> 0]
Unless(body) == <<[op |-> "unless", on |-> "", skip |-> Len(body)]>> \o body
Maybe(body) == <<[op |-> "maybe", on |-> "", skip |-> Len(body)]>> \o body
Under(l, body) == <<Step("lock", l)>> \o body \o <<Step("unlock", l)>>

(* The scripts of all managers, in the order of m_EntManagers. *)
Each(script) ==
    LET upTo[n \in 0..Len(Managers)] ==
            IF n = 0 THEN <<>> ELSE upTo[n-1] \o script[Managers[n]]
    IN  upTo[Len(Managers)]

\* Mutant of Broadcast: m_bRunning is looked at under the lock.
BroadcastLocksFirst == Under("m_ENET_RW", Unless(<<Step("enet", "")>>))

(* Send and Broadcast. *)
Broadcast == Unless(Under("m_ENET_RW", <<Step("enet", "")>>))

(* CMessageDispatcher::Add; GetNextMessage and PopMessageQueue. *)
Log == Under("m_MessagesMutex", <<>>)
ReadMessage == Log \o Log

(* GetSnapshot, and GetByNetID, of every manager. *)
DoSnapshot == Each([m \in ManagerSet |-> Unless(Under(m, <<>>))])
FindObject == Each([m \in ManagerSet |-> Under(m, <<>>)])

(* FreeEntity, from the destructor of an object. *)
FreeEntity == Broadcast

(* create, set and remove of a list, which may complain of the key. *)
UseList == Under("m_Mutex", Maybe(Log))

(* get_players, and the built-in callback of a list, which queues a change if
   there are other players. *)
get_players == Under(ListManager, <<>>)
QueueChange == get_players \o Maybe(Under("m_Mutex", <<>>))

(* invalidate_ents holds the list while its callbacks run. *)
InvalidateEnts == Under("m_Mutex", QueueChange)

(* SendDelta and Flush, which sends what is queued while it holds the list. *)
SendDelta == get_players \o Under("m_Mutex", <<>>)
UpdateListDelta == SendDelta \o Under("m_Mutex", Maybe(Broadcast))

(* The list of objects is copied, then every object's list is updated. *)
DoListUpdate == FindObject \o UpdateListDelta

(* PostUpdate of a manager: it may collect an object, on a server, and calls
   NetworkUpdate of the others, all under its lock. *)
PostUpdate(m, server, uses) ==
    Unless(Under(m, (IF server THEN Maybe(Log \o FreeEntity) ELSE <<>>)
                    \o (IF "NetworkUpdate" \in uses THEN Maybe(UseList) ELSE <<>>)))

DoPostUpdate(server, uses) ==
    DoListUpdate \o Each([m \in ManagerSet |-> PostUpdate(m, server, uses)])

\* Mutant of Build: the forced snapshot is taken with or without an owner.
BuildAlwaysFull(m, owned) ==
    <<Step("read", "s_TotalEntities"), Step("increment", "s_TotalEntities")>>
    \o DoSnapshot \o Under(m, Broadcast \o DoSnapshot \o Broadcast) \o Log

(* Build counts an ID, takes the pending changes of all managers, and then
   under its manager's lock lists the object and tells the peers; an owner
   gets the lists and a forced snapshot of all managers first. *)
Build(m, owned) ==
    <<Step("read", "s_TotalEntities"), Step("increment", "s_TotalEntities")>>
    \o DoSnapshot
    \o Under(m, IF owned THEN Broadcast \o Broadcast \o DoSnapshot \o Broadcast
                         ELSE Broadcast)
    \o Log

(* Update: SnapshotUpdate, which ends with DoPostUpdate, and ControllerUpdate,
   which does it again. *)
Tick(server, uses) ==
    Unless(DoSnapshot \o Broadcast \o DoPostUpdate(server, uses) \o DoPostUpdate(server, uses))

(* ServiceHostSafe, and what its event makes the thread do. *)
Service == Unless(Under("m_ENET_RW", <<Step("enet", "")>>) \o <<Step("event", "")>>)

(* Connect of a client, on the application's thread: enet_host_connect and
   enet_host_service, for up to ten seconds, and enet_peer_reset if it fails,
   all without m_ENET_RW. *)
Connect == <<Step("connect", ""), Step("connect", "")>> \o Maybe(Log \o <<Step("connect", "")>>)

(* ~CEntities, which frees the objects under its lock; on a client FreeEntity
   does nothing. *)
DeleteManager(m, server) == Under(m, IF server THEN FreeEntity ELSE <<>>)

(* delete of a thread's object: the destructor clears the flag, then ends
   the thread; the pointer is cleared after it. *)
Delete(w) == <<Step("clear", w), Step("terminate", w), Step("null", w)>>

\* Mutant of Stop: the sync thread is forgotten.
StopWithoutSync ==
    Unless(<<Step("shutting", "")>> \o Delete("net")
           \o <<Step("stopped", ""), Step("host", ""), Step("shut", "")>>)

Stop ==
    LET body == <<Step("shutting", "")>> \o Delete("net") \o Delete("sync")
                \o <<Step("stopped", ""), Step("host", ""), Step("shut", "")>>
    IN  Unless(body)

Destroy == Stop \o <<Step("wait", "")>>

(* ReadEntityUpdate, and what the raw Set reports; on_remote_add, where the
   element is built, then the callback is dispatched. *)
Receive == FindObject \o Log
ReceiveList == Under(ListManager, <<>>) \o Under("m_Mutex", <<>>) \o QueueChange

(* The connect callback of the server, and the application's own, which
   gives the new peer its player. *)
Connected(build) == Log \o Broadcast \o DoSnapshot \o Log \o Broadcast \o build

-----------------------------------------------------------------------------
Init ==
    /\ \E a \in Applications : m_bServer = a.server /\ lists = a.lists
    /\ m_bRunning = FALSE /\ m_bShuttingDown = FALSE
    /\ m_pHost = IF m_bServer THEN "null" ELSE "open"
    /\ object = [w \in Workers |-> TRUE]
    /\ status = [w \in Workers |-> FALSE]
    /\ alive = [t \in Threads |-> t = "app"]
    /\ rest = [t \in Threads |-> <<>>]
    /\ held = [l \in Locks |-> [owner |-> NoThread, depth |-> 0]]
    /\ s_TotalEntities = 0
    /\ seen = [t \in Threads |-> 0]
    /\ ids = <<>>
    /\ phase = "new"
    /\ calls = 0 /\ events = 0
    /\ late = FALSE /\ raced = FALSE

Idle(t) == alive[t] /\ rest[t] = <<>>
At(t, op) == alive[t] /\ rest[t] # <<>> /\ Head(rest[t]).op = op
On(t) == Head(rest[t]).on

Run(t, script) == rest' = [rest EXCEPT ![t] = script]
Continue(t) == Run(t, Tail(rest[t]))
Skip(t, n) == Run(t, SubSeq(rest[t], n + 2, Len(rest[t])))

(* The constructor of a client opens the host, Listen that of a server. *)
Listen ==
    /\ phase = "new" /\ Idle("app") /\ m_pHost = "null"
    /\ m_pHost' = "open"
    /\ UNCHANGED <<flags, threads, rest, held, naming, app, raced>>

(* NetSystem::Start, once there is a host. *)
Start ==
    /\ phase = "new" /\ Idle("app") /\ m_pHost = "open"
    /\ phase' = "up"
    /\ m_bRunning' = TRUE
    /\ status' = [w \in Workers |-> TRUE]
    /\ alive' = [t \in Threads |-> TRUE]
    /\ UNCHANGED <<m_bServer, m_bShuttingDown, lists, m_pHost, object, rest, held, naming>>
    /\ UNCHANGED <<calls, events, late, raced>>

(* The application's calls. *)
Call(script) ==
    /\ Idle("app") /\ calls < MaxCalls
    /\ calls' = calls + 1
    /\ Run("app", script)
    /\ UNCHANGED <<flags, m_pHost, threads, held, naming, events, raced>>

CallConnect ==
    /\ phase \in {"new", "up"} /\ ~m_bServer
    /\ Call(Connect)
    /\ late' = (late \/ phase = "up")
    /\ UNCHANGED phase

CallBuild ==
    /\ phase = "up" /\ m_bServer
    /\ \E b \in Builds : b.thread = "app" /\ Call(Build(b.manager, b.owned))
    /\ UNCHANGED <<phase, late>>

CallList ==
    /\ phase = "up"
    /\ Call(UseList) \/ ("invalidate_ents" \in lists /\ Call(InvalidateEnts))
    /\ UNCHANGED <<phase, late>>

CallReadMessage == phase = "up" /\ Call(ReadMessage) /\ UNCHANGED <<phase, late>>

CallDestroy ==
    /\ phase = "up" /\ Idle("app")
    /\ phase' = "down"
    /\ Run("app", Destroy)
    /\ UNCHANGED <<flags, m_pHost, threads, held, naming, calls, events, late, raced>>

(* After Destroy: the rest of the messages, and the end of the instances. *)
CallAfter ==
    /\ phase \in {"down", "gone"}
    /\ \/ Call(ReadMessage)
       \/ \E m \in ManagerSet : Call(DeleteManager(m, m_bServer))
    /\ phase' = "gone"
    /\ UNCHANGED late

(* The loops of the two threads.  A loop that ends, ends its thread. *)
Loop(w) ==
    /\ Idle(w)
    /\ IF status[w] /\ m_bRunning
       THEN /\ \/ w = "net" /\ Run("net", Service)
               \/ w = "sync" /\ Run("sync", Tick(m_bServer, lists))
            /\ UNCHANGED threads
       ELSE /\ status' = [status EXCEPT ![w] = FALSE]
            /\ alive' = [alive EXCEPT ![w] = FALSE]
            /\ UNCHANGED <<object, rest>>
    /\ UNCHANGED <<flags, m_pHost, held, naming, app, raced>>

-----------------------------------------------------------------------------
(* Steps of a script. *)
Lock(t) ==
    /\ At(t, "lock")
    /\ held[On(t)].owner \in {NoThread, t}
    /\ held' = [held EXCEPT ![On(t)] = [owner |-> t, depth |-> @.depth + 1]]
    /\ Continue(t)
    /\ UNCHANGED <<flags, m_pHost, threads, naming, app, raced>>

\* Mutant of Unlock: the owner is not forgotten.
UnlockKeepsOwner(t) ==
    /\ At(t, "unlock")
    /\ held' = [held EXCEPT ![On(t)].depth = @ - 1]
    /\ Continue(t)
    /\ UNCHANGED <<flags, m_pHost, threads, naming, app, raced>>

Unlock(t) ==
    /\ At(t, "unlock")
    /\ LET d == held[On(t)].depth - 1
       IN  held' = [held EXCEPT ![On(t)] =
                        [owner |-> IF d = 0 THEN NoThread ELSE t, depth |-> d]]
    /\ Continue(t)
    /\ UNCHANGED <<flags, m_pHost, threads, naming, app, raced>>

ReturnUnlessRunning(t) ==
    /\ At(t, "unless")
    /\ IF m_bRunning THEN Continue(t) ELSE Skip(t, Head(rest[t]).skip)
    /\ UNCHANGED <<flags, m_pHost, threads, held, naming, app, raced>>

LeaveOut(t) ==
    /\ At(t, "maybe")
    /\ Continue(t) \/ Skip(t, Head(rest[t]).skip)
    /\ UNCHANGED <<flags, m_pHost, threads, held, naming, app, raced>>

ReturnFromENet(t) ==
    /\ At(t, "enet") \/ At(t, "connect")
    /\ Continue(t)
    /\ UNCHANGED <<flags, m_pHost, threads, held, naming, app, raced>>

(* s_TotalEntities++ loads, then stores. *)
ReadTotal(t) ==
    /\ At(t, "read")
    /\ seen' = [seen EXCEPT ![t] = s_TotalEntities]
    /\ Continue(t)
    /\ UNCHANGED <<flags, m_pHost, threads, held, s_TotalEntities, ids, app, raced>>

IncrementTotal(t) ==
    /\ At(t, "increment")
    /\ s_TotalEntities' = seen[t] + 1
    /\ ids' = Append(ids, seen[t])
    /\ Continue(t)
    /\ UNCHANGED <<flags, m_pHost, threads, held, seen, app, raced>>

(* FireEvent and ProcessRecv of an event; none, and the thread sleeps. *)
HandleEvent ==
    /\ At("net", "event")
    /\ \/ Continue("net") /\ UNCHANGED events
       \/ /\ events < MaxEvents
          /\ events' = events + 1
          /\ \/ Run("net", Receive)
             \/ Run("net", ReceiveList)
             \/ m_bServer /\ Run("net", Connected(<<>>))
             \/ /\ m_bServer
                /\ \E b \in Builds :
                    b.thread = "net" /\ Run("net", Connected(Build(b.manager, b.owned)))
             \/ ~m_bServer /\ Run("net", Stop)
    /\ UNCHANGED <<flags, m_pHost, threads, held, naming, phase, calls, late, raced>>

(* Stop. *)
BeginShutdown(t) ==
    /\ At(t, "shutting")
    /\ m_bShuttingDown' = TRUE
    /\ Continue(t)
    /\ UNCHANGED <<m_bServer, m_bRunning, lists, m_pHost, threads, held, naming, app, raced>>

ClearStatus(t) ==
    /\ At(t, "clear")
    /\ LET w == On(t)
       IN  IF ~object[w] THEN Skip(t, 2) /\ UNCHANGED status
           ELSE IF ~status[w] THEN Skip(t, 1) /\ UNCHANGED status
           ELSE Continue(t) /\ status' = [status EXCEPT ![w] = FALSE]
    /\ raced' = (raced \/ (t = "net" /\ On(t) = "net" /\ ~status["net"]))
    /\ UNCHANGED <<flags, m_pHost, object, alive, held, naming, app>>

\* Mutant of Terminate: the thread is joined.
Join(t) ==
    /\ At(t, "terminate") /\ rest[On(t)] = <<>>
    /\ alive' = [alive EXCEPT ![On(t)] = FALSE]
    /\ Continue(t)
    /\ UNCHANGED <<flags, m_pHost, object, status, held, naming, app, raced>>

(* TerminateThread: the end of the thread, and of this call if it is its own. *)
Terminate(t) ==
    /\ At(t, "terminate")
    /\ alive' = [alive EXCEPT ![On(t)] = FALSE]
    /\ rest' = [r \in Threads |->
                  IF r = On(t) THEN <<>> ELSE IF r = t THEN Tail(rest[t]) ELSE rest[r]]
    /\ UNCHANGED <<flags, m_pHost, object, status, held, naming, app, raced>>

NullThread(t) ==
    /\ At(t, "null")
    /\ object' = [object EXCEPT ![On(t)] = FALSE]
    /\ Continue(t)
    /\ UNCHANGED <<flags, m_pHost, status, alive, held, naming, app, raced>>

ClearRunning(t) ==
    /\ At(t, "stopped")
    /\ m_bRunning' = FALSE
    /\ Continue(t)
    /\ UNCHANGED <<m_bServer, m_bShuttingDown, lists, m_pHost, threads, held, naming, app, raced>>

(* Disconnects the peers, then enet_host_destroy. *)
DestroyHost(t) ==
    /\ At(t, "host")
    /\ m_pHost' = "null"
    /\ Continue(t)
    /\ UNCHANGED <<flags, threads, held, naming, app, raced>>

EndShutdown(t) ==
    /\ At(t, "shut")
    /\ m_bShuttingDown' = FALSE
    /\ Continue(t)
    /\ UNCHANGED <<m_bServer, m_bRunning, lists, m_pHost, threads, held, naming, app, raced>>

(* Destroy waits for m_bShuttingDown. *)
AwaitShutdown ==
    /\ At("app", "wait")
    /\ ~m_bShuttingDown
    /\ Continue("app")
    /\ UNCHANGED <<flags, m_pHost, threads, held, naming, app, raced>>

Go(t) ==
    \/ Lock(t) \/ Unlock(t) \/ ReturnUnlessRunning(t) \/ LeaveOut(t) \/ ReturnFromENet(t)
    \/ ReadTotal(t) \/ IncrementTotal(t)
    \/ BeginShutdown(t) \/ ClearStatus(t) \/ Terminate(t) \/ NullThread(t)
    \/ ClearRunning(t) \/ DestroyHost(t) \/ EndShutdown(t)
    \/ (t = "net" /\ HandleEvent)
    \/ (t = "app" /\ AwaitShutdown)

(* After Destroy the application may have nothing left to call, or may wait for
   a lock that an ended thread keeps. *)
Done == (phase = "gone" \/ (phase = "down" /\ Idle("app"))) /\ UNCHANGED vars

Next ==
    \/ Listen \/ Start \/ CallConnect \/ CallBuild \/ CallList \/ CallReadMessage
    \/ CallDestroy \/ CallAfter
    \/ \E w \in Workers : Loop(w)
    \/ \E t \in Threads : Go(t)
    \/ Done

Spec == Init /\ [][Next]_vars

\* The application's thread goes on while it is in Destroy and not blocked; that
\* is all that is needed.
FairSpec == Spec /\ WF_vars(phase = "down" /\ Go("app"))

-----------------------------------------------------------------------------
\* Every variable has its type; the depth of a lock and its owner agree.
TypeOK ==
    /\ {m_bServer, m_bRunning, m_bShuttingDown, late, raced} \subseteq BOOLEAN
    /\ lists \subseteq {"NetworkUpdate", "invalidate_ents"}
    /\ m_pHost \in {"open", "null"}
    /\ {object, status} \subseteq [Workers -> BOOLEAN]
    /\ alive \in [Threads -> BOOLEAN]
    /\ \A l \in Locks : /\ held[l].owner \in Threads \cup {NoThread}
                        /\ held[l].depth \in Nat
                        /\ (held[l].depth = 0) = (held[l].owner = NoThread)
    /\ phase \in {"new", "up", "down", "gone"}

InENet(t) == At(t, "enet") \/ At(t, "connect") \/ At(t, "host")

\* ENet is not thread-safe.  Never are two threads inside it, although Stop
\* destroys the host without m_ENET_RW (NetSystem.cpp:368) and so does Connect
\* enter it (NetSystemClient.cpp:200), and no thread is inside when there is no
\* host, although threads end where they are.  Two exceptions: a client that calls
\* Connect after Start; and the application's Stop has cleared the network
\* thread's flag but not ended it yet, and the network thread is in a Stop of its
\* own: it goes on, and may clear the sync thread's flag, which then nobody ends.
ENetSafe ==
    ~raced /\ ~late => \A t \in Threads : InENet(t) =>
        /\ At(t, "enet") \/ At(t, "connect") => m_pHost = "open"
        /\ \A u \in Threads \ {t} : ~InENet(u)

\* Who waits for whom.
WaitsFor(t) == IF At(t, "lock") THEN {held[On(t)].owner} \ {t, NoThread} ELSE {}

\* No threads wait for each other in a circle, although Build holds its
\* manager's lock while it takes those of the other managers and m_ENET_RW
\* (CEntities.h:341), PostUpdate holds it while NetworkUpdate may take a list's
\* (CEntities.h:184), Flush holds a list's while it takes m_ENET_RW
\* (NetVarListBase.cpp:21) and invalidate_ents while it takes a manager's
\* (CNetVarList.h:493); as long as one thread at most builds with owners, and
\* an application that uses a list in NetworkUpdate does not call invalidate_ents.
NoCircularWait ==
    lists # {"NetworkUpdate", "invalidate_ents"} =>
        \A S \in (SUBSET Threads) \ {{}} : \E t \in S : WaitsFor(t) \cap S = {}

\* Before Destroy nobody waits for a lock that an ended thread keeps, although a
\* disconnected client's network thread ends itself while the others go on.  What
\* Stop terminates (INetworkThread.cpp:23) may hold any lock, but the application's
\* Destroy waits for none, and after it no Send does: what hangs on such a lock is
\* an application that goes on to read messages or delete managers.
NoOrphanedWait ==
    \A t \in Threads : \A u \in WaitsFor(t) : ~alive[u] =>
        IF t = "app" THEN phase = "gone" /\ On(t) # "m_ENET_RW"
                     ELSE phase \in {"down", "gone"}

\* Destroy returns, wherever the threads are that it ends, and although the
\* network thread may have begun a Stop of its own.
DestroyReturns == phase = "down" /\ rest["app"] # <<>> ~> rest["app"] = <<>>

\* IEntityManager.cpp:30 "Gets the next UID of the application."
UniqueIDs == \A i, j \in 1..Len(ids) : i # j => ids[i] # ids[j]
=============================================================================
