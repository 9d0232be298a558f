--------------------------- MODULE NetVarThreads ---------------------------
(***************************************************************************)
(* The inside of one CNetVarBase on the server, store by store.  Three     *)
(* threads meet in a variable, and nothing in it is locked:                *)
(*                                                                         *)
(*   app   Set(T), Invalidate, Lock, Unlock, and the snapshot of a Build   *)
(*   sync  the snapshot of a tick                                          *)
(*   net   the raw Set of a value a client sent, and the forced snapshot   *)
(*         of the connect callback                                         *)
(*                                                                         *)
(* GetSnapshot holds the lock of the variable's manager, so snapshots have *)
(* it to themselves; the two Sets do not take it.  A value wider than a    *)
(* machine word is stored and read word by word.  The stores of a Set are  *)
(* not ordered for the other threads (no atomic, no fence): they reach     *)
(* memory in any order, or, InOrder, in that of the program.  The two that *)
(* end a snapshot do so in any order.                                      *)
(*                                                                         *)
(* A frame leaves after the lock is released: Build and the tick broadcast *)
(* on channel 0, and a frame can be overtaken by one that was taken later. *)
(* The replica is a connected peer that does not control the object.       *)
(***************************************************************************)
EXTENDS Integers, FiniteSets

CONSTANTS
    Words,          \* the words of m_Data
    Values,         \* what a word can hold
    Zero,           \* the constructor fills m_Data with it
    NoThread,       \* the manager's lock is free
    CheckSequence,  \* m_CheckSequence of the replica's copy
    Owned,          \* the object has an owner that sends values
    InOrder,        \* the stores of a Set reach memory in program order
    MaxCalls        \* bound on Sets, Invalidates, values received and joins

Threads == {"app", "sync", "net"}
Flags == {"m_bChanged", "m_bChangeForced"}

ASSUME VarAssumption ==
    /\ Zero \in Values
    /\ NoThread \notin Threads
    /\ Words \cap Flags = {}
    /\ {CheckSequence, Owned, InOrder} \subseteq BOOLEAN
    /\ MaxCalls \in Nat

VARIABLES
    m_Data, m_bChanged, m_bChangeForced, m_iSequenceID, m_bLocked,
    lock,       \* owner of the manager's lock
    pc,         \* per thread: where it is
    todo,       \* per thread: the words and flags it has still to access
    arg,        \* per thread: the value its Set stores
    frame,      \* per thread: the frame its snapshot generates
    replica,    \* the peer's copy of the variable
    calls       \* how many so far

\* History.  last: the frame numbered last.  overlapped: a snapshot and a
\* Set have been at work at one time since the last Set that met none.
\* author: the thread of the Set that began last.  alone: no value has been
\* received and no peer has joined.  late: how many received values have been
\* stored since the last Lock.
VARIABLES last, overlapped, author, alone, late

shared == <<m_Data, m_bChanged, m_bChangeForced, m_iSequenceID>>
history == <<last, overlapped, author, alone>>
locking == <<m_bLocked, late>>
vars == <<shared, locking, lock, pc, todo, arg, frame, replica, calls, history>>

Data == [Words -> Values]
Zeros == [w \in Words |-> Zero]
Frames == [data : Data, sequence : Nat, forced : BOOLEAN]
Frame(d, s, f) == [data |-> d, sequence |-> s, forced |-> f]
NoFrame == Frame(Zeros, 0, FALSE)
PCs == {"idle", "checked", "storing", "reading", "clearing", "sending", "joining"}

Storing(t) == pc[t] = "storing"
InSnapshot(t) == pc[t] \in {"reading", "clearing"}
SomeStoring == \E t \in Threads : Storing(t)
SomeSnapshot == \E t \in Threads : InSnapshot(t)

-----------------------------------------------------------------------------
Init ==
    /\ m_Data = Zeros
    /\ m_bChanged = TRUE
    /\ m_bChangeForced = FALSE
    /\ m_iSequenceID = 0
    /\ m_bLocked = FALSE
    /\ lock = NoThread
    /\ pc = [t \in Threads |-> "idle"]
    /\ todo = [t \in Threads |-> {}]
    /\ arg = [t \in Threads |-> Zeros]
    /\ frame = [t \in Threads |-> NoFrame]
    /\ replica = [data |-> Zeros, sequence |-> 0]
    /\ calls = 0
    /\ last = NoFrame
    /\ overlapped = FALSE
    /\ author = NoThread
    /\ alone = TRUE
    /\ late = 0

Call ==
    /\ calls < MaxCalls
    /\ calls' = calls + 1

(* A Set, from its guard on, has these stores before it. *)
BeginStores(t, stores, d) ==
    /\ pc' = [pc EXCEPT ![t] = "storing"]
    /\ todo' = [todo EXCEPT ![t] = stores]
    /\ arg' = [arg EXCEPT ![t] = d]
    /\ overlapped' = SomeSnapshot
    /\ author' = t
    /\ UNCHANGED <<locking, lock, frame, replica, last>>

\* Mutant of Set: m_bChangeForced is not raised.
SetUnforced(d) ==
    /\ pc["app"] = "idle" /\ Call
    /\ d # m_Data
    /\ BeginStores("app", Words \cup {"m_bChanged"}, d)
    /\ UNCHANGED <<shared, alone>>

(* Set(T): SetGuard compares m_Data with the value and gives up when they
   are equal; otherwise both flags are raised and the value is stored.  Set
   raises m_bChangeForced once more at its end, which only a snapshot that
   overlaps it can tell. *)
Set(d) ==
    /\ pc["app"] = "idle" /\ Call
    /\ IF d = m_Data
       THEN UNCHANGED <<shared, locking, lock, pc, todo, arg, frame, replica, history>>
       ELSE /\ BeginStores("app", Words \cup Flags, d)
            /\ UNCHANGED <<shared, alone>>

Invalidate ==
    /\ pc["app"] = "idle" /\ Call
    /\ BeginStores("app", Flags, m_Data)
    /\ UNCHANGED <<shared, alone>>

\* CNetVarBase::Lock and Unlock.
Lock ==
    /\ pc["app"] = "idle"
    /\ m_bLocked' = TRUE
    /\ late' = 0
    /\ UNCHANGED <<shared, lock, pc, todo, arg, frame, replica, calls, history>>

Unlock ==
    /\ pc["app"] = "idle"
    /\ m_bLocked' = FALSE
    /\ UNCHANGED <<shared, lock, pc, todo, arg, frame, replica, calls, history, late>>

\* Mutant of Receive: the raw Set does not look at m_bLocked.
ReceiveUnchecked(d, sequence) ==
    /\ Owned /\ pc["net"] = "idle" /\ Call
    /\ alone' = FALSE
    /\ m_iSequenceID' = sequence
    /\ pc' = [pc EXCEPT !["net"] = "checked"]
    /\ arg' = [arg EXCEPT !["net"] = d]
    /\ UNCHANGED <<m_Data, m_bChanged, m_bChangeForced, locking, lock, todo, frame, replica>>
    /\ UNCHANGED <<last, overlapped, author>>

(* ReadEntityUpdate of a frame of the owner: SetSequence, then the raw Set,
   which returns if m_bLocked is set. *)
Receive(d, sequence) ==
    /\ Owned /\ pc["net"] = "idle" /\ Call
    /\ alone' = FALSE
    /\ m_iSequenceID' = sequence
    /\ IF m_bLocked THEN UNCHANGED <<pc, arg>>
       ELSE /\ pc' = [pc EXCEPT !["net"] = "checked"]
            /\ arg' = [arg EXCEPT !["net"] = d]
    /\ UNCHANGED <<m_Data, m_bChanged, m_bChangeForced, locking, lock, todo, frame, replica>>
    /\ UNCHANGED <<last, overlapped, author>>

(* Past the check, the raw Set stores the words and then raises m_bChanged
   only. *)
RawSet ==
    /\ pc["net"] = "checked"
    /\ BeginStores("net", Words \cup {"m_bChanged"}, arg["net"])
    /\ UNCHANGED <<shared, calls, alone>>

(* Set(T) raises its flags first, the raw Set last. *)
InTurn(t, x) ==
    IF t = "app" THEN x \in Words => todo[t] \subseteq Words
    ELSE x \in Flags => todo[t] \subseteq Flags

(* One store of a Set reaches memory. *)
Store(t, x) ==
    /\ Storing(t) /\ x \in todo[t]
    /\ InOrder => InTurn(t, x)
    /\ todo' = [todo EXCEPT ![t] = @ \ {x}]
    /\ IF todo[t] = {x}
       THEN pc' = [pc EXCEPT ![t] = "idle"] /\ arg' = [arg EXCEPT ![t] = Zeros]
       ELSE UNCHANGED <<pc, arg>>
    /\ m_Data' = IF x \in Words THEN [m_Data EXCEPT ![x] = arg[t][x]] ELSE m_Data
    /\ m_bChanged' = (m_bChanged \/ x = "m_bChanged")
    /\ m_bChangeForced' = (m_bChangeForced \/ x = "m_bChangeForced")
    /\ late' = IF t = "net" /\ m_bLocked /\ todo[t] = {x} THEN late + 1 ELSE late
    /\ UNCHANGED <<m_iSequenceID, m_bLocked, lock, frame, replica, calls, history>>

-----------------------------------------------------------------------------
(* GetSnapshot takes the manager's lock; TakeVariableSnapshot returns at
   once if there is no change to send. *)
BeginSnapshot(t, bForced) ==
    /\ pc[t] = "idle" /\ lock = NoThread
    /\ bForced \/ m_bChanged
    /\ lock' = t
    /\ pc' = [pc EXCEPT ![t] = "reading"]
    /\ todo' = [todo EXCEPT ![t] = Words]
    /\ frame' = [frame EXCEPT ![t] = Frame(Zeros, 0, bForced)]
    /\ overlapped' = (overlapped \/ SomeStoring)
    /\ UNCHANGED <<shared, locking, arg, replica, last, author>>

SkipSnapshot(t) ==
    /\ pc[t] = "idle" /\ lock = NoThread
    /\ ~m_bChanged
    /\ UNCHANGED vars

TickSnapshot ==
    \/ BeginSnapshot("sync", FALSE) /\ UNCHANGED <<calls, alone>>
    \/ SkipSnapshot("sync")

BuildSnapshot ==
    \/ BeginSnapshot("app", FALSE) /\ UNCHANGED <<calls, alone>>
    \/ SkipSnapshot("app")

JoinSnapshot ==
    /\ Call
    /\ alone' = FALSE
    /\ BeginSnapshot("net", TRUE)

ReadWord(t, w) ==
    /\ pc[t] = "reading" /\ w \in todo[t]
    /\ todo' = [todo EXCEPT ![t] = @ \ {w}]
    /\ frame' = [frame EXCEPT ![t] =
                   Frame([@.data EXCEPT ![w] = m_Data[w]], @.sequence, @.forced)]
    /\ UNCHANGED <<shared, locking, lock, pc, arg, replica, calls, history>>

\* Mutant of NumberFrame: the number is counted down.
NumberDown(t) ==
    /\ pc[t] = "reading" /\ todo[t] = {}
    /\ m_iSequenceID' = m_iSequenceID - 1
    /\ last' = Frame(frame[t].data, m_iSequenceID', frame[t].forced \/ m_bChangeForced)
    /\ frame' = [frame EXCEPT ![t] = last']
    /\ pc' = [pc EXCEPT ![t] = "clearing"]
    /\ todo' = [todo EXCEPT ![t] = Flags]
    /\ UNCHANGED <<m_Data, m_bChanged, m_bChangeForced, locking, lock, arg, replica, calls>>
    /\ UNCHANGED <<overlapped, author, alone>>

(* set_sequence(++ m_iSequenceID), set_forced, write. *)
NumberFrame(t) ==
    /\ pc[t] = "reading" /\ todo[t] = {}
    /\ m_iSequenceID' = m_iSequenceID + 1
    /\ last' = Frame(frame[t].data, m_iSequenceID', frame[t].forced \/ m_bChangeForced)
    /\ frame' = [frame EXCEPT ![t] = last']
    /\ pc' = [pc EXCEPT ![t] = "clearing"]
    /\ todo' = [todo EXCEPT ![t] = Flags]
    /\ UNCHANGED <<m_Data, m_bChanged, m_bChangeForced, locking, lock, arg, replica, calls>>
    /\ UNCHANGED <<overlapped, author, alone>>

ClearFlag(t, x) ==
    /\ pc[t] = "clearing" /\ x \in todo[t]
    /\ todo' = [todo EXCEPT ![t] = @ \ {x}]
    /\ m_bChanged' = (m_bChanged /\ x # "m_bChanged")
    /\ m_bChangeForced' = (m_bChangeForced /\ x # "m_bChangeForced")
    /\ UNCHANGED <<m_Data, m_iSequenceID, locking, lock, pc, arg, frame, replica, calls, history>>

(* safe_unlock; the frame goes to all peers, or to the one that connects. *)
EndSnapshot(t) ==
    /\ pc[t] = "clearing" /\ todo[t] = {}
    /\ lock' = NoThread
    /\ pc' = [pc EXCEPT ![t] = IF t = "net" THEN "joining" ELSE "sending"]
    /\ UNCHANGED <<shared, locking, todo, arg, frame, replica, calls, history>>

\* Mutant of Apply: CheckSequence takes every number.
ApplyAny(f) == [data |-> f.data, sequence |-> f.sequence]

(* ReadEntityUpdate of the replica. *)
Apply(f) ==
    IF CheckSequence => replica.sequence <= f.sequence
    THEN [data |-> f.data, sequence |-> f.sequence]
    ELSE replica

Send(t) ==
    /\ pc[t] \in {"sending", "joining"}
    /\ pc' = [pc EXCEPT ![t] = "idle"]
    /\ replica' = IF pc[t] = "sending" THEN Apply(frame[t]) ELSE replica
    /\ frame' = [frame EXCEPT ![t] = NoFrame]
    /\ UNCHANGED <<shared, locking, lock, todo, arg, calls, history>>

-----------------------------------------------------------------------------
Uniform(v) == [w \in Words |-> v]

Work(t) ==
    \/ \E x \in Words \cup Flags : Store(t, x) \/ ClearFlag(t, x)
    \/ \E w \in Words : ReadWord(t, w)
    \/ NumberFrame(t)
    \/ EndSnapshot(t)
    \/ Send(t)

Next ==
    \/ \E v \in Values : Set(Uniform(v))
    \/ Invalidate \/ Lock \/ Unlock
    \/ RawSet
    \/ \E v \in Values, s \in 0..1 : Receive(Uniform(v), s)
    \/ TickSnapshot
    \/ BuildSnapshot
    \/ JoinSnapshot
    \/ \E t \in Threads : Work(t)

Spec == Init /\ [][Next]_vars

-----------------------------------------------------------------------------
\* Every variable has its type.
TypeOK ==
    /\ m_Data \in Data
    /\ m_bChanged \in BOOLEAN /\ m_bChangeForced \in BOOLEAN
    /\ overlapped \in BOOLEAN /\ alone \in BOOLEAN
    /\ m_iSequenceID \in Nat
    /\ lock \in Threads \cup {NoThread}
    /\ author \in {"app", "net", NoThread}
    /\ pc \in [Threads -> PCs]
    /\ todo \in [Threads -> SUBSET (Words \cup Flags)]
    /\ arg \in [Threads -> Data]
    /\ frame \in [Threads -> Frames]
    /\ last \in Frames
    /\ replica \in [data : Data, sequence : Nat]
    /\ calls \in Nat
    /\ m_bLocked \in BOOLEAN /\ late \in Nat

\* CNetVarBase.h:109-181 only loses a change to a snapshot that was at work
\* while a Set was.  Otherwise, once the Sets have returned, either the
\* variable is still flagged, or the last frame carries its value; and if
\* the application wrote last, the flag that makes the owner accept the
\* value was kept, or sent, with it.
ChangeKept ==
    ~SomeStoring /\ ~SomeSnapshot /\ ~overlapped =>
        /\ m_bChanged \/ last.data = m_Data
        /\ author = "app" => \/ m_bChanged /\ m_bChangeForced
                             \/ last.data = m_Data /\ last.forced

\* Lock "Prevents any remote changes" (README.md:35), but one: the raw Set looks
\* at m_bLocked (CNetVarBase.h:136) before it stores, so the value that is
\* past the check when the application locks still lands.  No second one does.
LockStopsAllButOne == m_bLocked => late <= 1

\* What README.md:14 promises ("The NetVar classes are thread-safe"): when
\* all calls have returned and nothing is flagged, what was set was sent.
ChangeSent ==
    ~SomeStoring /\ ~SomeSnapshot /\ ~m_bChanged => last.data = m_Data

\* The manager's lock numbers the frames in the order in which their values
\* were read, so that a peer that checks sequence numbers ends with the
\* variable's value although Build and the tick send when they please.
ReplicaConverges ==
    /\ \A t \in Threads : pc[t] = "idle"
    /\ ~overlapped /\ ~m_bChanged /\ alone
    => replica.data = m_Data
=============================================================================
