------------------------- MODULE NetVarThreadsProofs ------------------------
(***************************************************************************)
(* A change of a NetVar is kept until a frame carries it, unless a         *)
(* snapshot and a Set were at work at one time: for any number of words,   *)
(* any values and any number of calls.                                     *)
(***************************************************************************)
EXTENDS NetVarThreads, TLAPS

USE DEF locking

\* A snapshot has the manager's lock.
Locked == \A t \in Threads : InSnapshot(t) => lock = t

\* While no Set and snapshot overlap: a Set raises its flag or has still to, a
\* snapshot has read what is there, and otherwise the change is flagged or sent.
Apart == ~(SomeStoring /\ SomeSnapshot)
FlagRaised ==
    SomeStoring => m_bChanged \/ \E t \in Threads : Storing(t) /\ "m_bChanged" \in todo[t]
WordsRead ==
    \A t \in Threads : pc[t] = "reading" =>
        \A w \in Words \ todo[t] : frame[t].data[w] = m_Data[w]
FrameSent ==
    \A t \in Threads : pc[t] = "clearing" =>
        last.data = m_Data /\ ("m_bChanged" \notin todo[t] => ~m_bChanged)
FlaggedOrSent == ~SomeStoring => m_bChanged \/ last.data = m_Data

\* The same for the flag that makes the owner accept the application's value.
ForceRaised ==
    SomeStoring => m_bChangeForced \/ (Storing("app") /\ "m_bChangeForced" \in todo["app"])
ForceRead == \A t \in Threads : pc[t] = "reading" => m_bChangeForced \/ frame[t].forced
ForceSent == \A t \in Threads : pc[t] = "clearing" => last.forced
ForcedOrSent ==
    ~SomeStoring /\ ~SomeSnapshot =>
        \/ m_bChanged /\ m_bChangeForced
        \/ ~m_bChanged /\ last.data = m_Data /\ last.forced

Kept == Apart /\ FlagRaised /\ WordsRead /\ FrameSent /\ FlaggedOrSent
KeptForced == ForceRaised /\ ForceRead /\ ForceSent /\ ForcedOrSent

KeptInv ==
    /\ TypeOK
    /\ Locked
    /\ ~overlapped => Kept /\ (author = "app" => KeptForced)

-----------------------------------------------------------------------------
(* Types.                                                                   *)

LEMMA Frames3 ==
    ASSUME NEW d \in Data, NEW s \in Nat, NEW f \in BOOLEAN
    PROVE  /\ Frame(d, s, f) \in Frames
           /\ Frame(d, s, f).data = d /\ Frame(d, s, f).sequence = s
           /\ Frame(d, s, f).forced = f
BY DEF Frame, Frames

LEMMA FrameParts ==
    ASSUME NEW f \in Frames
    PROVE  f.data \in Data /\ f.sequence \in Nat /\ f.forced \in BOOLEAN
BY DEF Frames

LEMMA ZerosType == Zeros \in Data /\ NoFrame \in Frames
<1>1. Zeros \in Data
  BY VarAssumption DEF Zeros, Data
<1> QED
  BY <1>1, Frames3 DEF NoFrame

LEMMA InitType == Init => TypeOK
<1> SUFFICES ASSUME Init PROVE TypeOK
  OBVIOUS
<1>1. replica \in [data : Data, sequence : Nat]
  BY ZerosType DEF Init
<1>2. pc \in [Threads -> PCs] /\ todo \in [Threads -> SUBSET (Words \cup Flags)]
  BY DEF Init, PCs
<1>3. arg \in [Threads -> Data] /\ frame \in [Threads -> Frames]
  BY ZerosType DEF Init
<1> QED
  BY <1>1, <1>2, <1>3, ZerosType DEF Init, TypeOK

\* A Set, an Invalidate and a received value begin alike.
LEMMA BeginStoresType ==
    ASSUME TypeOK, NEW t \in {"app", "net"}, NEW stores \in SUBSET (Words \cup Flags),
           NEW d \in Data, BeginStores(t, stores, d), calls' \in Nat,
           m_Data' = m_Data, m_bChanged' = m_bChanged, m_bChangeForced' = m_bChangeForced,
           m_iSequenceID' \in Nat, alone' \in BOOLEAN
    PROVE  TypeOK'
<1>1. pc' \in [Threads -> PCs] /\ todo' \in [Threads -> SUBSET (Words \cup Flags)]
      /\ arg' \in [Threads -> Data]
  BY DEF TypeOK, BeginStores, Threads, PCs
<1>2. overlapped' \in BOOLEAN /\ author' \in {"app", "net", NoThread}
  BY DEF BeginStores, SomeSnapshot
<1> QED
  BY <1>1, <1>2 DEF TypeOK, BeginStores

LEMMA UniformType == ASSUME NEW v \in Values PROVE Uniform(v) \in Data
BY DEF Uniform, Data

LEMMA CallsType ==
    TypeOK /\ ((\E v \in Values : Set(Uniform(v))) \/ Invalidate \/ RawSet
               \/ \E v \in Values, s \in 0..1 : Receive(Uniform(v), s)) => TypeOK'
<1> SUFFICES ASSUME TypeOK PROVE
        /\ \A v \in Values : Set(Uniform(v)) => TypeOK'
        /\ Invalidate => TypeOK'
        /\ RawSet => TypeOK'
        /\ \A v \in Values, s \in 0..1 : Receive(Uniform(v), s) => TypeOK'
  OBVIOUS
<1>1. ASSUME NEW v \in Values, Set(Uniform(v)) PROVE TypeOK'
  <2>1. CASE Uniform(v) = m_Data
    BY <1>1, <2>1 DEF TypeOK, Set, Call, shared, history
  <2>2. CASE Uniform(v) # m_Data
    <3>1. /\ BeginStores("app", Words \cup Flags, Uniform(v)) /\ Call
          /\ UNCHANGED <<shared, alone>>
      BY <1>1, <2>2 DEF Set
    <3>2. /\ m_Data' = m_Data /\ m_bChanged' = m_bChanged
          /\ m_bChangeForced' = m_bChangeForced
          /\ m_iSequenceID' \in Nat /\ alone' \in BOOLEAN /\ calls' \in Nat
      BY <3>1 DEF shared, TypeOK, Call
    <3>3. Words \cup Flags \in SUBSET (Words \cup Flags) /\ "app" \in {"app", "net"}
      OBVIOUS
    <3>4. Uniform(v) \in Data
      BY UniformType
    <3> HIDE DEF TypeOK
    <3> QED
      BY <3>1, <3>2, <3>3, <3>4, BeginStoresType
  <2> QED
    BY <2>1, <2>2
<1>2. ASSUME Invalidate PROVE TypeOK'
  <2>1. /\ BeginStores("app", Flags, m_Data)
        /\ m_Data' = m_Data /\ m_bChanged' = m_bChanged
        /\ m_bChangeForced' = m_bChangeForced
        /\ m_iSequenceID' \in Nat /\ alone' \in BOOLEAN /\ calls' \in Nat
    BY <1>2 DEF Invalidate, Call, TypeOK, shared
  <2>2. Flags \in SUBSET (Words \cup Flags) /\ m_Data \in Data
    BY DEF TypeOK
  <2> HIDE DEF TypeOK
  <2> QED
    BY <2>1, <2>2, BeginStoresType
<1>3. ASSUME NEW v \in Values, NEW s \in 0..1, Receive(Uniform(v), s) PROVE TypeOK'
  <2>1. pc' \in [Threads -> PCs] /\ arg' \in [Threads -> Data]
    BY <1>3, UniformType DEF Receive, TypeOK, PCs
  <2>2. m_iSequenceID' \in Nat /\ calls' \in Nat
    BY <1>3 DEF Receive, Call, TypeOK
  <2>3. alone' \in BOOLEAN
    BY <1>3, Zenon DEF Receive
  <2> QED
    BY <1>3, <2>1, <2>2, <2>3 DEF Receive, TypeOK
<1>4. ASSUME RawSet PROVE TypeOK'
  <2>1. /\ BeginStores("net", Words \cup {"m_bChanged"}, arg["net"])
        /\ m_Data' = m_Data /\ m_bChanged' = m_bChanged
        /\ m_bChangeForced' = m_bChangeForced
        /\ m_iSequenceID' \in Nat /\ alone' \in BOOLEAN /\ calls' \in Nat
    BY <1>4 DEF RawSet, TypeOK, shared
  <2>2. Words \cup {"m_bChanged"} \in SUBSET (Words \cup Flags)
    BY DEF Flags
  <2>3. arg["net"] \in Data
    BY DEF TypeOK, Threads
  <2> HIDE DEF TypeOK
  <2> QED
    BY <2>1, <2>2, <2>3, BeginStoresType
<1> QED
  BY <1>1, <1>2, <1>3, <1>4

LEMMA LocksType == TypeOK /\ (Lock \/ Unlock) => TypeOK'
<1> SUFFICES ASSUME TypeOK, Lock \/ Unlock PROVE TypeOK'
  OBVIOUS
<1>1. m_bLocked' \in BOOLEAN
  BY Zenon DEF Lock, Unlock
<1>2. late' \in Nat
  BY DEF Lock, Unlock, TypeOK
<1> QED
  BY <1>1, <1>2 DEF Lock, Unlock, TypeOK, shared, history

LEMMA StoreType ==
    ASSUME TypeOK, NEW t \in Threads, NEW x \in Words \cup Flags, Store(t, x)
    PROVE  TypeOK'
<1>1. pc' \in [Threads -> PCs] /\ todo' \in [Threads -> SUBSET (Words \cup Flags)]
      /\ arg' \in [Threads -> Data]
  BY ZerosType DEF TypeOK, Store, PCs
<1>2. m_Data' \in Data
  <2>1. CASE x \in Words
    BY <2>1 DEF TypeOK, Store, Data
  <2>2. CASE x \notin Words
    BY <2>2 DEF TypeOK, Store
  <2> QED
    BY <2>1, <2>2
<1>3. m_bChanged' \in BOOLEAN /\ m_bChangeForced' \in BOOLEAN
  BY DEF Store
<1>4. late' \in Nat
  BY DEF Store, TypeOK
<1> QED
  BY <1>1, <1>2, <1>3, <1>4 DEF TypeOK, Store, history

LEMMA BeginSnapshotType ==
    ASSUME TypeOK, NEW t \in Threads, NEW f \in BOOLEAN, BeginSnapshot(t, f),
           calls' \in Nat, alone' \in BOOLEAN
    PROVE  TypeOK'
<1>1. pc' \in [Threads -> PCs] /\ todo' \in [Threads -> SUBSET (Words \cup Flags)]
  BY DEF TypeOK, BeginSnapshot, PCs
<1>2. frame' \in [Threads -> Frames]
  BY ZerosType, Frames3 DEF TypeOK, BeginSnapshot
<1>3. overlapped' \in BOOLEAN
  BY DEF BeginSnapshot
<1> QED
  BY <1>1, <1>2, <1>3 DEF TypeOK, BeginSnapshot, shared

LEMMA SnapshotsType == TypeOK /\ (TickSnapshot \/ BuildSnapshot \/ JoinSnapshot) => TypeOK'
<1> SUFFICES ASSUME TypeOK, TickSnapshot \/ BuildSnapshot \/ JoinSnapshot PROVE TypeOK'
  OBVIOUS
<1>1. CASE SkipSnapshot("sync") \/ SkipSnapshot("app")
  BY <1>1 DEF SkipSnapshot, TypeOK, vars, shared, history
<1>2. CASE \E t \in {"sync", "app"} : BeginSnapshot(t, FALSE) /\ UNCHANGED <<calls, alone>>
  <2>1. calls' \in Nat /\ alone' \in BOOLEAN
    BY <1>2 DEF TypeOK
  <2> QED
    BY <1>2, <2>1, BeginSnapshotType DEF Threads
<1>3. CASE JoinSnapshot
  <2>1. calls' \in Nat
    BY <1>3 DEF TypeOK, JoinSnapshot, Call
  <2>2. alone' \in BOOLEAN
    BY <1>3 DEF JoinSnapshot
  <2> QED
    BY <1>3, <2>1, <2>2, BeginSnapshotType DEF Threads, JoinSnapshot
<1> QED
  BY <1>1, <1>2, <1>3 DEF TickSnapshot, BuildSnapshot

LEMMA ReadWordType ==
    ASSUME TypeOK, NEW t \in Threads, NEW w \in Words, ReadWord(t, w)
    PROVE  TypeOK'
<1>1. frame[t].data \in Data /\ frame[t].sequence \in Nat /\ frame[t].forced \in BOOLEAN
  BY FrameParts DEF TypeOK
<1>2. [frame[t].data EXCEPT ![w] = m_Data[w]] \in Data
  BY <1>1 DEF TypeOK, Data
<1>3. frame' \in [Threads -> Frames]
  BY <1>1, <1>2, Frames3 DEF TypeOK, ReadWord
<1> QED
  BY <1>3 DEF TypeOK, ReadWord, shared, history

LEMMA NumberFrameType ==
    ASSUME TypeOK, NEW t \in Threads, NumberFrame(t)
    PROVE  TypeOK'
<1>1. frame[t].data \in Data
  BY FrameParts DEF TypeOK
<1>2. m_iSequenceID' \in Nat
  BY DEF TypeOK, NumberFrame
<1>3. last' \in Frames
  <2>1. (frame[t].forced \/ m_bChangeForced) \in BOOLEAN
    OBVIOUS
  <2> QED
    BY <1>1, <1>2, <2>1, Frames3 DEF NumberFrame
<1>4. frame' \in [Threads -> Frames]
  BY <1>3 DEF TypeOK, NumberFrame
<1>5. pc' \in [Threads -> PCs] /\ todo' \in [Threads -> SUBSET (Words \cup Flags)]
  BY DEF TypeOK, NumberFrame, PCs
<1> QED
  BY <1>2, <1>3, <1>4, <1>5 DEF TypeOK, NumberFrame

LEMMA ClearFlagType ==
    ASSUME TypeOK, NEW t \in Threads, NEW x \in Words \cup Flags, ClearFlag(t, x)
    PROVE  TypeOK'
<1>1. m_bChanged' \in BOOLEAN /\ m_bChangeForced' \in BOOLEAN
  BY DEF ClearFlag
<1> QED
  BY <1>1 DEF TypeOK, ClearFlag, history

LEMMA EndSnapshotType ==
    ASSUME TypeOK, NEW t \in Threads, EndSnapshot(t)
    PROVE  TypeOK'
BY DEF TypeOK, EndSnapshot, PCs, shared, history

LEMMA SendType ==
    ASSUME TypeOK, NEW t \in Threads, Send(t)
    PROVE  TypeOK'
<1>1. Apply(frame[t]) \in [data : Data, sequence : Nat]
  BY FrameParts DEF TypeOK, Apply
<1>2. frame' \in [Threads -> Frames]
  BY ZerosType DEF TypeOK, Send
<1>3. pc' \in [Threads -> PCs]
  BY DEF TypeOK, Send, PCs
<1>4. replica' \in [data : Data, sequence : Nat]
  BY <1>1 DEF TypeOK, Send
<1> QED
  BY <1>2, <1>3, <1>4 DEF TypeOK, Send, shared, history

LEMMA NextType == TypeOK /\ [Next]_vars => TypeOK'
<1> SUFFICES ASSUME TypeOK, [Next]_vars PROVE TypeOK'
  OBVIOUS
<1>1. CASE \E t \in Threads : Work(t)
  BY <1>1, StoreType, ClearFlagType, ReadWordType, NumberFrameType, EndSnapshotType, SendType
  DEF Work
<1>2. CASE UNCHANGED vars
  BY <1>2 DEF TypeOK, vars, shared, history
<1> QED
  BY <1>1, <1>2, CallsType, LocksType, SnapshotsType DEF Next

\* Every variable has its type; m_iSequenceID never falls below 0
\* (CNetVarBase.h:122).
THEOREM TypeCorrect == Spec => []TypeOK
  BY InitType, NextType, PTL DEF Spec

-----------------------------------------------------------------------------
(* What a change leaves behind.                                             *)

Rest == Locked /\ (~overlapped => Kept /\ (author = "app" => KeptForced))

LEMMA InitKept == Init => KeptInv
<1> SUFFICES ASSUME Init PROVE KeptInv
  OBVIOUS
<1>1. TypeOK
  BY InitType
<1>2. /\ \A t \in Threads : pc[t] = "idle"
      /\ m_bChanged /\ author = NoThread
  BY DEF Init
<1>3. Locked /\ Kept
  BY <1>2 DEF Locked, Kept, Apart, FlagRaised, WordsRead, FrameSent, FlaggedOrSent,
              Storing, InSnapshot, SomeStoring, SomeSnapshot
<1>4. author # "app"
  BY <1>2, VarAssumption DEF Threads
<1> QED
  BY <1>1, <1>3, <1>4 DEF KeptInv

\* A Set that begins: a flag is among the stores it has still to make.
LEMMA BeginStoresKept ==
    ASSUME KeptInv, NEW t \in {"app", "net"}, NEW stores \in SUBSET (Words \cup Flags),
           NEW d \in Data, BeginStores(t, stores, d), pc[t] \in {"idle", "checked"},
           "m_bChanged" \in stores, t = "app" => "m_bChangeForced" \in stores
    PROVE  Rest'
<1>1. /\ pc' = [pc EXCEPT ![t] = "storing"] /\ todo' = [todo EXCEPT ![t] = stores]
      /\ lock' = lock /\ overlapped' = SomeSnapshot /\ author' = t
  BY DEF BeginStores
<1>2. pc \in [Threads -> PCs] /\ todo \in [Threads -> SUBSET (Words \cup Flags)] /\ t \in Threads
  BY DEF KeptInv, TypeOK, Threads
<1>3. \A u \in Threads : InSnapshot(u)' <=> InSnapshot(u)
  BY <1>1, <1>2 DEF InSnapshot
<1>4. Locked'
  BY <1>1, <1>3 DEF KeptInv, Locked
<1>5. SUFFICES ASSUME ~SomeSnapshot PROVE Kept' /\ (t = "app" => KeptForced')
  BY <1>1, <1>4 DEF Rest
<1>6. Storing(t)' /\ todo'[t] = stores
  BY <1>1, <1>2 DEF Storing
<1>7. SomeStoring' /\ ~SomeSnapshot'
  BY <1>2, <1>3, <1>5, <1>6 DEF SomeStoring, SomeSnapshot
<1>8. \A u \in Threads : pc'[u] # "reading" /\ pc'[u] # "clearing"
  BY <1>7 DEF SomeSnapshot, InSnapshot
<1>9. Kept'
  BY <1>2, <1>6, <1>7, <1>8 DEF Kept, Apart, FlagRaised, WordsRead, FrameSent, FlaggedOrSent
<1>10. t = "app" => KeptForced'
  BY <1>6, <1>7, <1>8 DEF KeptForced, ForceRaised, ForceRead, ForceSent, ForcedOrSent
<1> QED
  BY <1>9, <1>10

LEMMA UnchangedKept ==
    ASSUME KeptInv,
           UNCHANGED <<m_Data, m_bChanged, m_bChangeForced, lock, pc, todo, frame, last,
                       overlapped, author>>
    PROVE  Rest'
BY DEF KeptInv, Rest, Locked, Kept, KeptForced, Apart, FlagRaised, WordsRead, FrameSent,
       FlaggedOrSent, ForceRaised, ForceRead, ForceSent, ForcedOrSent, Storing, InSnapshot,
       SomeStoring, SomeSnapshot

LEMMA CallsKept ==
    KeptInv /\ ((\E v \in Values : Set(Uniform(v))) \/ Invalidate \/ RawSet
                \/ \E v \in Values, s \in 0..1 : Receive(Uniform(v), s)) => Rest'
<1> SUFFICES ASSUME KeptInv PROVE
        /\ \A v \in Values : Set(Uniform(v)) => Rest'
        /\ Invalidate => Rest'
        /\ RawSet => Rest'
        /\ \A v \in Values, s \in 0..1 : Receive(Uniform(v), s) => Rest'
  OBVIOUS
<1> Flags = {"m_bChanged", "m_bChangeForced"}
  BY DEF Flags
<1>1. ASSUME NEW v \in Values, Set(Uniform(v)) PROVE Rest'
  <2>0. Uniform(v) \in Data
    BY UniformType
  <2>1. CASE Uniform(v) = m_Data
    BY <1>1, <2>1, UnchangedKept DEF Set, shared, history
  <2>2. CASE Uniform(v) # m_Data
    <3>1. BeginStores("app", Words \cup Flags, Uniform(v)) /\ pc["app"] = "idle"
      BY <1>1, <2>2 DEF Set
    <3> QED
      BY <2>0, <3>1, BeginStoresKept
  <2> QED
    BY <2>1, <2>2
<1>2. ASSUME Invalidate PROVE Rest'
  <2>1. BeginStores("app", Flags, m_Data) /\ pc["app"] = "idle" /\ m_Data \in Data
    BY <1>2 DEF Invalidate, KeptInv, TypeOK
  <2> QED
    BY <2>1, BeginStoresKept
<1>3. ASSUME NEW v \in Values, NEW s \in 0..1, Receive(Uniform(v), s) PROVE Rest'
  <2>1. \A u \in Threads : /\ Storing(u)' <=> Storing(u)
                           /\ InSnapshot(u)' <=> InSnapshot(u)
                           /\ pc'[u] = "reading" <=> pc[u] = "reading"
                           /\ pc'[u] = "clearing" <=> pc[u] = "clearing"
    BY <1>3 DEF Receive, Storing, InSnapshot, KeptInv, TypeOK
  <2>2. (SomeStoring' <=> SomeStoring) /\ (SomeSnapshot' <=> SomeSnapshot)
    BY <2>1 DEF SomeStoring, SomeSnapshot
  <2>3. UNCHANGED <<m_Data, m_bChanged, m_bChangeForced, lock, todo, frame, last, overlapped, author>>
    BY <1>3 DEF Receive
  <2>4. Locked'
    BY <2>1, <2>3 DEF KeptInv, Locked
  <2>5. ASSUME Kept PROVE Kept'
    BY <2>1, <2>2, <2>3, <2>5 DEF Kept, Apart, FlagRaised, WordsRead, FrameSent, FlaggedOrSent
  <2>6. ASSUME KeptForced PROVE KeptForced'
    <3>1. Storing("app")' <=> Storing("app")
      BY <2>1 DEF Threads
    <3> QED
      BY <2>1, <2>2, <2>3, <2>6, <3>1
      DEF KeptForced, ForceRaised, ForceRead, ForceSent, ForcedOrSent
  <2> QED
    BY <2>3, <2>4, <2>5, <2>6 DEF KeptInv, Rest
<1>4. ASSUME RawSet PROVE Rest'
  <2>1. /\ BeginStores("net", Words \cup {"m_bChanged"}, arg["net"])
        /\ pc["net"] = "checked" /\ arg["net"] \in Data
    BY <1>4 DEF RawSet, KeptInv, TypeOK, Threads
  <2> QED
    BY <2>1, BeginStoresKept
<1> QED
  BY <1>1, <1>2, <1>3, <1>4

\* A store of a Set: its flag is raised before it is forgotten.
LEMMA StoreKept ==
    ASSUME KeptInv, NEW t \in Threads, NEW x \in Words \cup Flags, Store(t, x)
    PROVE  Rest'
<1>1. /\ Storing(t) /\ x \in todo[t]
      /\ pc \in [Threads -> PCs] /\ todo \in [Threads -> SUBSET (Words \cup Flags)]
      /\ todo' = [todo EXCEPT ![t] = @ \ {x}]
      /\ pc' = pc \/ (todo[t] = {x} /\ pc' = [pc EXCEPT ![t] = "idle"])
      /\ lock' = lock /\ overlapped' = overlapped /\ author' = author
  BY DEF Store, history, KeptInv, TypeOK
<1>2. /\ m_bChanged' <=> (m_bChanged \/ x = "m_bChanged")
      /\ m_bChangeForced' <=> (m_bChangeForced \/ x = "m_bChangeForced")
  BY DEF Store
<1>3. \A u \in Threads : InSnapshot(u)' <=> InSnapshot(u)
  BY <1>1 DEF InSnapshot, Storing
<1>4. Locked'
  BY <1>1, <1>3 DEF KeptInv, Locked
<1>5. SUFFICES ASSUME ~overlapped PROVE Kept' /\ (author = "app" => KeptForced')
  BY <1>1, <1>4 DEF Rest
<1>6. SomeStoring /\ Apart /\ FlagRaised
  BY <1>1, <1>5 DEF KeptInv, Kept, SomeStoring
<1>7. ~SomeSnapshot'
  BY <1>3, <1>6 DEF Apart, SomeSnapshot
<1>8. \A u \in Threads : pc'[u] # "reading" /\ pc'[u] # "clearing"
  BY <1>7 DEF SomeSnapshot, InSnapshot
<1>9. \A u \in Threads, y \in Flags : Storing(u) /\ y \in todo[u] =>
          (u = t /\ y = x) \/ (Storing(u)' /\ y \in todo'[u])
  BY <1>1 DEF Storing
<1>10. m_bChanged' \/ \E u \in Threads : Storing(u)' /\ "m_bChanged" \in todo'[u]
  BY <1>2, <1>6, <1>9 DEF FlagRaised, Flags
<1>11. ~SomeStoring' => m_bChanged'
  BY <1>10 DEF SomeStoring
<1>12. Kept'
  BY <1>7, <1>8, <1>10, <1>11 DEF Kept, Apart, FlagRaised, WordsRead, FrameSent, FlaggedOrSent
<1>13. ASSUME author = "app" PROVE KeptForced'
  <2>1. m_bChangeForced \/ (Storing("app") /\ "m_bChangeForced" \in todo["app"])
    BY <1>5, <1>6, <1>13 DEF KeptInv, KeptForced, ForceRaised
  <2>2. m_bChangeForced' \/ (Storing("app")' /\ "m_bChangeForced" \in todo'["app"])
    BY <1>2, <1>9, <2>1 DEF Flags, Threads
  <2>3. ~SomeStoring' => m_bChangeForced'
    BY <2>2 DEF SomeStoring, Threads
  <2> QED
    BY <1>8, <1>11, <2>2, <2>3 DEF KeptForced, ForceRaised, ForceRead, ForceSent, ForcedOrSent
<1> QED
  BY <1>12, <1>13

\* A thread that is not in a snapshot and does not become so; the Sets go on.
LEMMA BeginSnapshotKept ==
    ASSUME KeptInv, NEW t \in Threads, NEW f \in BOOLEAN, BeginSnapshot(t, f)
    PROVE  Rest'
<1>1. /\ pc[t] = "idle" /\ lock = NoThread /\ lock' = t
      /\ pc \in [Threads -> PCs] /\ todo \in [Threads -> SUBSET (Words \cup Flags)]
      /\ frame \in [Threads -> Frames]
      /\ pc' = [pc EXCEPT ![t] = "reading"] /\ todo' = [todo EXCEPT ![t] = Words]
      /\ frame' = [frame EXCEPT ![t] = Frame(Zeros, 0, f)]
      /\ UNCHANGED <<m_Data, m_bChanged, m_bChangeForced, last, author>>
  BY DEF BeginSnapshot, shared, KeptInv, TypeOK
<1>2. (f \/ m_bChanged) /\ overlapped' = (overlapped \/ SomeStoring)
  BY DEF BeginSnapshot
<1>3. \A u \in Threads : ~InSnapshot(u)
  BY <1>1, VarAssumption DEF KeptInv, Locked
<1>4. \A u \in Threads : u # t => pc'[u] = pc[u]
  BY <1>1
<1>5. pc'[t] = "reading" /\ todo'[t] = Words /\ frame'[t].forced = f
  BY <1>1, ZerosType, Frames3
<1>6. \A u \in Threads : InSnapshot(u)' => u = t
  BY <1>3, <1>4 DEF InSnapshot
<1>7. Locked'
  BY <1>1, <1>6 DEF Locked
<1>8. SUFFICES ASSUME ~overlapped, ~SomeStoring
               PROVE  Kept' /\ (author = "app" => KeptForced')
  BY <1>1, <1>2, <1>7 DEF Rest
<1>9. ~SomeStoring'
  BY <1>4, <1>5, <1>8 DEF SomeStoring, Storing
<1>10. \A u \in Threads : pc'[u] = "reading" => u = t
  BY <1>6 DEF InSnapshot
<1>11. \A u \in Threads : pc'[u] # "clearing"
  BY <1>5, <1>6 DEF InSnapshot
<1>12. m_bChanged \/ last.data = m_Data
  BY <1>8 DEF KeptInv, Kept, FlaggedOrSent
<1>13. Kept'
  BY <1>1, <1>5, <1>9, <1>10, <1>11, <1>12
  DEF Kept, Apart, FlagRaised, WordsRead, FrameSent, FlaggedOrSent
<1>14. ASSUME author = "app" PROVE KeptForced'
  <2>1. (m_bChanged /\ m_bChangeForced) \/ ~m_bChanged
    BY <1>3, <1>8, <1>14 DEF KeptInv, KeptForced, ForcedOrSent, SomeSnapshot
  <2>2. m_bChangeForced \/ f
    BY <1>2, <2>1
  <2>3. SomeSnapshot'
    BY <1>5 DEF SomeSnapshot, InSnapshot
  <2> QED
    BY <1>1, <1>5, <1>9, <1>10, <1>11, <2>2, <2>3
    DEF KeptForced, ForceRaised, ForceRead, ForceSent, ForcedOrSent
<1> QED
  BY <1>13, <1>14

LEMMA SnapshotsKept == KeptInv /\ (TickSnapshot \/ BuildSnapshot \/ JoinSnapshot) => Rest'
<1> SUFFICES ASSUME KeptInv, TickSnapshot \/ BuildSnapshot \/ JoinSnapshot PROVE Rest'
  OBVIOUS
<1>1. CASE SkipSnapshot("sync") \/ SkipSnapshot("app")
  BY <1>1, UnchangedKept DEF SkipSnapshot, vars, shared, history
<1>2. CASE \E t \in {"sync", "app"} : BeginSnapshot(t, FALSE)
  BY <1>2, BeginSnapshotKept DEF Threads
<1>3. CASE JoinSnapshot
  BY <1>3, BeginSnapshotKept DEF Threads, JoinSnapshot
<1> QED
  BY <1>1, <1>2, <1>3 DEF TickSnapshot, BuildSnapshot

\* Whoever is in a snapshot is alone in one.
LEMMA OneSnapshot ==
    ASSUME KeptInv, NEW t \in Threads, InSnapshot(t), NEW u \in Threads, InSnapshot(u)
    PROVE  u = t
BY DEF KeptInv, Locked

LEMMA ReadWordKept ==
    ASSUME KeptInv, NEW t \in Threads, NEW w \in Words, ReadWord(t, w)
    PROVE  Rest'
<1>1. /\ pc[t] = "reading" /\ w \in todo[t]
      /\ todo \in [Threads -> SUBSET (Words \cup Flags)] /\ frame \in [Threads -> Frames]
      /\ m_Data \in Data
      /\ todo' = [todo EXCEPT ![t] = @ \ {w}]
      /\ frame' = [frame EXCEPT ![t] = Frame([frame[t].data EXCEPT ![w] = m_Data[w]],
                                             frame[t].sequence, frame[t].forced)]
      /\ UNCHANGED <<m_Data, m_bChanged, m_bChangeForced, lock, pc, last, overlapped, author>>
  BY DEF ReadWord, shared, history, KeptInv, TypeOK
<1>2. frame[t].data \in Data /\ frame[t].sequence \in Nat /\ frame[t].forced \in BOOLEAN
  BY <1>1, FrameParts
<1>3. [frame[t].data EXCEPT ![w] = m_Data[w]] \in Data
  BY <1>1, <1>2 DEF Data
<1>4. /\ frame'[t].data = [frame[t].data EXCEPT ![w] = m_Data[w]]
      /\ frame'[t].forced = frame[t].forced
  BY <1>1, <1>2, <1>3, Frames3
<1>5. \A u \in Threads : /\ Storing(u)' <=> Storing(u)
                         /\ InSnapshot(u)' <=> InSnapshot(u)
                         /\ pc'[u] = "reading" => u = t
                         /\ pc'[u] # "clearing"
  BY <1>1, OneSnapshot DEF Storing, InSnapshot
<1>6. (SomeStoring' <=> SomeStoring) /\ (SomeSnapshot' <=> SomeSnapshot)
  BY <1>5 DEF SomeStoring, SomeSnapshot
<1>7. Locked'
  BY <1>1, <1>5 DEF KeptInv, Locked
<1>8. SUFFICES ASSUME ~overlapped PROVE Kept' /\ (author = "app" => KeptForced')
  BY <1>1, <1>7 DEF Rest
<1>9. ~SomeStoring
  BY <1>1, <1>8 DEF KeptInv, Kept, Apart, SomeSnapshot, InSnapshot
<1>10. \A y \in Words \ todo'[t] : frame'[t].data[y] = m_Data[y]
  <2>1. \A y \in Words \ todo[t] : frame[t].data[y] = m_Data[y]
    BY <1>1, <1>8 DEF KeptInv, Kept, WordsRead
  <2> QED
    BY <1>1, <1>2, <1>4, <2>1 DEF Data
<1>11. Kept'
  BY <1>1, <1>5, <1>6, <1>8, <1>9, <1>10
  DEF KeptInv, Kept, Apart, FlagRaised, WordsRead, FrameSent, FlaggedOrSent
<1>12. ASSUME author = "app" PROVE KeptForced'
  <2>1. m_bChangeForced \/ frame[t].forced
    BY <1>1, <1>8, <1>12 DEF KeptInv, KeptForced, ForceRead
  <2>2. SomeSnapshot
    BY <1>1 DEF SomeSnapshot, InSnapshot
  <2> QED
    BY <1>1, <1>4, <1>5, <1>6, <1>9, <2>1, <2>2
    DEF KeptForced, ForceRaised, ForceRead, ForceSent, ForcedOrSent
<1> QED
  BY <1>11, <1>12

LEMMA NumberFrameKept ==
    ASSUME KeptInv, NEW t \in Threads, NumberFrame(t)
    PROVE  Rest'
<1>1. /\ pc[t] = "reading" /\ todo[t] = {}
      /\ pc \in [Threads -> PCs] /\ todo \in [Threads -> SUBSET (Words \cup Flags)]
      /\ frame \in [Threads -> Frames] /\ m_Data \in Data
      /\ pc' = [pc EXCEPT ![t] = "clearing"] /\ todo' = [todo EXCEPT ![t] = Flags]
      /\ last' = Frame(frame[t].data, m_iSequenceID', frame[t].forced \/ m_bChangeForced)
      /\ UNCHANGED <<m_Data, m_bChanged, m_bChangeForced, lock, overlapped, author>>
  BY DEF NumberFrame, KeptInv, TypeOK
<1>2. frame[t].data \in Data /\ frame[t].forced \in BOOLEAN /\ m_iSequenceID' \in Nat
  BY <1>1, FrameParts DEF NumberFrame, KeptInv, TypeOK
<1>3. last'.data = frame[t].data /\ (last'.forced <=> frame[t].forced \/ m_bChangeForced)
  BY <1>1, <1>2 DEF Frame
<1>4. \A u \in Threads : /\ Storing(u)' <=> Storing(u)
                         /\ InSnapshot(u)' <=> InSnapshot(u)
                         /\ pc'[u] # "reading"
                         /\ pc'[u] = "clearing" => u = t
  BY <1>1, OneSnapshot DEF Storing, InSnapshot
<1>5. (SomeStoring' <=> SomeStoring) /\ (SomeSnapshot' <=> SomeSnapshot)
  BY <1>4 DEF SomeStoring, SomeSnapshot
<1>6. Locked'
  BY <1>1, <1>4 DEF KeptInv, Locked
<1>7. SUFFICES ASSUME ~overlapped PROVE Kept' /\ (author = "app" => KeptForced')
  BY <1>1, <1>6 DEF Rest
<1>8. SomeSnapshot /\ ~SomeStoring
  BY <1>1, <1>7 DEF KeptInv, Kept, Apart, SomeSnapshot, InSnapshot
<1>9. last'.data = m_Data
  <2>1. \A y \in Words : frame[t].data[y] = m_Data[y]
    BY <1>1, <1>7 DEF KeptInv, Kept, WordsRead
  <2> QED
    BY <1>1, <1>2, <1>3, <2>1 DEF Data
<1>10. todo'[t] = Flags /\ "m_bChanged" \in Flags
  BY <1>1 DEF Flags
<1>11. Kept'
  BY <1>1, <1>4, <1>5, <1>8, <1>9, <1>10
  DEF Kept, Apart, FlagRaised, WordsRead, FrameSent, FlaggedOrSent
<1>12. ASSUME author = "app" PROVE KeptForced'
  <2>1. last'.forced
    BY <1>1, <1>3, <1>7, <1>12 DEF KeptInv, KeptForced, ForceRead
  <2> QED
    BY <1>4, <1>5, <1>8, <2>1 DEF KeptForced, ForceRaised, ForceRead, ForceSent, ForcedOrSent
<1> QED
  BY <1>11, <1>12

LEMMA ClearFlagKept ==
    ASSUME KeptInv, NEW t \in Threads, NEW x \in Words \cup Flags, ClearFlag(t, x)
    PROVE  Rest'
<1>1. /\ pc[t] = "clearing" /\ x \in todo[t]
      /\ todo \in [Threads -> SUBSET (Words \cup Flags)]
      /\ todo' = [todo EXCEPT ![t] = @ \ {x}]
      /\ UNCHANGED <<m_Data, lock, pc, frame, last, overlapped, author>>
  BY DEF ClearFlag, history, KeptInv, TypeOK
<1>2. m_bChanged' <=> (m_bChanged /\ x # "m_bChanged")
  BY DEF ClearFlag
<1>3. \A u \in Threads : /\ Storing(u)' <=> Storing(u)
                         /\ InSnapshot(u)' <=> InSnapshot(u)
                         /\ pc'[u] # "reading"
                         /\ pc'[u] = "clearing" => u = t
  BY <1>1, OneSnapshot DEF Storing, InSnapshot
<1>4. (SomeStoring' <=> SomeStoring) /\ (SomeSnapshot' <=> SomeSnapshot)
  BY <1>3 DEF SomeStoring, SomeSnapshot
<1>5. Locked'
  BY <1>1, <1>3 DEF KeptInv, Locked
<1>6. SUFFICES ASSUME ~overlapped PROVE Kept' /\ (author = "app" => KeptForced')
  BY <1>1, <1>5 DEF Rest
<1>7. SomeSnapshot /\ ~SomeStoring
  BY <1>1, <1>6 DEF KeptInv, Kept, Apart, SomeSnapshot, InSnapshot
<1>8. last.data = m_Data /\ ("m_bChanged" \notin todo[t] => ~m_bChanged)
  BY <1>1, <1>6 DEF KeptInv, Kept, FrameSent
<1>9. "m_bChanged" \notin todo'[t] => ~m_bChanged'
  BY <1>1, <1>2, <1>8
<1>10. Kept'
  BY <1>1, <1>3, <1>4, <1>7, <1>8, <1>9
  DEF Kept, Apart, FlagRaised, WordsRead, FrameSent, FlaggedOrSent
<1>11. ASSUME author = "app" PROVE KeptForced'
  <2>1. last.forced
    BY <1>1, <1>6, <1>11 DEF KeptInv, KeptForced, ForceSent
  <2> QED
    BY <1>1, <1>3, <1>4, <1>7, <2>1
    DEF KeptForced, ForceRaised, ForceRead, ForceSent, ForcedOrSent
<1> QED
  BY <1>10, <1>11

LEMMA EndSnapshotKept ==
    ASSUME KeptInv, NEW t \in Threads, EndSnapshot(t)
    PROVE  Rest'
<1>1. /\ pc[t] = "clearing" /\ todo[t] = {} /\ pc \in [Threads -> PCs]
      /\ \E next \in {"joining", "sending"} : pc' = [pc EXCEPT ![t] = next]
      /\ UNCHANGED <<m_Data, m_bChanged, m_bChangeForced, todo, frame, last, overlapped, author>>
  BY DEF EndSnapshot, shared, history, KeptInv, TypeOK
<1>2. \A u \in Threads : Storing(u)' <=> Storing(u)
  BY <1>1 DEF Storing
<1>3. \A u \in Threads : ~InSnapshot(u)'
  <2>1. ~InSnapshot(t)'
    BY <1>1 DEF InSnapshot
  <2>2. ASSUME NEW u \in Threads, u # t PROVE ~InSnapshot(u)'
    BY <1>1, <2>2, OneSnapshot DEF InSnapshot
  <2> QED
    BY <2>1, <2>2
<1>4. (SomeStoring' <=> SomeStoring) /\ ~SomeSnapshot'
  BY <1>2, <1>3 DEF SomeStoring, SomeSnapshot
<1>5. \A u \in Threads : pc'[u] # "reading" /\ pc'[u] # "clearing"
  BY <1>3 DEF InSnapshot
<1>6. Locked'
  BY <1>3 DEF Locked
<1>7. SUFFICES ASSUME ~overlapped PROVE Kept' /\ (author = "app" => KeptForced')
  BY <1>1, <1>6 DEF Rest
<1>8. ~SomeStoring
  BY <1>1, <1>7 DEF KeptInv, Kept, Apart, SomeSnapshot, InSnapshot
<1>9. last.data = m_Data /\ ~m_bChanged
  BY <1>1, <1>7 DEF KeptInv, Kept, FrameSent
<1>10. Kept'
  BY <1>1, <1>4, <1>5, <1>8, <1>9
  DEF Kept, Apart, FlagRaised, WordsRead, FrameSent, FlaggedOrSent
<1>11. ASSUME author = "app" PROVE KeptForced'
  <2>1. last.forced
    BY <1>1, <1>7, <1>11 DEF KeptInv, KeptForced, ForceSent
  <2> QED
    BY <1>1, <1>4, <1>5, <1>8, <1>9, <2>1
    DEF KeptForced, ForceRaised, ForceRead, ForceSent, ForcedOrSent
<1> QED
  BY <1>10, <1>11

\* A frame that leaves changes nothing of the variable.
LEMMA SendKept ==
    ASSUME KeptInv, NEW t \in Threads, Send(t)
    PROVE  Rest'
<1>1. /\ pc[t] \in {"sending", "joining"} /\ pc \in [Threads -> PCs]
      /\ frame \in [Threads -> Frames]
      /\ pc' = [pc EXCEPT ![t] = "idle"] /\ frame' = [frame EXCEPT ![t] = NoFrame]
      /\ UNCHANGED <<m_Data, m_bChanged, m_bChangeForced, lock, todo, last, overlapped, author>>
  BY DEF Send, shared, history, KeptInv, TypeOK
<1>2. \A u \in Threads : /\ Storing(u)' <=> Storing(u)
                         /\ InSnapshot(u)' <=> InSnapshot(u)
                         /\ InSnapshot(u) => pc'[u] = pc[u] /\ frame'[u] = frame[u]
  BY <1>1 DEF Storing, InSnapshot
<1>3. (SomeStoring' <=> SomeStoring) /\ (SomeSnapshot' <=> SomeSnapshot)
  BY <1>2 DEF SomeStoring, SomeSnapshot
<1>4. Locked'
  BY <1>1, <1>2 DEF KeptInv, Locked
<1>5. \A u \in Threads : /\ pc'[u] = "reading" => pc[u] = "reading" /\ frame'[u] = frame[u]
                         /\ pc'[u] = "clearing" => pc[u] = "clearing"
  BY <1>2 DEF InSnapshot
<1>6. SUFFICES ASSUME ~overlapped PROVE Kept' /\ (author = "app" => KeptForced')
  BY <1>1, <1>4 DEF Rest
<1>7. Kept'
  BY <1>1, <1>2, <1>3, <1>5, <1>6
  DEF KeptInv, Kept, Apart, FlagRaised, WordsRead, FrameSent, FlaggedOrSent
<1>8. ASSUME author = "app" PROVE KeptForced'
  BY <1>1, <1>2, <1>3, <1>5, <1>6, <1>8
  DEF KeptInv, KeptForced, ForceRaised, ForceRead, ForceSent, ForcedOrSent, Threads
<1> QED
  BY <1>7, <1>8

LEMMA NextKept == KeptInv /\ [Next]_vars => KeptInv'
<1> SUFFICES ASSUME KeptInv, [Next]_vars PROVE KeptInv'
  OBVIOUS
<1>1. TypeOK'
  BY NextType DEF KeptInv
<1>2. CASE \E t \in Threads : Work(t)
  BY <1>1, <1>2, StoreKept, ClearFlagKept, ReadWordKept, NumberFrameKept, EndSnapshotKept, SendKept
  DEF Work, Rest, KeptInv
<1>3. CASE UNCHANGED vars
  BY <1>1, <1>3, UnchangedKept DEF vars, shared, history, Rest, KeptInv
<1>4. CASE Lock \/ Unlock
  BY <1>1, <1>4, UnchangedKept DEF Lock, Unlock, shared, history, Rest, KeptInv
<1> QED
  BY <1>1, <1>2, <1>3, <1>4, CallsKept, SnapshotsKept DEF Next, Rest, KeptInv

\* A change is lost only to a snapshot that was at work while a Set was
\* (CNetVarBase.h:109-181): otherwise it is flagged until a frame carries it, and
\* so is what makes the owner accept the application's value.
THEOREM ChangeKeptCorrect == Spec => []ChangeKept
<1>1. KeptInv => ChangeKept
  BY DEF KeptInv, Kept, KeptForced, FlaggedOrSent, ForcedOrSent, ChangeKept
<1> QED
  BY <1>1, InitKept, NextKept, PTL DEF Spec

-----------------------------------------------------------------------------
(* What a replica that checks sequence numbers has taken.                   *)

\* Until a value is received or a peer joins, every frame is a broadcast one,
\* and the frame numbered last is with the replica or on its way.
OnItsWay(t) == pc[t] \in {"clearing", "sending"}
FramesNumbered ==
    alone =>
        /\ last.sequence = m_iSequenceID
        /\ \A t \in Threads :
            /\ pc[t] # "joining" /\ ~InSnapshot("net")
            /\ OnItsWay(t) =>
                /\ frame[t].sequence <= m_iSequenceID
                /\ frame[t].sequence = m_iSequenceID => frame[t].data = last.data
ReplicaFollows ==
    alone =>
        /\ replica.sequence <= m_iSequenceID
        /\ replica.sequence = m_iSequenceID => replica.data = last.data
        /\ \/ replica.sequence = m_iSequenceID
           \/ \E t \in Threads : OnItsWay(t) /\ frame[t].sequence = m_iSequenceID

ReplicaInv == KeptInv /\ FramesNumbered /\ ReplicaFollows

LEMMA InitReplica == Init => ReplicaInv
<1> SUFFICES ASSUME Init PROVE ReplicaInv
  OBVIOUS
<1>1. last.sequence = 0 /\ last.data = Zeros /\ replica.sequence = 0 /\ replica.data = Zeros
  <2>1. NoFrame.sequence = 0 /\ NoFrame.data = Zeros
    BY DEF NoFrame, Frame
  <2>2. last = NoFrame /\ replica = [data |-> Zeros, sequence |-> 0]
    BY DEF Init
  <2> QED
    BY <2>1, <2>2
<1>2. \A t \in Threads : pc[t] = "idle"
  BY DEF Init
<1>3. "net" \in Threads /\ m_iSequenceID = 0
  BY DEF Init, Threads
<1> QED
  BY <1>1, <1>2, <1>3, InitKept DEF ReplicaInv, FramesNumbered, ReplicaFollows, OnItsWay, InSnapshot

\* Steps that number no frame and send none.
LEMMA QuietReplica ==
    ASSUME ReplicaInv, alone' => alone,
           alone' => UNCHANGED <<m_iSequenceID, replica, last>>,
           \A t \in Threads : OnItsWay(t)' => OnItsWay(t) /\ frame'[t] = frame[t],
           \A t \in Threads : OnItsWay(t) => OnItsWay(t)',
           \A t \in Threads : alone' => pc'[t] # "joining" /\ ~InSnapshot("net")'
    PROVE  FramesNumbered' /\ ReplicaFollows'
<1>1. FramesNumbered'
  BY DEF ReplicaInv, FramesNumbered
<1>2. ReplicaFollows'
  BY DEF ReplicaInv, ReplicaFollows
<1> QED
  BY <1>1, <1>2

LEMMA NumberReplica ==
    ASSUME ReplicaInv, NEW t \in Threads, NumberFrame(t)
    PROVE  FramesNumbered' /\ ReplicaFollows'
<1>1. /\ pc[t] = "reading" /\ pc \in [Threads -> PCs] /\ frame \in [Threads -> Frames]
      /\ m_iSequenceID \in Nat /\ m_iSequenceID' = m_iSequenceID + 1
      /\ pc' = [pc EXCEPT ![t] = "clearing"] /\ frame' = [frame EXCEPT ![t] = last']
      /\ last' = Frame(frame[t].data, m_iSequenceID', frame[t].forced \/ m_bChangeForced)
      /\ UNCHANGED <<replica, alone>>
  BY DEF NumberFrame, ReplicaInv, KeptInv, TypeOK
<1>2. last'.sequence = m_iSequenceID'
  BY <1>1 DEF Frame
<1>3. OnItsWay(t)' /\ frame'[t] = last'
  BY <1>1 DEF OnItsWay
<1>4. replica.sequence \in Nat /\ \A u \in Threads : frame[u].sequence \in Nat
  BY <1>1, FrameParts DEF ReplicaInv, KeptInv, TypeOK
<1>5. SUFFICES ASSUME alone PROVE FramesNumbered' /\ ReplicaFollows'
  BY <1>1 DEF FramesNumbered, ReplicaFollows
<1>6. ASSUME NEW u \in Threads, u # t
      PROVE  /\ pc'[u] = pc[u] /\ frame'[u] = frame[u]
             /\ OnItsWay(u)' => frame'[u].sequence < m_iSequenceID'
  <2>1. pc'[u] = pc[u] /\ frame'[u] = frame[u]
    BY <1>1, <1>6
  <2>2. OnItsWay(u) => frame[u].sequence <= m_iSequenceID
    BY <1>5 DEF ReplicaInv, FramesNumbered
  <2> QED
    BY <1>1, <1>4, <2>1, <2>2 DEF OnItsWay
<1>7. ~InSnapshot("net")' /\ \A u \in Threads : pc'[u] # "joining"
  BY <1>1, <1>5, <1>6 DEF ReplicaInv, FramesNumbered, InSnapshot, Threads
<1>8. FramesNumbered'
  <2>1. ASSUME NEW u \in Threads, OnItsWay(u)'
        PROVE  /\ frame'[u].sequence <= m_iSequenceID'
               /\ frame'[u].sequence = m_iSequenceID' => frame'[u].data = last'.data
    <3>1. CASE u = t
      BY <1>1, <1>2, <1>3, <3>1
    <3>2. CASE u # t
      BY <1>1, <1>4, <1>6, <2>1, <3>2
    <3> QED
      BY <3>1, <3>2
  <2> QED
    BY <1>2, <1>7, <2>1 DEF FramesNumbered
<1>9. ReplicaFollows'
  BY <1>1, <1>2, <1>3, <1>4, <1>5 DEF ReplicaInv, ReplicaFollows
<1> QED
  BY <1>8, <1>9

LEMMA SendReplica ==
    ASSUME ReplicaInv, CheckSequence, NEW t \in Threads, Send(t)
    PROVE  FramesNumbered' /\ ReplicaFollows'
<1>1. /\ pc[t] \in {"sending", "joining"} /\ pc \in [Threads -> PCs]
      /\ frame \in [Threads -> Frames] /\ m_iSequenceID \in Nat
      /\ pc' = [pc EXCEPT ![t] = "idle"] /\ frame' = [frame EXCEPT ![t] = NoFrame]
      /\ replica' = IF pc[t] = "sending" THEN Apply(frame[t]) ELSE replica
      /\ UNCHANGED <<m_iSequenceID, last, alone>>
  BY DEF Send, shared, history, ReplicaInv, KeptInv, TypeOK
<1>2. \A u \in Threads : u # t => pc'[u] = pc[u] /\ frame'[u] = frame[u]
  BY <1>1
<1>3. pc'[t] = "idle"
  BY <1>1
<1>4. SUFFICES ASSUME alone PROVE FramesNumbered' /\ ReplicaFollows'
  BY <1>1 DEF FramesNumbered, ReplicaFollows
<1>5. ~InSnapshot("net")' /\ \A u \in Threads : pc'[u] # "joining"
  BY <1>2, <1>3, <1>4 DEF ReplicaInv, FramesNumbered, InSnapshot, Threads
<1>6. \A u \in Threads : OnItsWay(u)' => OnItsWay(u) /\ frame'[u] = frame[u]
  BY <1>2, <1>3 DEF OnItsWay
<1>7. FramesNumbered'
  BY <1>1, <1>4, <1>5, <1>6 DEF ReplicaInv, FramesNumbered
<1>8. /\ pc[t] = "sending" /\ OnItsWay(t)
      /\ replica.sequence \in Nat /\ frame[t].sequence \in Nat
      /\ frame[t].sequence <= m_iSequenceID
      /\ frame[t].sequence = m_iSequenceID => frame[t].data = last.data
  BY <1>1, <1>4, FrameParts DEF ReplicaInv, KeptInv, TypeOK, FramesNumbered, OnItsWay
<1>9. replica' = Apply(frame[t])
  BY <1>1, <1>8
<1>10. CASE replica.sequence <= frame[t].sequence
  <2>1. replica'.data = frame[t].data /\ replica'.sequence = frame[t].sequence
    BY <1>9, <1>10 DEF Apply
  <2>2. ASSUME frame[t].sequence # m_iSequenceID
        PROVE  \E u \in Threads : OnItsWay(u)' /\ frame'[u].sequence = m_iSequenceID
    <3>1. PICK u \in Threads : OnItsWay(u) /\ frame[u].sequence = m_iSequenceID
      BY <1>4, <1>8, <1>10, <2>2 DEF ReplicaInv, ReplicaFollows
    <3>2. u # t
      BY <2>2, <3>1
    <3> QED
      BY <1>2, <3>1, <3>2 DEF OnItsWay
  <2> QED
    BY <1>1, <1>7, <1>8, <2>1, <2>2 DEF ReplicaFollows
<1>11. CASE ~(replica.sequence <= frame[t].sequence)
  <2>1. replica' = replica /\ frame[t].sequence # m_iSequenceID
    BY <1>4, <1>8, <1>9, <1>11 DEF Apply, ReplicaInv, ReplicaFollows
  <2>2. ASSUME replica.sequence # m_iSequenceID
        PROVE  \E u \in Threads : OnItsWay(u)' /\ frame'[u].sequence = m_iSequenceID
    <3>1. PICK u \in Threads : OnItsWay(u) /\ frame[u].sequence = m_iSequenceID
      BY <1>4, <2>2 DEF ReplicaInv, ReplicaFollows
    <3> QED
      BY <1>2, <2>1, <3>1 DEF OnItsWay
  <2> QED
    BY <1>1, <1>4, <1>7, <2>1, <2>2 DEF ReplicaInv, ReplicaFollows
<1> QED
  BY <1>10, <1>11

\* Steps of a thread that stays in, or gets into, a place short of a frame.
LEMMA SetReplica ==
    ASSUME ReplicaInv, NEW t \in Threads, NEW place \in {"idle", "checked", "storing", "reading"},
           pc' = [pc EXCEPT ![t] = place], pc[t] \in {"idle", "checked", "storing"},
           place = "reading" /\ alone' => t # "net", alone' => alone,
           \A u \in Threads : u # t => frame'[u] = frame[u],
           alone' => UNCHANGED <<m_iSequenceID, replica, last>>
    PROVE  FramesNumbered' /\ ReplicaFollows'
<1>1. pc \in [Threads -> PCs]
  BY DEF ReplicaInv, KeptInv, TypeOK
<1>2. pc'[t] = place /\ \A u \in Threads : u # t => pc'[u] = pc[u]
  BY <1>1
<1>3. ~OnItsWay(t) /\ ~OnItsWay(t)'
  BY <1>2 DEF OnItsWay
<1>4. \A u \in Threads : OnItsWay(u)' => OnItsWay(u) /\ frame'[u] = frame[u]
  BY <1>2, <1>3 DEF OnItsWay
<1>5. \A u \in Threads : OnItsWay(u) => OnItsWay(u)'
  BY <1>2, <1>3 DEF OnItsWay
<1>6. ASSUME NEW u \in Threads, alone' PROVE pc'[u] # "joining" /\ ~InSnapshot("net")'
  <2>1. pc'[u] # "joining"
    BY <1>2, <1>6 DEF ReplicaInv, FramesNumbered
  <2>2. CASE t = "net"
    BY <1>2, <1>6, <2>1, <2>2 DEF InSnapshot
  <2>3. CASE t # "net"
    BY <1>2, <1>6, <2>1, <2>3 DEF ReplicaInv, FramesNumbered, InSnapshot, Threads
  <2> QED
    BY <2>1, <2>2, <2>3
<1> QED
  BY <1>4, <1>5, <1>6, QuietReplica

LEMMA CallsReplica ==
    ASSUME ReplicaInv, \/ \E v \in Values : Set(Uniform(v))
                       \/ Invalidate
                       \/ RawSet
                       \/ \E v \in Values, s \in 0..1 : Receive(Uniform(v), s)
    PROVE  FramesNumbered' /\ ReplicaFollows'
<1>1. ASSUME UNCHANGED <<pc, m_iSequenceID, frame, replica, last, alone>>
      PROVE  FramesNumbered' /\ ReplicaFollows'
  BY <1>1, QuietReplica DEF ReplicaInv, FramesNumbered, OnItsWay, InSnapshot
<1>2. ASSUME NEW t \in Threads, pc[t] \in {"idle", "checked"},
             pc' = [pc EXCEPT ![t] = "storing"],
             frame' = frame, alone' => alone,
             alone' => UNCHANGED <<m_iSequenceID, replica, last>>
      PROVE  FramesNumbered' /\ ReplicaFollows'
  BY <1>2, SetReplica
<1>3. ASSUME NEW v \in Values, Set(Uniform(v))
      PROVE  FramesNumbered' /\ ReplicaFollows'
  BY <1>1, <1>2, <1>3 DEF Set, BeginStores, shared, history, Threads
<1>4. CASE Invalidate
  BY <1>2, <1>4 DEF Invalidate, BeginStores, shared, Threads
<1>5. ASSUME NEW v \in Values, NEW s \in 0..1, Receive(Uniform(v), s)
      PROVE  FramesNumbered' /\ ReplicaFollows'
  <2>1. /\ pc["net"] = "idle" /\ pc \in [Threads -> PCs] /\ ~alone'
        /\ UNCHANGED frame /\ "net" \in Threads
    BY <1>5 DEF Receive, ReplicaInv, KeptInv, TypeOK, Threads
  <2>2. \E place \in {"idle", "checked"} : pc' = [pc EXCEPT !["net"] = place]
    <3>1. pc = [pc EXCEPT !["net"] = "idle"]
      BY <2>1
    <3> QED
      BY <1>5, <3>1 DEF Receive
  <2> QED
    BY <2>1, <2>2, SetReplica
<1>6. CASE RawSet
  BY <1>2, <1>6 DEF RawSet, BeginStores, shared, Threads
<1> QED
  BY <1>3, <1>4, <1>5, <1>6

LEMMA SnapshotsReplica ==
    ASSUME ReplicaInv, TickSnapshot \/ BuildSnapshot \/ JoinSnapshot
    PROVE  FramesNumbered' /\ ReplicaFollows'
<1>1. CASE UNCHANGED vars
  BY <1>1, QuietReplica
  DEF vars, shared, history, ReplicaInv, FramesNumbered, OnItsWay, InSnapshot
<1>2. ASSUME NEW t \in Threads, NEW bForced \in BOOLEAN, BeginSnapshot(t, bForced),
             alone' => alone /\ t # "net"
      PROVE  FramesNumbered' /\ ReplicaFollows'
  <2>1. /\ pc[t] = "idle" /\ pc' = [pc EXCEPT ![t] = "reading"]
        /\ UNCHANGED <<m_iSequenceID, replica, last>>
    BY <1>2 DEF BeginSnapshot, shared
  <2>2. \A u \in Threads : u # t => frame'[u] = frame[u]
    BY <1>2 DEF BeginSnapshot, ReplicaInv, KeptInv, TypeOK
  <2> QED
    BY <1>2, <2>1, <2>2, SetReplica
<1>3. CASE SkipSnapshot("sync") \/ SkipSnapshot("app")
  BY <1>1, <1>3 DEF SkipSnapshot
<1>4. ASSUME NEW t \in {"sync", "app"}, BeginSnapshot(t, FALSE), UNCHANGED <<calls, alone>>
      PROVE  FramesNumbered' /\ ReplicaFollows'
  BY <1>2, <1>4 DEF Threads
<1>5. CASE JoinSnapshot
  BY <1>2, <1>5 DEF JoinSnapshot, Threads
<1> QED
  BY <1>3, <1>4, <1>5 DEF TickSnapshot, BuildSnapshot

LEMMA StoreReplica ==
    ASSUME ReplicaInv, NEW t \in Threads, NEW x \in Words \cup Flags, Store(t, x)
    PROVE  FramesNumbered' /\ ReplicaFollows'
<1>1. /\ pc[t] = "storing" /\ pc \in [Threads -> PCs]
      /\ UNCHANGED <<m_iSequenceID, frame, replica, last, alone>>
  BY DEF Store, Storing, history, ReplicaInv, KeptInv, TypeOK
<1>2. \E place \in {"idle", "storing"} : pc' = [pc EXCEPT ![t] = place]
  <2>1. pc = [pc EXCEPT ![t] = "storing"]
    BY <1>1
  <2> QED
    BY <2>1 DEF Store
<1> QED
  BY <1>1, <1>2, SetReplica

LEMMA ReadReplica ==
    ASSUME ReplicaInv, NEW t \in Threads, NEW w \in Words, ReadWord(t, w)
    PROVE  FramesNumbered' /\ ReplicaFollows'
<1>1. /\ pc[t] = "reading" /\ frame \in [Threads -> Frames]
      /\ UNCHANGED <<m_iSequenceID, pc, replica, last, alone>>
  BY DEF ReadWord, shared, history, ReplicaInv, KeptInv, TypeOK
<1>2. \A u \in Threads : u # t => frame'[u] = frame[u]
  BY <1>1 DEF ReadWord
<1> QED
  BY <1>1, <1>2, QuietReplica DEF ReplicaInv, FramesNumbered, OnItsWay, InSnapshot

LEMMA FlagReplica ==
    ASSUME ReplicaInv, NEW t \in Threads, NEW x \in Words \cup Flags, ClearFlag(t, x)
    PROVE  FramesNumbered' /\ ReplicaFollows'
<1>1. UNCHANGED <<m_iSequenceID, pc, frame, replica, last, alone>>
  BY DEF ClearFlag, history
<1> QED
  BY <1>1, QuietReplica DEF ReplicaInv, FramesNumbered, OnItsWay, InSnapshot

LEMMA EndReplica ==
    ASSUME ReplicaInv, NEW t \in Threads, EndSnapshot(t)
    PROVE  FramesNumbered' /\ ReplicaFollows'
<1>1. /\ pc[t] = "clearing" /\ pc \in [Threads -> PCs]
      /\ pc' = [pc EXCEPT ![t] = IF t = "net" THEN "joining" ELSE "sending"]
      /\ UNCHANGED <<m_iSequenceID, frame, replica, last, alone>>
  BY DEF EndSnapshot, shared, history, ReplicaInv, KeptInv, TypeOK
<1>2. SUFFICES ASSUME alone PROVE FramesNumbered' /\ ReplicaFollows'
  BY <1>1 DEF FramesNumbered, ReplicaFollows
<1>3. t # "net"
  BY <1>1, <1>2 DEF ReplicaInv, FramesNumbered, InSnapshot
<1>4. pc'[t] = "sending" /\ \A u \in Threads : u # t => pc'[u] = pc[u]
  BY <1>1, <1>3
<1>5. \A u \in Threads : OnItsWay(u)' <=> OnItsWay(u)
  BY <1>1, <1>4 DEF OnItsWay
<1>6. ~InSnapshot("net")' /\ \A u \in Threads : pc'[u] # "joining"
  BY <1>2, <1>3, <1>4 DEF ReplicaInv, FramesNumbered, InSnapshot, Threads
<1> QED
  BY <1>1, <1>5, <1>6, QuietReplica

LEMMA NextReplica == CheckSequence /\ ReplicaInv /\ [Next]_vars => ReplicaInv'
<1> SUFFICES ASSUME CheckSequence, ReplicaInv, [Next]_vars PROVE ReplicaInv'
  OBVIOUS
<1>1. KeptInv'
  BY NextKept DEF ReplicaInv
<1>2. CASE \E t \in Threads : Work(t)
  BY <1>1, <1>2, StoreReplica, FlagReplica, ReadReplica, NumberReplica, EndReplica, SendReplica
  DEF Work, ReplicaInv
<1>3. CASE UNCHANGED vars
  BY <1>1, <1>3 DEF vars, shared, history, ReplicaInv, FramesNumbered, ReplicaFollows,
                    OnItsWay, InSnapshot
<1>4. CASE Lock \/ Unlock
  BY <1>1, <1>4 DEF Lock, Unlock, shared, history, ReplicaInv, FramesNumbered,
                    ReplicaFollows, OnItsWay, InSnapshot
<1> QED
  BY <1>1, <1>2, <1>3, <1>4, CallsReplica, SnapshotsReplica DEF Next, ReplicaInv

\* A peer that checks sequence numbers ends with the value of the variable
\* (NetVar.cpp:35, CNetVarBase.h:109-136): frames are numbered under the
\* manager's lock, so the one with the last number carries the last value read.
THEOREM ReplicaConvergesCorrect == CheckSequence => (Spec => []ReplicaConverges)
<1> SUFFICES ASSUME CheckSequence PROVE Spec => []ReplicaConverges
  OBVIOUS
<1>1. ASSUME ReplicaInv PROVE ReplicaConverges
  <2> SUFFICES ASSUME \A t \in Threads : pc[t] = "idle", ~overlapped, ~m_bChanged, alone
               PROVE  replica.data = m_Data
    BY DEF ReplicaConverges
  <2>1. replica.data = last.data
    BY <1>1 DEF ReplicaInv, ReplicaFollows, OnItsWay
  <2>2. last.data = m_Data
    BY <1>1 DEF ReplicaInv, KeptInv, Kept, FlaggedOrSent, SomeStoring, Storing
  <2> QED
    BY <2>1, <2>2
<1>2. ReplicaInv /\ [Next]_vars => ReplicaInv'
  BY NextReplica
<1> QED
  BY <1>1, <1>2, InitReplica, PTL DEF Spec

-----------------------------------------------------------------------------
(* What still lands in a locked variable.                                   *)

\* While the raw Set that was past its check is under way, none has ended.
LateInv ==
    /\ TypeOK
    /\ m_bLocked => late <= 1
    /\ m_bLocked /\ pc["net"] \in {"checked", "storing"} => late = 0

LEMMA InitLate == Init => LateInv
BY InitType DEF Init, LateInv

LEMMA NextLate == LateInv /\ [Next]_vars => LateInv'
<1> SUFFICES ASSUME LateInv, [Next]_vars PROVE LateInv'
  OBVIOUS
<1>1. TypeOK /\ TypeOK'
  BY NextType DEF LateInv
<1>2. pc \in [Threads -> PCs] /\ "net" \in Threads /\ late \in Nat
  BY <1>1 DEF TypeOK, Threads
<1>3. ASSUME UNCHANGED locking, pc'["net"] \in {"checked", "storing"} =>
                                   pc["net"] \in {"checked", "storing"} \/ ~m_bLocked
      PROVE  LateInv'
  BY <1>1, <1>3 DEF LateInv
<1>4. CASE UNCHANGED vars
  BY <1>3, <1>4 DEF vars
<1>5. CASE Lock \/ Unlock
  BY <1>1, <1>2, <1>5 DEF Lock, Unlock, LateInv
<1>6. ASSUME NEW v \in Values, Set(Uniform(v)) PROVE LateInv'
  BY <1>2, <1>3, <1>6 DEF Set, BeginStores
<1>7. CASE Invalidate
  BY <1>2, <1>3, <1>7 DEF Invalidate, BeginStores
<1>8. CASE RawSet
  BY <1>2, <1>3, <1>8 DEF RawSet, BeginStores
<1>9. ASSUME NEW v \in Values, NEW s \in 0..1, Receive(Uniform(v), s) PROVE LateInv'
  BY <1>2, <1>3, <1>9 DEF Receive
<1>10. CASE TickSnapshot \/ BuildSnapshot \/ JoinSnapshot
  BY <1>2, <1>3, <1>10 DEF TickSnapshot, BuildSnapshot, JoinSnapshot, BeginSnapshot,
                           SkipSnapshot, vars
<1>11. ASSUME NEW t \in Threads, NEW x \in Words \cup Flags, Store(t, x) PROVE LateInv'
  <2>1. m_bLocked' = m_bLocked /\ pc[t] = "storing"
    BY <1>11 DEF Store, Storing
  <2>2. CASE t = "net" /\ todo[t] = {x}
    BY <1>1, <1>2, <1>11, <2>1, <2>2 DEF Store, LateInv
  <2>3. CASE ~(t = "net" /\ todo[t] = {x})
    BY <1>2, <1>3, <1>11, <2>1, <2>3 DEF Store
  <2> QED
    BY <2>2, <2>3
<1>12. ASSUME NEW t \in Threads, NEW x \in Words \cup Flags,
              \/ ClearFlag(t, x) \/ NumberFrame(t) \/ EndSnapshot(t) \/ Send(t)
              \/ \E w \in Words : ReadWord(t, w)
       PROVE  LateInv'
  BY <1>2, <1>3, <1>12 DEF ClearFlag, NumberFrame, EndSnapshot, Send, ReadWord
<1> QED
  BY <1>4, <1>5, <1>6, <1>7, <1>8, <1>9, <1>10, <1>11, <1>12 DEF Next, Work, Flags

\* Of all the values that the network thread takes from an owner, at most the one
\* that was past its check of m_bLocked (CNetVarBase.h:136) is stored after Lock,
\* for any width of the value and any number of calls.
THEOREM LockCorrect == Spec => []LockStopsAllButOne
<1>1. LateInv => LockStopsAllButOne
  BY DEF LateInv, LockStopsAllButOne
<1> QED
  BY <1>1, InitLate, NextLate, PTL DEF Spec
=============================================================================
