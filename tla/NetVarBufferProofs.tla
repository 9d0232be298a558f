------------------------- MODULE NetVarBufferProofs -------------------------
(***************************************************************************)
(* What the ring of NetVarBuffer holds, for any positions, any contents of *)
(* the unfilled slots and any times: between two updates the active slot   *)
(* has the position received last.                                         *)
(***************************************************************************)
EXTENDS NetVarBuffer, TLAPS

\* Which slot holds the position that a Set on the network thread works on.
LastInRing ==
    ~local =>
        /\ set.pc # "idle" => set.value = received.last
        /\ set.pc \in {"band", "index"} => m_DataBuffers[NewIndex] = received.last
        /\ set.pc \in {"times", "reset"} \/ (set.pc = "idle" /\ updates >= 1)
            => m_DataBuffers[m_ActivePositionIndex] = received.last

IInv == TypeOK /\ LastInRing

\* The locals of Set.
SetType ==
    [pc : {"idle", "count", "point", "keep", "slot", "band", "index", "times", "reset"},
     value : Int, point : Int, elapsed : Nat, changes : Nat]

\* Those of the application's calls.
GetType ==
    [pc : {"idle", "changes", "heading", "load", "store", "lerp"}, from : Slots, to : Slots,
     heading : Int, elapsed : Nat, began : Int]

-----------------------------------------------------------------------------
\* mod_wrap (NetVarBufferBase.h:148) keeps to the ring, and the slot after a
\* slot is another one.
LEMMA RingNext ==
    ASSUME NEW i \in Slots
    PROVE  /\ mod_wrap(i + 1) \in Slots /\ mod_wrap(i - 1) \in Slots
           /\ mod_wrap(i + 1) # i /\ mod_wrap(mod_wrap(i + 1) - 1) = i
BY DEF Slots, mod_wrap

\* The point between two positions (the lerp of GetInterpolated) is a position.
LEMMA BetweenInt ==
    ASSUME NEW a \in Int, NEW b \in Int, NEW h \in Int, NEW e \in Nat
    PROVE  Between(a, b, h, e) \in Int
<1>1. TimeFrame \in Nat /\ TimeFrame > 0
  BY BufferAssumption
<1>2. h * e \in Int
  OBVIOUS
<1>3. ASSUME NEW x \in Int PROVE x \div TimeFrame \in Int
  BY <1>1
<1>4. (h * e) \div TimeFrame \in Int
  BY <1>2, <1>3
<1> QED
  BY <1>4 DEF Between

\* So is what GetInterpolated would show.
LEMMA RenderedInt ==
    ASSUME TypeOK, NEW c \in Nat
    PROVE  Rendered(c) \in Int
<1>1. From \in Int /\ To \in Int /\ Live \in Int
  BY RingNext DEF TypeOK, Live, From, To
<1>2. m_fElaspedTime \in Nat
  BY DEF TypeOK
<1>3. Between(From, To, To - From, m_fElaspedTime) \in Int
  <2> To - From \in Int
    BY <1>1
  <2> QED
    BY <1>1, <1>2, BetweenInt
<1> QED
  BY <1>1, <1>3 DEF Rendered

-----------------------------------------------------------------------------
\* A GetInterpolated that is not under way.
LEMMA IdleGetType == IdleGet \in GetType
<1>1. 0 \in Slots
  BY DEF Slots
<1> QED
  BY <1>1 DEF IdleGet, GetType

LEMMA InitIInv == Init => IInv
<1> SUFFICES ASSUME Init PROVE IInv
  OBVIOUS
<1>1. TypeOK
  <2>1. PICK j \in Junk : m_DataBuffers = [i \in Slots |-> j] /\ shown = j
    BY DEF Init
  <2>2. m_DataBuffers \in [Slots -> Int] /\ shown \in Int
    BY <2>1, BufferAssumption
  <2>3. m_ActivePositionIndex \in Slots
    BY DEF Init, Slots
  <2>4. set \in SetType
    BY DEF Init, SetAt, SetType
  <2>5. received \in [last : Int, low : Int, high : Int]
    BY DEF Init
  <2>6. known \in [previous : BOOLEAN, frame : BOOLEAN]
    BY DEF Init
  <2>7. get \in GetType
    BY IdleGetType DEF Init
  <2>8. m_Data \in Int /\ {m_iChanges, m_fElaspedTime, updates, renders} \subseteq Nat
    BY DEF Init
  <2>9. local \in BOOLEAN
    BY DEF Init
  <2> QED
    BY <2>2, <2>3, <2>4, <2>5, <2>6, <2>7, <2>8, <2>9 DEF TypeOK, SetType, GetType
<1>2. LastInRing
  BY DEF Init, LastInRing, SetAt
<1> QED
  BY <1>1, <1>2 DEF IInv

\* The steps of Set on the network thread, one by one.
LEMMA UpdateIInv == ASSUME IInv, NEW v \in Received, Update(v) PROVE IInv'
<1>1. v \in Int /\ m_iChanges \in Nat
  BY BufferAssumption DEF IInv, TypeOK
<1>2. set' \in SetType
  BY <1>1 DEF Update, SetType
<1>3. received' \in [last : Int, low : Int, high : Int]
  BY <1>1 DEF IInv, TypeOK, Update
<1>4. TypeOK'
  BY <1>1, <1>2, <1>3 DEF IInv, TypeOK, SetType, Update, ring
<1>5. LastInRing'
  BY <1>1 DEF IInv, TypeOK, LastInRing, Update, ring, NewIndex
<1> QED
  BY <1>4, <1>5 DEF IInv

LEMMA CountChangeIInv == IInv /\ CountChange => IInv'
<1> SUFFICES ASSUME IInv, CountChange PROVE IInv'
  OBVIOUS
<1>1. set \in SetType
  BY DEF IInv, TypeOK, SetType
<1>2. m_iChanges' \in Nat
  BY <1>1 DEF CountChange, SetType
<1>3. set' \in SetType /\ m_Data' \in Int
  <2>1. CASE local
    BY <1>1, <2>1 DEF CountChange, SetAt, SetType
  <2>2. CASE ~local
    <3>1. set' = [set EXCEPT !.pc = "point", !.changes = 0] /\ m_Data' = m_Data
      BY <2>2 DEF CountChange
    <3>2. m_Data \in Int
      BY DEF IInv, TypeOK
    <3>3. set' \in SetType
      BY <1>1, <3>1 DEF SetType
    <3> QED
      BY <3>1, <3>2, <3>3
  <2> QED
    BY <2>1, <2>2
<1>4. TypeOK'
  BY <1>2, <1>3 DEF IInv, TypeOK, CountChange, SetType, ring, history
<1>5. ASSUME ~local PROVE set'.pc = "point" /\ set'.value = set.value
  BY <1>1, <1>5 DEF CountChange, SetType
<1>6. LastInRing'
  BY <1>5 DEF IInv, LastInRing, CountChange, ring, history
<1> QED
  BY <1>4, <1>6 DEF IInv

LEMMA TakePointIInv == IInv /\ TakePoint => IInv'
<1> SUFFICES ASSUME IInv, TakePoint PROVE IInv'
  OBVIOUS
<1> DEFINE place == IF m_iChanges > 1 /\ OnTheWay THEN "keep" ELSE "slot"
           point == Rendered(m_iChanges)
<1>1. set \in SetType /\ m_iChanges \in Nat /\ m_fElaspedTime \in Nat
  BY DEF IInv, TypeOK, SetType
<1>2. point \in Int /\ place \in {"keep", "slot"}
  BY <1>1, RenderedInt DEF IInv
<1>3. set' = [set EXCEPT !.pc = place, !.point = point, !.elapsed = m_fElaspedTime]
  BY DEF TakePoint
<1> HIDE DEF place, point
<1>4. set' \in SetType /\ set'.value = set.value /\ set'.pc \in {"keep", "slot"}
  BY <1>1, <1>2, <1>3 DEF SetType
<1>5. TypeOK'
  BY <1>4 DEF IInv, TypeOK, TakePoint, SetType, ring, history
<1>6. LastInRing'
  BY <1>4 DEF IInv, LastInRing, TakePoint, ring, history
<1> QED
  BY <1>5, <1>6 DEF IInv

LEMMA KeepTimeIInv == IInv /\ KeepTime => IInv'
<1> SUFFICES ASSUME IInv, KeepTime PROVE IInv'
  OBVIOUS
<1>1. TypeOK'
  BY DEF IInv, TypeOK, KeepTime, ring, history
<1>2. LastInRing'
  BY DEF IInv, TypeOK, LastInRing, KeepTime, NewIndex, ring, history
<1> QED
  BY <1>1, <1>2 DEF IInv

LEMMA FillSlotIInv == IInv /\ FillSlot => IInv'
<1> SUFFICES ASSUME IInv, FillSlot PROVE IInv'
  OBVIOUS
<1>1. NewIndex \in Slots
  BY RingNext DEF IInv, TypeOK, NewIndex
<1>2. TypeOK'
  BY <1>1 DEF IInv, TypeOK, FillSlot, history
<1>3. NewIndex' = NewIndex
  BY DEF FillSlot, NewIndex
<1>4. LastInRing'
  BY <1>1, <1>3 DEF IInv, TypeOK, LastInRing, FillSlot, history
<1> QED
  BY <1>2, <1>4 DEF IInv

LEMMA BandIInv == IInv /\ Band => IInv'
<1> SUFFICES ASSUME IInv, Band PROVE IInv'
  OBVIOUS
<1>1. m_ActivePositionIndex \in Slots /\ NewIndex \in Slots /\ NewIndex # m_ActivePositionIndex
  BY RingNext DEF IInv, TypeOK, NewIndex
<1>2. TypeOK'
  BY <1>1 DEF IInv, TypeOK, Band, history
<1>3. NewIndex' = NewIndex
  BY DEF Band, NewIndex
<1>4. m_DataBuffers'[NewIndex] = m_DataBuffers[NewIndex]
  BY <1>1 DEF IInv, TypeOK, Band
<1>5. LastInRing'
  BY <1>3, <1>4 DEF IInv, TypeOK, LastInRing, Band, history
<1> QED
  BY <1>2, <1>5 DEF IInv

LEMMA AdvanceIInv == IInv /\ Advance => IInv'
<1> SUFFICES ASSUME IInv, Advance PROVE IInv'
  OBVIOUS
<1>1. NewIndex \in Slots
  BY RingNext DEF IInv, TypeOK, NewIndex
<1>2. TypeOK'
  BY <1>1 DEF IInv, TypeOK, Advance, history
<1>3. LastInRing'
  BY DEF IInv, TypeOK, LastInRing, Advance, history
<1> QED
  BY <1>2, <1>3 DEF IInv

LEMMA LearnTimeIInv == IInv /\ LearnTime => IInv'
<1> SUFFICES ASSUME IInv, LearnTime PROVE IInv'
  OBVIOUS
<1>1. TypeOK'
  BY DEF IInv, TypeOK, LearnTime, history
<1>2. LastInRing'
  BY DEF IInv, TypeOK, LastInRing, LearnTime, history
<1> QED
  BY <1>1, <1>2 DEF IInv

LEMMA ResetTimeIInv == IInv /\ ResetTime => IInv'
<1> SUFFICES ASSUME IInv, ResetTime PROVE IInv'
  OBVIOUS
<1>1. TypeOK'
  BY DEF IInv, TypeOK, ResetTime, SetAt, ring, history
<1>2. LastInRing'
  BY DEF IInv, TypeOK, LastInRing, ResetTime, SetAt, ring, history
<1> QED
  BY <1>1, <1>2 DEF IInv

-----------------------------------------------------------------------------
\* The steps of GetInterpolated write nothing of the ring.
LEMMA GetKeepsRing ==
    ASSUME IInv, Render \/ ClearChanges \/ InvalidateChanges \/ GetStep
    PROVE  LastInRing'
BY DEF IInv, LastInRing, CallBegins, Render, ClearChanges, InvalidateChanges, GetStep, StoreChanges, TakeHeading,
       LoadTime, StoreTime, Lerp, Return, ring, history, NewIndex

LEMMA RenderType == IInv /\ Render => TypeOK'
<1> SUFFICES ASSUME IInv, Render PROVE TypeOK'
  OBVIOUS
<1>1. Live \in Int /\ mod_wrap(m_ActivePositionIndex - 1) \in Slots /\ Advances \in Int
  BY RingNext DEF IInv, TypeOK, Live, Advances
<1>2. shown' \in Int
  BY <1>1 DEF IInv, TypeOK, Render
<1>3. get' \in GetType
  BY <1>1 DEF IInv, TypeOK, Render, Slots, GetType
<1> QED
  BY <1>2, <1>3 DEF IInv, TypeOK, Render, CallBegins, ring, GetType

LEMMA ChangesType == IInv /\ (ClearChanges \/ InvalidateChanges) => TypeOK'
<1> SUFFICES ASSUME IInv, ClearChanges \/ InvalidateChanges PROVE TypeOK'
  OBVIOUS
<1>1. m_iChanges' \in Nat /\ renders' \in Nat /\ shown' = shown
  BY DEF IInv, TypeOK, ClearChanges, InvalidateChanges, CallBegins
<1>2. get' \in GetType
  <2>1. CASE get' = get
    BY <2>1 DEF IInv, TypeOK, GetType
  <2>2. CASE get' = [IdleGet EXCEPT !.pc = "changes", !.elapsed = m_iChanges]
    <3>1. m_iChanges \in Nat
      BY DEF IInv, TypeOK
    <3> QED
      BY <2>2, <3>1, IdleGetType DEF GetType
  <2> QED
    BY <2>1, <2>2 DEF ClearChanges, InvalidateChanges
<1> QED
  BY <1>1, <1>2 DEF IInv, TypeOK, ClearChanges, InvalidateChanges, CallBegins, ring, GetType

LEMMA GetStepType == IInv /\ GetStep => TypeOK'
<1> SUFFICES ASSUME IInv, GetStep PROVE TypeOK'
  OBVIOUS
<1>1. CASE TakeHeading
  <2>1. m_DataBuffers[m_ActivePositionIndex] \in Int /\ m_DataBuffers[get.from] \in Int
    BY DEF IInv, TypeOK
  <2>2. shown' \in Int
    BY <1>1, <2>1 DEF IInv, TypeOK, TakeHeading, Return
  <2>3. get' \in GetType
    <3>1. CASE get' = IdleGet
      BY <3>1, IdleGetType
    <3>2. CASE get' = [get EXCEPT !.pc = "load", !.to = m_ActivePositionIndex,
                          !.heading = m_DataBuffers[m_ActivePositionIndex] - m_DataBuffers[get.from]]
      <4> DEFINE h == m_DataBuffers[m_ActivePositionIndex] - m_DataBuffers[get.from]
      <4>1. h \in Int
        BY <2>1
      <4>2. get' = [get EXCEPT !.pc = "load", !.to = m_ActivePositionIndex, !.heading = h]
        BY <3>2
      <4> HIDE DEF h
      <4> QED
        BY <4>1, <4>2 DEF IInv, TypeOK, GetType
    <3> QED
      BY <1>1, <3>1, <3>2 DEF TakeHeading, Return
  <2> QED
    BY <1>1, <2>2, <2>3 DEF IInv, TypeOK, TakeHeading, ring, history, GetType
<1>2. CASE LoadTime
  <2>1. PICK h \in HalfSteps : get' = [get EXCEPT !.pc = "store", !.elapsed = m_fElaspedTime + h]
    BY <1>2 DEF LoadTime
  <2>2. m_fElaspedTime + h \in Nat
    BY BufferAssumption DEF IInv, TypeOK
  <2> QED
    BY <1>2, <2>1, <2>2 DEF IInv, TypeOK, LoadTime, ring, history
<1>3. CASE StoreTime
  BY <1>3 DEF IInv, TypeOK, StoreTime, ring, history
<1>4. CASE Lerp
  <2>1. PICK e \in {get.elapsed, m_fElaspedTime} :
          Return(Between(m_DataBuffers[get.from], m_DataBuffers[get.to], get.heading, e))
    BY <1>4 DEF Lerp
  <2>2. e \in Nat /\ get.heading \in Int
        /\ m_DataBuffers[get.from] \in Int /\ m_DataBuffers[get.to] \in Int
    BY DEF IInv, TypeOK
  <2>3. shown' \in Int
    BY <2>1, <2>2, BetweenInt DEF Return
  <2>4. get' \in GetType
    BY <2>1, IdleGetType DEF Return
  <2> QED
    BY <1>4, <2>3, <2>4 DEF IInv, TypeOK, Lerp, ring, history, GetType
<1>5. CASE StoreChanges
  <2>1. m_iChanges' \in Nat /\ get' \in GetType
    BY <1>5, IdleGetType DEF IInv, TypeOK, StoreChanges
  <2> QED
    BY <1>5, <2>1 DEF IInv, TypeOK, StoreChanges, ring, history, GetType
<1> QED
  BY <1>1, <1>2, <1>3, <1>4, <1>5 DEF GetStep

-----------------------------------------------------------------------------
LEMMA NextIInv == IInv /\ [Next]_vars => IInv'
<1> SUFFICES ASSUME IInv, [Next]_vars PROVE IInv'
  OBVIOUS
<1>1. CASE \E v \in Received : Update(v)
  BY <1>1, UpdateIInv
<1>2. CASE SetStep
  BY <1>2, CountChangeIInv, TakePointIInv, KeepTimeIInv, FillSlotIInv, BandIInv, AdvanceIInv,
     LearnTimeIInv, ResetTimeIInv DEF SetStep
<1>3. CASE Render \/ ClearChanges \/ InvalidateChanges \/ GetStep
  BY <1>3, GetKeepsRing, RenderType, ChangesType, GetStepType DEF IInv
<1>4. CASE Done \/ UNCHANGED vars
  BY <1>4 DEF IInv, TypeOK, LastInRing, NewIndex, Done, vars, ring, history
<1> QED
  BY <1>1, <1>2, <1>3, <1>4 DEF Next

\* Every variable of the model has its type: in particular the active slot is
\* always one of the four (NetVarBufferBase.h:46).
THEOREM TypeCorrect == Spec => []TypeOK
<1>1. IInv => TypeOK
  BY DEF IInv
<1> QED
  BY <1>1, InitIInv, NextIInv, PTL DEF Spec

LEMMA IInvSettles == IInv => Settles
<1> SUFFICES ASSUME IInv, ~local, updates >= 1, set.pc = "idle"
             PROVE  /\ Live = received.last
                    /\ 10 * m_fElaspedTime > 12 * TimeFrame
                        => Rendered(m_iChanges) = received.last
  BY DEF Settles
<1>1. Live = received.last /\ m_DataBuffers[m_ActivePositionIndex] = received.last
  BY DEF IInv, LastInRing, Live
<1>2. ASSUME 10 * m_fElaspedTime > 12 * TimeFrame
      PROVE  Rendered(m_iChanges) = received.last
  <2>1. ~(10 * m_fElaspedTime <= 12 * TimeFrame)
    BY <1>2, BufferAssumption DEF IInv, TypeOK
  <2> QED
    BY <1>1, <2>1 DEF Rendered, Between, To
<1> QED
  BY <1>1, <1>2

\* Between two updates the newest slot holds the position received last, and
\* with the time frame over that position is the one shown: no GetInterpolated
\* that ran into a Set can leave the point elsewhere (NetVarBufferBase.h:59-90).
THEOREM SettlesCorrect == Spec => []Settles
  BY InitIInv, NextIInv, IInvSettles, PTL DEF Spec
-----------------------------------------------------------------------------
(* That an update does not move the point shown: the start of the way holds  *)
(* that point from the banding on, and from the second update on the time    *)
(* frame is known.                                                           *)
Near == Abs(set.point - set.value) <= BandingDist

PointInRing ==
    /\ set.pc = "index" /\ Near => m_DataBuffers[m_ActivePositionIndex] = set.point
    /\ set.pc \in {"times", "reset"} /\ Near
        => m_DataBuffers[mod_wrap(m_ActivePositionIndex - 1)] = set.point

TimesKnown ==
    /\ set.pc # "idle" => updates >= 1
    /\ set.pc \notin {"idle", "count"} => ~local
    /\ ~local =>
        /\ updates >= 2 \/ (updates >= 1 /\ set.pc \in {"idle", "reset"}) => known.previous
        /\ updates >= 2 /\ set.pc = "reset" => known.frame

JInv == IInv /\ PointInRing /\ TimesKnown

LEMMA InitJInv == Init => JInv
<1> SUFFICES ASSUME Init PROVE JInv
  OBVIOUS
<1>1. set.pc = "idle" /\ updates = 0
  BY DEF Init, SetAt
<1> QED
  BY <1>1, InitIInv DEF JInv, PointInRing, TimesKnown

\* The application's steps, and those that do nothing.
LEMMA GetKeepsPoint ==
    ASSUME JInv, Render \/ ClearChanges \/ InvalidateChanges \/ GetStep \/ Done \/ UNCHANGED vars
    PROVE  PointInRing' /\ TimesKnown'
<1>1. UNCHANGED <<local, ring, set, updates>>
  BY DEF CallBegins, Render, ClearChanges, InvalidateChanges, GetStep, StoreChanges, TakeHeading,
         LoadTime, StoreTime, Lerp, Return, Done, vars, ring, history
<1> QED
  BY <1>1 DEF JInv, PointInRing, TimesKnown, Near, ring

LEMMA UpdateJInv == ASSUME JInv, NEW v \in Received, Update(v) PROVE PointInRing' /\ TimesKnown'
<1>1. set.pc = "idle" /\ updates' = updates + 1 /\ UNCHANGED <<local, known>> /\ set'.pc = "count"
  BY DEF Update, ring
<1>2. updates \in Nat
  BY DEF JInv, IInv, TypeOK
<1>3. PointInRing'
  BY <1>1 DEF PointInRing
<1>4. TimesKnown'
  BY <1>1, <1>2 DEF JInv, TimesKnown
<1> QED
  BY <1>3, <1>4

LEMMA SetStepJInv == ASSUME JInv, SetStep PROVE PointInRing' /\ TimesKnown'
<1>0. m_ActivePositionIndex \in Slots /\ NewIndex \in Slots /\ updates \in Nat
      /\ mod_wrap(NewIndex - 1) = m_ActivePositionIndex
  BY RingNext DEF JInv, IInv, TypeOK, NewIndex
<1>7. CASE CountChange
  <2>1. /\ set.pc = "count" /\ UNCHANGED <<local, known, updates>>
        /\ IF local THEN set'.pc = "idle" ELSE set'.pc = "point"
    <3>1. set \in SetType /\ local \in BOOLEAN
      BY DEF JInv, IInv, TypeOK, SetType
    <3>2. set.pc = "count" /\ UNCHANGED <<local, known, updates>>
      BY <1>7 DEF CountChange, ring, history
    <3>3. CASE local
      BY <1>7, <3>2, <3>3 DEF CountChange, SetAt
    <3>4. CASE ~local
      <4>1. set' = [set EXCEPT !.pc = "point", !.changes = 0]
        BY <1>7, <3>4 DEF CountChange
      <4> QED
        BY <3>1, <3>2, <3>4, <4>1 DEF SetType
    <3> QED
      BY <3>3, <3>4
  <2> QED
    BY <2>1 DEF JInv, PointInRing, TimesKnown
<1>8. CASE TakePoint
  <2>1. set'.pc \in {"keep", "slot"} /\ UNCHANGED <<local, known, updates>> /\ set.pc = "point"
    BY <1>8 DEF TakePoint, ring, history, JInv, IInv, TypeOK
  <2> QED
    BY <2>1 DEF JInv, PointInRing, TimesKnown
<1>6. CASE KeepTime
  <2>1. set'.pc = "slot" /\ UNCHANGED <<local, known, updates>> /\ set.pc = "keep"
    BY <1>6 DEF KeepTime, ring, history, JInv, IInv, TypeOK
  <2> QED
    BY <2>1 DEF JInv, PointInRing, TimesKnown
<1>1. CASE FillSlot
  <2>1. set'.pc = "band" /\ UNCHANGED <<local, known, updates>> /\ set.pc = "slot"
    BY <1>1 DEF FillSlot, history, JInv, IInv, TypeOK
  <2> QED
    BY <2>1 DEF JInv, PointInRing, TimesKnown
<1>2. CASE Band
  <2>1. set'.pc = "index" /\ UNCHANGED <<local, known, updates>> /\ set.pc = "band"
        /\ set'.point = set.point /\ set'.value = set.value /\ UNCHANGED m_ActivePositionIndex
    BY <1>2 DEF Band, history, JInv, IInv, TypeOK
  <2>2. Near => m_DataBuffers'[m_ActivePositionIndex] = set.point
    BY <1>0, <1>2 DEF Band, Near, JInv, IInv, TypeOK
  <2> QED
    BY <2>1, <2>2 DEF JInv, PointInRing, TimesKnown, Near
<1>3. CASE Advance
  <2>1. set'.pc = "times" /\ UNCHANGED <<local, known, updates, m_DataBuffers>>
        /\ set.pc = "index" /\ set'.point = set.point /\ set'.value = set.value
        /\ m_ActivePositionIndex' = NewIndex
    BY <1>3 DEF Advance, history, JInv, IInv, TypeOK
  <2>2. Near => m_DataBuffers[mod_wrap(NewIndex - 1)] = set.point
    BY <1>0, <2>1 DEF JInv, PointInRing
  <2> QED
    BY <2>1, <2>2 DEF JInv, PointInRing, TimesKnown, Near
<1>4. CASE LearnTime
  <2>1. set'.pc = "reset" /\ set.pc = "times" /\ set'.point = set.point /\ set'.value = set.value
        /\ UNCHANGED <<local, updates, m_DataBuffers, m_ActivePositionIndex>>
        /\ known'.previous = TRUE /\ known'.frame = (known.frame \/ known.previous)
    BY <1>4 DEF LearnTime, history, JInv, IInv, TypeOK
  <2> QED
    BY <2>1 DEF JInv, PointInRing, TimesKnown, Near
<1>5. CASE ResetTime
  <2>1. set'.pc = "idle" /\ UNCHANGED <<local, known, updates>> /\ set.pc = "reset"
    BY <1>5 DEF ResetTime, SetAt, ring, history
  <2> QED
    BY <2>1 DEF JInv, PointInRing, TimesKnown
<1> QED
  BY <1>1, <1>2, <1>3, <1>4, <1>5, <1>6, <1>7, <1>8 DEF SetStep

LEMMA NextJInv == JInv /\ [Next]_vars => JInv'
<1> SUFFICES ASSUME JInv, [Next]_vars PROVE JInv'
  OBVIOUS
<1>1. IInv'
  BY NextIInv DEF JInv
<1>2. PointInRing' /\ TimesKnown'
  BY UpdateJInv, SetStepJInv, GetKeepsPoint DEF Next
<1> QED
  BY <1>1, <1>2 DEF JInv

\* No elapsed time, no way gone.
LEMMA BetweenStart ==
    ASSUME NEW a \in Int, NEW b \in Int, NEW h \in Int
    PROVE  Between(a, b, h, 0) = a
<1>1. TimeFrame \in Nat /\ TimeFrame > 0
  BY BufferAssumption
<1>2. h * 0 = 0 /\ 0 \div TimeFrame = 0 /\ 10 * 0 <= 12 * TimeFrame
  BY <1>1
<1> QED
  BY <1>2 DEF Between

NoJumpStep ==
    (set.pc = "reset" /\ set'.pc = "idle" /\ updates >= 2 /\ m_iChanges >= 2
     /\ Abs(set.point - set.value) <= MaxDistance) => (Rendered(m_iChanges))' = set.point

LEMMA JInvNoJump == JInv /\ [Next]_vars => NoJumpStep
<1> SUFFICES ASSUME JInv, [Next]_vars, set.pc = "reset", set'.pc = "idle", updates >= 2,
                    m_iChanges >= 2, Abs(set.point - set.value) <= MaxDistance
             PROVE  (Rendered(m_iChanges))' = set.point
  BY DEF NoJumpStep
<1>1. ResetTime
  <2>1. set' # set
    OBVIOUS
  <2>2. ~Render /\ ~ClearChanges /\ ~InvalidateChanges /\ ~GetStep
    BY <2>1 DEF CallBegins, Render, ClearChanges, InvalidateChanges, GetStep, StoreChanges,
                TakeHeading, LoadTime, StoreTime, Lerp
  <2>3. ~Done /\ ~UNCHANGED vars
    BY <2>1 DEF Done, vars
  <2>4. ~(\E v \in Received : Update(v))
    BY DEF Update
  <2>5. SetStep => ResetTime
    BY DEF SetStep, CountChange, TakePoint, KeepTime, FillSlot, Band, Advance, LearnTime
  <2> QED
    BY <2>2, <2>3, <2>4, <2>5 DEF Next
<1>2. UNCHANGED <<local, ring, m_iChanges>> /\ m_fElaspedTime' = 0
  BY <1>1 DEF ResetTime
<1>3. set.point \in Int /\ set.value \in Int /\ m_iChanges \in Nat /\ updates \in Nat
  BY DEF JInv, IInv, TypeOK
<1>4. Near
  <2>1. MaxDistance \in Nat /\ BandingDist \in Nat /\ MaxDistance <= BandingDist
    <3>1. Unit \in Nat
      BY BufferAssumption
    <3> QED
      BY <3>1 DEF BandingDist, MaxDistance
  <2>2. Abs(set.point - set.value) \in Int
    BY <1>3 DEF Abs
  <2> QED
    BY <2>1, <2>2 DEF Near
<1>5. m_DataBuffers[mod_wrap(m_ActivePositionIndex - 1)] = set.point
  BY <1>4 DEF JInv, PointInRing
<1>6. ~local /\ m_iChanges >= 2 /\ known.frame
  BY <1>3 DEF JInv, TimesKnown
<1>7. m_DataBuffers[m_ActivePositionIndex] = received.last
  BY <1>6 DEF JInv, IInv, LastInRing
<1>8. m_DataBuffers[m_ActivePositionIndex] = set.value
  BY <1>6, <1>7 DEF JInv, IInv, LastInRing
<1>9. Between(set.point, set.value, set.value - set.point, 0) = set.point
  BY <1>3, BetweenStart
<1>10. Abs(set.value - set.point) <= MaxDistance
  BY <1>3, BufferAssumption DEF Abs, MaxDistance
<1>11. (From)' = set.point /\ (To)' = set.value /\ (OnTheWay)' /\ (m_iChanges > 1)'
  BY <1>2, <1>3, <1>5, <1>6, <1>8, <1>10 DEF OnTheWay, From, To, ring
<1>12. (Rendered(m_iChanges))' = Between(set.point, set.value, set.value - set.point, 0)
  BY <1>2, <1>3, <1>11 DEF Rendered
<1> QED
  BY <1>9, <1>12

\* A Set of the network thread leaves the point where it was shown when the Set
\* began, if the new position is near enough to move to, whatever the application
\* calls meanwhile, unless ClearChanges has switched interpolation off: the
\* rubber-banding of NetVarBufferBase.h:62-74.
THEOREM NoJumpCorrect == Spec => NoJump
<1>1. JInv /\ [Next]_vars => [NoJumpStep]_vars
  BY JInvNoJump
<1>2. [][NoJumpStep]_vars => NoJump
  BY PTL DEF NoJump, NoJumpStep
<1> QED
  BY <1>1, <1>2, InitJInv, NextJInv, PTL DEF Spec
-----------------------------------------------------------------------------
(* That nothing is made up.  A slot is filled once the active slot has moved *)
(* on to it; a filled slot holds a received position, or a point that an     *)
(* update worked out from two of them and that may be past them by the       *)
(* overshoot.  A reader keeps a reference to the slot before the active one, *)
(* which the ring reaches again with the third update from then.             *)
InWide(x) == received.low - Overshoot <= x /\ x <= received.high + Overshoot
InNarrow(x) == received.low <= x /\ x <= received.high
Filled(s) == Advances >= 4 \/ (1 <= s /\ s <= Advances)

Counted ==
    /\ Advances \in Nat /\ m_ActivePositionIndex = Advances % 4
    /\ known.previous => Advances >= 1
    /\ known.previous /\ set.pc = "times" => Advances >= 2
    /\ known.frame => Advances >= 2
    /\ updates >= 1 => InNarrow(received.last)

SlotsHold == \A s \in Slots : Filled(s) => InWide(m_DataBuffers[s])
ActiveHolds == Advances >= 1 /\ set.pc # "index" => InNarrow(m_DataBuffers[m_ActivePositionIndex])
PointHolds == Advances >= 1 /\ set.pc \in {"keep", "slot", "band"} => InWide(set.point)
RingHolds == Counted /\ SlotsHold /\ ActiveHolds /\ PointHolds

\* What GetInterpolated has in its hands, unless three updates ran into it.
HandHolds ==
    get.pc # "idle" /\ get.began >= 2 =>
        /\ get.began <= Advances /\ get.from = (get.began - 1) % 4
        /\ get.pc # "heading" /\ updates - get.began < 3
            => /\ Filled(get.to)
               /\ InWide(m_DataBuffers[get.from] + get.heading)
               /\ -MaxDistance <= get.heading /\ get.heading <= MaxDistance

\* InvalidateChanges is not a GetInterpolated.
ChangesApart == get.pc = "changes" => get.began = 0

KInv == JInv /\ ChangesApart /\ (~local => RingHolds /\ HandHolds)

LEMMA OvershootNat == Overshoot \in Nat /\ MaxDistance \in Nat /\ 5 * Overshoot >= MaxDistance
                      /\ (\A x \in Int : 5 * x <= MaxDistance + 4 => x <= Overshoot)
<1>1. Unit \in Nat
  BY BufferAssumption
<1> QED
  BY <1>1 DEF Overshoot, MaxDistance

\* Slots a number of moves apart.
LEMMA RingCount ==
    ASSUME NEW n \in Nat
    PROVE  /\ n % 4 \in Slots /\ (n + 1) % 4 \in Slots
           /\ mod_wrap((n % 4) + 1) = (n + 1) % 4
           /\ n >= 1 => (n - 1) % 4 \in Slots /\ mod_wrap((n % 4) - 1) = (n - 1) % 4
           /\ n < 4 => n % 4 = n
           /\ n < 3 => (n + 1) % 4 = n + 1
           /\ n % 4 # (n + 1) % 4
BY DEF Slots, mod_wrap

LEMMA RingFar ==
    ASSUME NEW n \in Nat, NEW b \in Nat, b >= 2, b <= n, n <= b + 1
    PROVE  n % 4 # (b - 1) % 4 /\ (n + 1) % 4 # (b - 1) % 4
OBVIOUS

LEMMA MulMono == ASSUME NEW x \in Int, NEW y \in Int, NEW z \in Int, z >= 0, x <= y PROVE x * z <= y * z
  OBVIOUS
LEMMA MulCancel == ASSUME NEW x \in Int, NEW y \in Int, NEW z \in Int, z > 0, x * z <= y * z PROVE x <= y
  OBVIOUS
LEMMA MulCancelStrict ==
    ASSUME NEW x \in Int, NEW y \in Int, NEW z \in Int, z > 0, x * z < y * z PROVE x < y
  OBVIOUS
LEMMA DivBounds ==
    ASSUME NEW x \in Int, NEW z \in Int, z > 0
    PROVE  x \div z \in Int /\ (x \div z) * z <= x /\ x < ((x \div z) + 1) * z
  OBVIOUS

\* How far the lerp of GetInterpolated gets: up to a time of 1.2 frames it stays
\* between the ends of the way or passes the second by the overshoot.
LEMMA WayBound ==
    ASSUME NEW h \in Int, NEW e \in Nat, 10 * e <= 12 * TimeFrame,
           -MaxDistance <= h, h <= MaxDistance
    PROVE  /\ (h * e) \div TimeFrame \in Int
           /\ h >= 0 => 0 <= (h * e) \div TimeFrame /\ (h * e) \div TimeFrame <= h + Overshoot
           /\ h <= 0 => h - Overshoot <= (h * e) \div TimeFrame /\ (h * e) \div TimeFrame <= 0
<1> DEFINE q == (h * e) \div TimeFrame
<1>1. TimeFrame \in Int /\ TimeFrame > 0 /\ h * e \in Int
  BY BufferAssumption
<1>2. q \in Int /\ q * TimeFrame <= h * e /\ h * e < (q + 1) * TimeFrame
  BY <1>1, DivBounds
<1> HIDE DEF q
<1>3. ASSUME h >= 0 PROVE 0 <= q /\ q <= h + Overshoot
  <2>1. 0 * e <= h * e
    BY <1>3, MulMono
  <2>2. 0 * TimeFrame < (q + 1) * TimeFrame
    BY <1>1, <1>2, <2>1
  <2>3. 0 < q + 1
    BY <1>1, <1>2, <2>2, MulCancelStrict
  <2>4. (10 * e) * h <= (12 * TimeFrame) * h
    BY <1>1, <1>3, MulMono
  <2>5. (10 * q) * TimeFrame <= (12 * h) * TimeFrame
    BY <1>1, <1>2, <2>4
  <2>6. 10 * q <= 12 * h
    BY <1>1, <1>2, <2>5, MulCancel
  <2>7. 5 * (q - h) <= MaxDistance
    BY <1>2, <2>6, OvershootNat
  <2>8. q - h <= Overshoot
    BY <1>2, <2>7, OvershootNat
  <2> QED
    BY <1>2, <2>3, <2>8, OvershootNat
<1>4. ASSUME h <= 0 PROVE h - Overshoot <= q /\ q <= 0
  <2>1. h * e <= 0 * e
    BY <1>4, MulMono
  <2>2. q * TimeFrame <= 0 * TimeFrame
    BY <1>1, <1>2, <2>1
  <2>3. q <= 0
    BY <1>1, <1>2, <2>2, MulCancel
  <2>4. (10 * e) * (-h) <= (12 * TimeFrame) * (-h)
    BY <1>1, <1>4, MulMono
  <2>5. (12 * h) * TimeFrame < (10 * (q + 1)) * TimeFrame
    BY <1>1, <1>2, <2>4
  <2>6. 12 * h < 10 * (q + 1)
    BY <1>1, <1>2, <2>5, MulCancelStrict
  <2>7. 5 * (h - q) <= MaxDistance + 4
    BY <1>2, <2>6, OvershootNat
  <2>8. h - q <= Overshoot
    BY <1>2, <2>7, OvershootNat
  <2> QED
    BY <1>2, <2>3, <2>8, OvershootNat
<1> QED
  BY <1>2, <1>3, <1>4 DEF q

LEMMA AbsBound == ASSUME NEW x \in Int, NEW m \in Int, Abs(x) <= m PROVE -m <= x /\ x <= m
  BY DEF Abs

\* What Set works out before it takes the new position, from the third update on
\* with the slot before the active one, is within the overshoot.
LEMMA RenderedWide ==
    ASSUME KInv, ~local, set.pc = "point", Advances >= 1, NEW c \in Nat
    PROVE  InWide(Rendered(c))
<1>1. TypeOK /\ Counted /\ SlotsHold /\ ActiveHolds /\ Advances \in Nat
  BY DEF KInv, RingHolds, JInv, IInv, Counted
<1>2. received.low \in Int /\ received.high \in Int /\ m_fElaspedTime \in Nat /\ Overshoot \in Nat
      /\ To \in Int /\ From \in Int
  BY <1>1, OvershootNat, RingNext DEF TypeOK, To, From
<1>3. InNarrow(To)
  BY <1>1 DEF ActiveHolds, To
<1>4. CASE c <= 1 \/ ~OnTheWay
  <2>1. Live = To
    BY DEF Live, To
  <2> QED
    BY <1>2, <1>3, <1>4, <2>1 DEF Rendered, InWide, InNarrow
<1>5. CASE c > 1 /\ OnTheWay
  <2>1. Advances >= 2
    BY <1>1, <1>5 DEF Counted, OnTheWay
  <2>2. Filled((Advances - 1) % 4)
    <3>1. CASE Advances >= 4
      BY <3>1 DEF Filled
    <3>2. CASE Advances < 4
      <4>1. (Advances - 1) % 4 = Advances - 1
        BY <1>1, <2>1, <3>2
      <4> QED
        BY <1>1, <2>1, <4>1 DEF Filled
    <3> QED
      BY <1>1, <3>1, <3>2
  <2>3. From = m_DataBuffers[(Advances - 1) % 4] /\ (Advances - 1) % 4 \in Slots
    BY <1>1, <2>1, RingCount DEF From, Counted
  <2>4. InWide(From)
    BY <1>1, <2>2, <2>3 DEF SlotsHold
  <2>5. -MaxDistance <= To - From /\ To - From <= MaxDistance /\ To - From \in Int
    BY <1>2, <1>5, OvershootNat, AbsBound DEF OnTheWay
  <2>6. CASE ~(10 * m_fElaspedTime <= 12 * TimeFrame)
    BY <1>2, <1>3, <1>5, <2>6 DEF Rendered, Between, InWide, InNarrow
  <2>7. CASE 10 * m_fElaspedTime <= 12 * TimeFrame
    <3> DEFINE q == ((To - From) * m_fElaspedTime) \div TimeFrame
    <3>1. /\ q \in Int
          /\ To - From >= 0 => 0 <= q /\ q <= (To - From) + Overshoot
          /\ To - From <= 0 => (To - From) - Overshoot <= q /\ q <= 0
      BY <1>2, <2>5, <2>7, WayBound
    <3>2. Rendered(c) = From + q
      BY <1>5, <2>7 DEF Rendered, Between
    <3> HIDE DEF q
    <3> QED
      BY <1>2, <1>3, <2>4, <3>1, <3>2 DEF InWide, InNarrow
  <2> QED
    BY <2>6, <2>7
<1> QED
  BY <1>4, <1>5

-----------------------------------------------------------------------------
LEMMA InitKInv == Init => KInv
<1> SUFFICES ASSUME Init PROVE KInv
  OBVIOUS
<1>1. Advances = 0 /\ get.pc = "idle" /\ m_ActivePositionIndex = 0 /\ ~known.previous /\ ~known.frame
      /\ updates = 0
  <2>1. set.pc = "idle" /\ updates = 0 /\ get.pc = "idle"
    BY DEF Init, SetAt, IdleGet
  <2>2. Advances = 0
    <3>1. Advances = updates - 0
      BY <2>1 DEF Advances
    <3> QED
      BY <2>1, <3>1
  <2>3. m_ActivePositionIndex = 0 /\ ~known.previous /\ ~known.frame
    BY DEF Init
  <2> QED
    BY <2>1, <2>2, <2>3
<1>2. Counted
  BY <1>1 DEF Counted
<1>3. SlotsHold
  BY <1>1 DEF SlotsHold, Filled, Slots
<1> QED
  BY <1>1, <1>2, <1>3, InitJInv DEF KInv, ChangesApart, RingHolds, ActiveHolds, PointHolds, HandHolds

\* An update widens what has been received; the ring is as it was.
LEMMA UpdateRing ==
    ASSUME KInv, ~local, NEW v \in Received, Update(v)
    PROVE  RingHolds' /\ HandHolds'
<1>1. TypeOK /\ Counted /\ SlotsHold /\ ActiveHolds /\ HandHolds /\ updates \in Nat /\ v \in Int
      /\ set.pc = "idle" /\ Advances = updates
  BY BufferAssumption DEF KInv, RingHolds, JInv, IInv, Advances, TypeOK, Update
<1>2. updates' = updates + 1 /\ UNCHANGED <<m_DataBuffers, m_ActivePositionIndex, known, get>>
      /\ set'.pc = "count" /\ received'.last = v
  BY DEF Update, ring
<1>3. Advances' = Advances
  BY <1>1, <1>2 DEF Advances
<1>4. received.low \in Int /\ received.high \in Int /\ Overshoot \in Nat
      /\ received'.low \in Int /\ received'.high \in Int
  BY <1>1, OvershootNat DEF Update, TypeOK
<1>5. updates >= 1 => received'.low <= received.low /\ received.high <= received'.high
  BY <1>1, <1>4 DEF Update
<1>6. received'.low <= v /\ v <= received'.high
  BY <1>1, <1>4 DEF Update
<1>7. Counted'
  BY <1>1, <1>2, <1>3, <1>6 DEF Counted, InNarrow
<1>8. ASSUME NEW x \in Int, Advances >= 1
      PROVE  (InWide(x) => x >= received'.low - Overshoot /\ x <= received'.high + Overshoot)
             /\ (InNarrow(x) => x >= received'.low /\ x <= received'.high)
  BY <1>1, <1>4, <1>5, <1>8 DEF InWide, InNarrow
<1>9. SlotsHold'
  <2> SUFFICES ASSUME NEW s \in Slots, Filled(s) PROVE InWide(m_DataBuffers[s])'
    BY <1>2, <1>3 DEF SlotsHold, Filled
  <2>1. Advances >= 1 /\ m_DataBuffers[s] \in Int /\ InWide(m_DataBuffers[s])
    BY <1>1 DEF Filled, SlotsHold, TypeOK, Slots
  <2> QED
    BY <1>2, <1>4, <1>8, <2>1 DEF InWide
<1>10. ActiveHolds'
  <2>1. m_DataBuffers[m_ActivePositionIndex] \in Int
    BY <1>1 DEF TypeOK
  <2> QED
    BY <1>1, <1>2, <1>3, <1>4, <1>8, <2>1 DEF ActiveHolds, InNarrow
<1>11. PointHolds'
  BY <1>2 DEF PointHolds
<1>12. HandHolds'
  <2> SUFFICES ASSUME get.pc # "idle", get.began >= 2
               PROVE  /\ get.began <= Advances /\ get.from = (get.began - 1) % 4
                      /\ get.pc # "heading" /\ updates' - get.began < 3
                          => /\ Filled(get.to)
                             /\ InWide(m_DataBuffers[get.from] + get.heading)'
                             /\ -MaxDistance <= get.heading /\ get.heading <= MaxDistance
    BY <1>2, <1>3 DEF HandHolds, Filled
  <2>1. get.began <= Advances /\ get.from = (get.began - 1) % 4 /\ get.began \in Int
    BY <1>1 DEF HandHolds, TypeOK
  <2>2. ASSUME get.pc # "heading", updates' - get.began < 3
        PROVE  /\ Filled(get.to)
               /\ InWide(m_DataBuffers[get.from] + get.heading)'
               /\ -MaxDistance <= get.heading /\ get.heading <= MaxDistance
    <3>1. updates - get.began < 3
      BY <1>1, <1>2, <2>1, <2>2
    <3>2. Filled(get.to) /\ InWide(m_DataBuffers[get.from] + get.heading)
          /\ -MaxDistance <= get.heading /\ get.heading <= MaxDistance
      BY <1>1, <2>2, <3>1 DEF HandHolds
    <3>3. m_DataBuffers[get.from] + get.heading \in Int /\ Advances >= 1
      BY <1>1, <2>1 DEF TypeOK
    <3>4. InWide(m_DataBuffers[get.from] + get.heading)'
      BY <1>2, <1>4, <1>8, <3>2, <3>3 DEF InWide
    <3> QED
      BY <3>2, <3>4
  <2> QED
    BY <2>1, <2>2
<1> QED
  BY <1>7, <1>9, <1>10, <1>11, <1>12 DEF RingHolds

\* A slot that is written while a GetInterpolated holds a reference to another.
LEMMA HandKept ==
    ASSUME TypeOK, HandHolds, Counted, UNCHANGED <<get, received, updates>>, Advances' \in Nat,
           Advances <= Advances', NEW i \in Slots, NEW x, m_DataBuffers' = [m_DataBuffers EXCEPT ![i] = x],
           get.pc # "idle" /\ get.began >= 2 /\ updates - get.began < 3 => i # get.from
    PROVE  HandHolds'
<1> SUFFICES ASSUME get.pc # "idle", get.began >= 2
             PROVE  /\ get.began <= Advances' /\ get.from = (get.began - 1) % 4
                    /\ get.pc # "heading" /\ updates - get.began < 3
                        => /\ Filled(get.to)'
                           /\ InWide(m_DataBuffers[get.from] + get.heading)'
                           /\ -MaxDistance <= get.heading /\ get.heading <= MaxDistance
  BY DEF HandHolds
<1>1. get.began \in Int /\ Advances \in Nat /\ get.to \in Slots /\ get.from \in Slots
  BY DEF TypeOK, Counted
<1>2. get.began <= Advances' /\ get.from = (get.began - 1) % 4
  BY <1>1 DEF HandHolds
<1>3. ASSUME get.pc # "heading", updates - get.began < 3
      PROVE  /\ Filled(get.to)'
             /\ InWide(m_DataBuffers[get.from] + get.heading)'
             /\ -MaxDistance <= get.heading /\ get.heading <= MaxDistance
  <2>1. Filled(get.to) /\ InWide(m_DataBuffers[get.from] + get.heading)
        /\ -MaxDistance <= get.heading /\ get.heading <= MaxDistance
    BY <1>3 DEF HandHolds
  <2>2. Filled(get.to)'
    BY <1>1, <2>1 DEF Filled, Slots
  <2>3. m_DataBuffers'[get.from] = m_DataBuffers[get.from]
    BY <1>1, <1>3 DEF TypeOK
  <2>4. InWide(m_DataBuffers[get.from] + get.heading)'
    BY <2>1, <2>3 DEF InWide
  <2> QED
    BY <2>1, <2>2, <2>4
<1> QED
  BY <1>2, <1>3

\* The point that a Set works out.
LEMMA TakePointRing ==
    ASSUME KInv, ~local, TakePoint
    PROVE  RingHolds' /\ HandHolds'
<1>1. TypeOK /\ Counted /\ SlotsHold /\ ActiveHolds /\ HandHolds /\ updates \in Nat
      /\ m_iChanges \in Nat
  BY DEF KInv, RingHolds, JInv, IInv, TypeOK
<1>2. UNCHANGED <<m_DataBuffers, m_ActivePositionIndex, known, get, received, updates>>
      /\ set.pc = "point"
  BY DEF TakePoint, ring, history
<1>3. set'.pc \in {"keep", "slot"} /\ set'.point = Rendered(m_iChanges)
  <2> DEFINE place == IF m_iChanges > 1 /\ OnTheWay THEN "keep" ELSE "slot"
             point == Rendered(m_iChanges)
  <2>1. set' = [set EXCEPT !.pc = place, !.point = point, !.elapsed = m_fElaspedTime]
    BY DEF TakePoint
  <2>2. place \in {"keep", "slot"}
    OBVIOUS
  <2> HIDE DEF place, point
  <2>3. set'.pc = place /\ set'.point = point
    BY <1>1, <2>1 DEF TypeOK
  <2> QED
    BY <2>2, <2>3 DEF point
<1>4. Advances' = Advances
  BY <1>2, <1>3 DEF Advances
<1>5. Counted'
  BY <1>1, <1>2, <1>3, <1>4 DEF Counted, InNarrow
<1>6. SlotsHold'
  BY <1>1, <1>2, <1>4 DEF SlotsHold, Filled, InWide
<1>7. ActiveHolds'
  BY <1>1, <1>2, <1>4 DEF ActiveHolds, InNarrow
<1>8. PointHolds'
  <2>1. Advances >= 1 => InWide(Rendered(m_iChanges))
    BY <1>1, <1>2, RenderedWide
  <2> QED
    BY <1>2, <1>3, <1>4, <2>1 DEF PointHolds, InWide
<1>9. HandHolds'
  BY <1>1, <1>2, <1>4 DEF HandHolds, Filled, InWide
<1> QED
  BY <1>5, <1>6, <1>7, <1>8, <1>9 DEF RingHolds

\* The other steps of Set that leave the slots as they are.
LEMMA QuietSetRing ==
    ASSUME KInv, ~local, CountChange \/ KeepTime \/ LearnTime \/ ResetTime
    PROVE  RingHolds' /\ HandHolds'
<1>1. TypeOK /\ Counted /\ SlotsHold /\ ActiveHolds /\ PointHolds /\ HandHolds /\ updates \in Nat
  BY DEF KInv, RingHolds, JInv, IInv, TypeOK
<1>2. UNCHANGED <<m_DataBuffers, m_ActivePositionIndex, get, received, updates>>
  BY DEF CountChange, KeepTime, LearnTime, ResetTime, ring, history
<1>3. set.pc \in {"count", "keep", "times", "reset"} /\ set'.pc \in {"point", "slot", "reset", "idle"}
      /\ (set'.pc = "slot" => set.pc = "keep" /\ set'.point = set.point)
      /\ (set.pc = "keep" => set'.pc = "slot") /\ (set.pc = "count" <=> set'.pc = "point")
  <2>1. set \in SetType
    BY <1>1 DEF TypeOK, SetType
  <2>2. CASE CountChange
    <3>1. set.pc = "count" /\ set' = [set EXCEPT !.pc = "point", !.changes = 0]
      BY <2>2 DEF CountChange
    <3> QED
      BY <2>1, <3>1 DEF SetType
  <2>3. CASE KeepTime \/ LearnTime \/ ResetTime
    BY <1>1, <2>3 DEF KeepTime, LearnTime, ResetTime, SetAt, TypeOK
  <2> QED
    BY <2>2, <2>3
<1>4. Advances' = Advances
  BY <1>2, <1>3 DEF Advances
<1>5. Counted'
  <2>1. CASE LearnTime
    <3>1. set.pc = "times" /\ set'.pc = "reset" /\ known'.frame = (known.frame \/ known.previous)
      BY <2>1, <1>1 DEF LearnTime, TypeOK
    <3>2. updates >= 1 /\ Advances = updates
      BY <1>1, <3>1 DEF KInv, JInv, TimesKnown, Advances
    <3>3. known'.frame => Advances >= 2
      BY <1>1, <3>1 DEF Counted
    <3> QED
      BY <1>1, <1>2, <1>4, <3>1, <3>2 DEF Counted, InNarrow
  <2>2. CASE CountChange \/ KeepTime \/ ResetTime
    <3>1. UNCHANGED known /\ set'.pc # "times"
      BY <1>3, <2>2 DEF CountChange, KeepTime, ResetTime, ring
    <3> QED
      BY <1>1, <1>2, <1>4, <3>1 DEF Counted, InNarrow
  <2> QED
    BY <2>1, <2>2
<1>6. SlotsHold'
  BY <1>1, <1>2, <1>4 DEF SlotsHold, Filled, InWide
<1>7. ActiveHolds'
  BY <1>1, <1>2, <1>3, <1>4 DEF ActiveHolds, InNarrow
<1>8. PointHolds'
  BY <1>1, <1>2, <1>3, <1>4 DEF PointHolds, InWide
<1>9. HandHolds'
  BY <1>1, <1>2, <1>4 DEF HandHolds, Filled, InWide
<1> QED
  BY <1>5, <1>6, <1>7, <1>8, <1>9 DEF RingHolds

\* The new position goes into the slot that was filled longest ago.
LEMMA FillSlotRing ==
    ASSUME KInv, ~local, FillSlot
    PROVE  RingHolds' /\ HandHolds'
<1>1. TypeOK /\ Counted /\ SlotsHold /\ ActiveHolds /\ PointHolds /\ HandHolds /\ updates \in Nat
      /\ received.low \in Int /\ received.high \in Int /\ Overshoot \in Nat
  BY OvershootNat DEF KInv, RingHolds, JInv, IInv, TypeOK
<1>2. UNCHANGED <<m_ActivePositionIndex, known, get, received, updates>>
      /\ set.pc = "slot" /\ set'.pc = "band" /\ set'.point = set.point
      /\ m_DataBuffers' = [m_DataBuffers EXCEPT ![NewIndex] = set.value]
  BY <1>1 DEF FillSlot, history, TypeOK
<1>3. Advances' = Advances /\ Advances + 1 = updates /\ updates >= 1 /\ Advances \in Nat
  BY <1>1, <1>2 DEF Advances, KInv, JInv, TimesKnown
<1>4. NewIndex = (Advances + 1) % 4 /\ NewIndex \in Slots /\ NewIndex # m_ActivePositionIndex
      /\ m_ActivePositionIndex \in Slots
  BY <1>1, <1>3, RingCount DEF Counted, NewIndex
<1>5. set.value = received.last /\ set.value \in Int /\ InNarrow(set.value)
  BY <1>1, <1>2, <1>3 DEF KInv, JInv, IInv, LastInRing, TypeOK, Counted
<1>6. Counted'
  BY <1>1, <1>2, <1>3 DEF Counted, InNarrow
<1>7. SlotsHold'
  <2> SUFFICES ASSUME NEW s \in Slots, Filled(s) PROVE InWide(m_DataBuffers[s])'
    BY <1>3 DEF SlotsHold, Filled
  <2>1. CASE s = NewIndex
    <3>1. m_DataBuffers'[s] = set.value
      BY <1>1, <1>2, <2>1 DEF TypeOK
    <3> QED
      BY <1>1, <1>2, <1>5, <3>1 DEF InWide, InNarrow
  <2>2. CASE s # NewIndex
    <3>1. m_DataBuffers'[s] = m_DataBuffers[s]
      BY <1>1, <1>2, <2>2 DEF TypeOK
    <3> QED
      BY <1>1, <1>2, <3>1 DEF InWide, SlotsHold
  <2> QED
    BY <2>1, <2>2
<1>8. ActiveHolds'
  <2>1. m_DataBuffers'[m_ActivePositionIndex] = m_DataBuffers[m_ActivePositionIndex]
    BY <1>1, <1>2, <1>4 DEF TypeOK
  <2> QED
    BY <1>1, <1>2, <1>3, <2>1 DEF ActiveHolds, InNarrow
<1>9. PointHolds'
  BY <1>1, <1>2, <1>3 DEF PointHolds, InWide
<1>10. HandHolds'
  <2>1. ASSUME get.pc # "idle", get.began >= 2, updates - get.began < 3 PROVE NewIndex # get.from
    <3>1. get.began \in Nat /\ get.began <= Advances /\ get.from = (get.began - 1) % 4
      BY <1>1, <2>1 DEF HandHolds, TypeOK
    <3>2. Advances <= get.began + 1
      BY <1>3, <2>1, <3>1
    <3> QED
      BY <1>3, <1>4, <2>1, <3>1, <3>2, RingFar
  <2>2. UNCHANGED <<get, received, updates>> /\ Advances' \in Nat /\ Advances <= Advances'
    BY <1>2, <1>3
  <2> QED
    BY <1>1, <1>2, <1>4, <2>1, <2>2, HandKept
<1> QED
  BY <1>6, <1>7, <1>8, <1>9, <1>10 DEF RingHolds

\* The point goes into the active slot, which no reader left behind by fewer than
\* three updates has the start of its way in.
LEMMA BandRing ==
    ASSUME KInv, ~local, Band
    PROVE  RingHolds' /\ HandHolds'
<1>1. TypeOK /\ Counted /\ SlotsHold /\ ActiveHolds /\ PointHolds /\ HandHolds /\ updates \in Nat
      /\ received.low \in Int /\ received.high \in Int /\ Overshoot \in Nat
  BY OvershootNat DEF KInv, RingHolds, JInv, IInv, TypeOK
<1>2. UNCHANGED <<m_ActivePositionIndex, known, get, received, updates>>
      /\ set.pc = "band" /\ set'.pc = "index"
  BY <1>1 DEF Band, history, TypeOK
<1>3. Advances' = Advances /\ Advances + 1 = updates /\ updates >= 1 /\ Advances \in Nat
  BY <1>1, <1>2 DEF Advances, KInv, JInv, TimesKnown
<1>4. m_ActivePositionIndex = Advances % 4 /\ m_ActivePositionIndex \in Slots
  BY <1>1, <1>3, RingCount DEF Counted
<1>5. PICK x : /\ m_DataBuffers' = [m_DataBuffers EXCEPT ![m_ActivePositionIndex] = x]
               /\ x = set.point \/ x = m_DataBuffers[m_ActivePositionIndex]
  <2>1. CASE Near
    BY <2>1 DEF Band, Near
  <2>2. CASE ~Near
    <3>1. m_DataBuffers' = m_DataBuffers
      BY <2>2 DEF Band, Near
    <3>2. m_DataBuffers' = [m_DataBuffers EXCEPT ![m_ActivePositionIndex]
                              = m_DataBuffers[m_ActivePositionIndex]]
      BY <1>1, <1>4, <3>1 DEF TypeOK
    <3> QED
      BY <3>2
  <2> QED
    BY <2>1, <2>2
<1>6. Counted'
  BY <1>1, <1>2, <1>3 DEF Counted, InNarrow
<1>7. SlotsHold'
  <2> SUFFICES ASSUME NEW s \in Slots, Filled(s) PROVE InWide(m_DataBuffers[s])'
    BY <1>3 DEF SlotsHold, Filled
  <2>1. CASE s = m_ActivePositionIndex
    <3>1. m_DataBuffers'[s] = x
      BY <1>1, <1>4, <1>5, <2>1 DEF TypeOK
    <3>2. Advances >= 1
      BY <1>3 DEF Filled, Slots
    <3>3. InWide(set.point) /\ InWide(m_DataBuffers[s])
      BY <1>1, <1>2, <3>2 DEF PointHolds, SlotsHold
    <3>4. InWide(x)
      BY <1>5, <2>1, <3>3
    <3> QED
      BY <1>2, <3>1, <3>4 DEF InWide
  <2>2. CASE s # m_ActivePositionIndex
    <3>1. m_DataBuffers'[s] = m_DataBuffers[s]
      BY <1>1, <1>5, <2>2 DEF TypeOK
    <3> QED
      BY <1>1, <1>2, <3>1 DEF InWide, SlotsHold
  <2> QED
    BY <2>1, <2>2
<1>8. ActiveHolds' /\ PointHolds'
  BY <1>2 DEF ActiveHolds, PointHolds
<1>9. HandHolds'
  <2>1. ASSUME get.pc # "idle", get.began >= 2, updates - get.began < 3
        PROVE  m_ActivePositionIndex # get.from
    <3>1. get.began \in Nat /\ get.began <= Advances /\ get.from = (get.began - 1) % 4
      BY <1>1, <2>1 DEF HandHolds, TypeOK
    <3>2. Advances <= get.began + 1
      BY <1>3, <2>1, <3>1
    <3> QED
      BY <1>3, <1>4, <2>1, <3>1, <3>2, RingFar
  <2>2. UNCHANGED <<get, received, updates>> /\ Advances' \in Nat /\ Advances <= Advances'
    BY <1>2, <1>3
  <2> QED
    BY <1>1, <1>4, <1>5, <2>1, <2>2, HandKept
<1> QED
  BY <1>6, <1>7, <1>8, <1>9 DEF RingHolds

LEMMA AdvanceRing ==
    ASSUME KInv, ~local, Advance
    PROVE  RingHolds' /\ HandHolds'
<1>1. TypeOK /\ Counted /\ SlotsHold /\ ActiveHolds /\ PointHolds /\ HandHolds /\ updates \in Nat
      /\ received.low \in Int /\ received.high \in Int /\ Overshoot \in Nat
  BY OvershootNat DEF KInv, RingHolds, JInv, IInv, TypeOK
<1>2. UNCHANGED <<m_DataBuffers, known, get, received, updates>>
      /\ set.pc = "index" /\ set'.pc = "times" /\ m_ActivePositionIndex' = NewIndex
  BY <1>1 DEF Advance, history, TypeOK
<1>3. Advances' = Advances + 1 /\ Advances + 1 = updates /\ updates >= 1 /\ Advances \in Nat
  BY <1>1, <1>2 DEF Advances, KInv, JInv, TimesKnown
<1>4. NewIndex = (Advances + 1) % 4 /\ NewIndex \in Slots /\ (Advances < 3 => NewIndex = Advances + 1)
  BY <1>1, <1>3, RingCount DEF Counted, NewIndex
<1>5. m_DataBuffers[NewIndex] = received.last /\ received.last \in Int /\ InNarrow(received.last)
  BY <1>1, <1>2, <1>3 DEF KInv, JInv, IInv, LastInRing, TypeOK, Counted
<1>6. Counted'
  <2>1. InNarrow(received.last)'
    BY <1>2, <1>5 DEF InNarrow
  <2>2. known.frame' => Advances >= 2
    BY <1>1, <1>2 DEF Counted
  <2>3. known.previous' => Advances >= 1
    BY <1>1, <1>2 DEF Counted
  <2>4. Advances' \in Nat /\ m_ActivePositionIndex' = Advances' % 4
    BY <1>2, <1>3, <1>4
  <2> QED
    BY <1>3, <2>1, <2>2, <2>3, <2>4 DEF Counted
<1>7. SlotsHold'
  <2> SUFFICES ASSUME NEW s \in Slots, Filled(s)' PROVE InWide(m_DataBuffers[s])'
    BY DEF SlotsHold
  <2>1. CASE s = NewIndex
    BY <1>1, <1>2, <1>5, <2>1 DEF InWide, InNarrow
  <2>2. CASE s # NewIndex
    <3>1. s \in {0, 1, 2, 3}
      BY DEF Slots
    <3>2. Filled(s)
      <4>1. CASE Advances < 3
        BY <1>3, <1>4, <2>2, <3>1, <4>1 DEF Filled
      <4>2. CASE Advances = 3
        <5>1. NewIndex = 0
          BY <1>4, <4>2
        <5> QED
          BY <2>2, <3>1, <4>2, <5>1 DEF Filled
      <4>3. CASE Advances >= 4
        BY <4>3 DEF Filled
      <4> QED
        BY <1>3, <4>1, <4>2, <4>3
    <3> QED
      BY <1>1, <1>2, <3>2 DEF InWide, SlotsHold
  <2> QED
    BY <2>1, <2>2
<1>8. ActiveHolds'
  BY <1>2, <1>5 DEF ActiveHolds, InNarrow
<1>9. PointHolds'
  BY <1>2 DEF PointHolds
<1>10. HandHolds'
  <2> SUFFICES ASSUME get.pc # "idle", get.began >= 2
               PROVE  /\ get.began <= Advances' /\ get.from = (get.began - 1) % 4
                      /\ get.pc # "heading" /\ updates - get.began < 3
                          => /\ Filled(get.to)'
                             /\ InWide(m_DataBuffers[get.from] + get.heading)'
                             /\ -MaxDistance <= get.heading /\ get.heading <= MaxDistance
    BY <1>2 DEF HandHolds
  <2>1. get.began \in Int /\ get.to \in Slots
    BY <1>1 DEF TypeOK
  <2>2. get.began <= Advances' /\ get.from = (get.began - 1) % 4
    BY <1>1, <1>3, <2>1 DEF HandHolds
  <2>3. ASSUME get.pc # "heading", updates - get.began < 3
        PROVE  /\ Filled(get.to)'
               /\ InWide(m_DataBuffers[get.from] + get.heading)'
               /\ -MaxDistance <= get.heading /\ get.heading <= MaxDistance
    <3>1. Filled(get.to) /\ InWide(m_DataBuffers[get.from] + get.heading)
          /\ -MaxDistance <= get.heading /\ get.heading <= MaxDistance
      BY <1>1, <2>3 DEF HandHolds
    <3>2. Filled(get.to)'
      BY <1>2, <1>3, <2>1, <3>1 DEF Filled, Slots
    <3>3. InWide(m_DataBuffers[get.from] + get.heading)'
      BY <1>2, <3>1 DEF InWide
    <3> QED
      BY <3>1, <3>2, <3>3
  <2> QED
    BY <2>2, <2>3
<1> QED
  BY <1>6, <1>7, <1>8, <1>9, <1>10 DEF RingHolds

-----------------------------------------------------------------------------
\* The steps of GetInterpolated leave the ring alone.
LEMMA GetRing ==
    ASSUME KInv, ~local, UNCHANGED <<ring, set, received, updates>>
    PROVE  RingHolds' /\ Advances' = Advances
<1>1. Counted /\ SlotsHold /\ ActiveHolds /\ PointHolds
  BY DEF KInv, RingHolds
<1>2. Advances' = Advances
  BY DEF Advances
<1> QED
  BY <1>1, <1>2 DEF ring, RingHolds, Counted, SlotsHold, ActiveHolds, PointHolds, Filled,
                    InWide, InNarrow

LEMMA ActiveFilled ==
    ASSUME Counted, Advances >= 1
    PROVE  Filled(m_ActivePositionIndex) /\ m_ActivePositionIndex \in Slots
<1>1. CASE Advances >= 4
  BY <1>1, RingCount DEF Counted, Filled
<1>2. CASE Advances < 4
  BY <1>2, RingCount DEF Counted, Filled
<1> QED
  BY <1>1, <1>2 DEF Counted

\* The start of a way that began with two positions is in a filled slot.
LEMMA FromFilled ==
    ASSUME TypeOK, Counted, HandHolds, get.pc # "idle", get.began >= 2
    PROVE  Filled(get.from) /\ get.from \in Slots /\ Advances >= 2
<1>1. Advances \in Nat /\ get.began \in Int /\ get.began <= Advances /\ get.from = (get.began - 1) % 4
      /\ get.from \in Slots
  BY DEF Counted, TypeOK, HandHolds
<1>2. CASE Advances >= 4
  BY <1>1, <1>2 DEF Filled
<1>3. CASE Advances < 4
  <2>1. get.from = get.began - 1
    BY <1>1, <1>3
  <2> QED
    BY <1>1, <2>1 DEF Filled
<1> QED
  BY <1>1, <1>2, <1>3

LEMMA RenderHand == ASSUME KInv, ~local, Render PROVE HandHolds'
<1>1. TypeOK /\ Counted
  BY DEF KInv, RingHolds, JInv, IInv
<1>2. UNCHANGED <<ring, set, received, updates>>
  BY DEF Render, CallBegins
<1>3. Advances' = Advances
  BY <1>2, GetRing
<1>4. CASE get'.pc = "idle"
  BY <1>4 DEF HandHolds
<1>5. CASE get'.pc # "idle"
  <2>1. get'.pc = "heading" /\ get'.from = mod_wrap(m_ActivePositionIndex - 1) /\ get'.began = Advances
    <3>1. get.pc = "idle"
      BY DEF Render, CallBegins
    <3>2. ~(m_iChanges <= 1)
      BY <1>5, <3>1 DEF Render
    <3> QED
      BY <3>2 DEF Render
  <2>2. Advances \in Nat /\ m_ActivePositionIndex = Advances % 4
    BY <1>1 DEF Counted
  <2>3. Advances >= 2 => get'.from = (Advances - 1) % 4
    BY <2>1, <2>2, RingCount
  <2> QED
    BY <1>3, <2>1, <2>2, <2>3 DEF HandHolds
<1> QED
  BY <1>4, <1>5

LEMMA ChangesHand ==
    ASSUME KInv, ~local, ClearChanges \/ InvalidateChanges \/ StoreChanges PROVE HandHolds'
<1>1. UNCHANGED <<ring, set, received, updates>> /\ HandHolds
  BY DEF ClearChanges, InvalidateChanges, CallBegins, StoreChanges, history, KInv
<1>2. Advances' = Advances
  BY <1>1, GetRing
<1>3. CASE ClearChanges
  BY <1>1, <1>2, <1>3 DEF ClearChanges, HandHolds, Filled, InWide, ring
<1>4. CASE InvalidateChanges
  <2>1. get'.began = 0
    BY <1>4, IdleGetType DEF InvalidateChanges, IdleGet
  <2> QED
    BY <2>1 DEF HandHolds
<1>5. CASE StoreChanges
  BY <1>5 DEF StoreChanges, IdleGet, HandHolds
<1> QED
  BY <1>3, <1>4, <1>5

LEMMA TakeHeadingHand == ASSUME KInv, ~local, TakeHeading PROVE HandHolds'
<1>1. TypeOK /\ Counted /\ SlotsHold /\ HandHolds
  BY DEF KInv, RingHolds, JInv, IInv
<1>2. UNCHANGED <<ring, set, received, updates>>
  BY DEF TakeHeading, history
<1>3. Advances' = Advances
  BY <1>2, GetRing
<1>4. CASE get'.pc = "idle"
  BY <1>4 DEF HandHolds
<1>5. CASE get'.pc # "idle"
  <2> DEFINE h == m_DataBuffers[m_ActivePositionIndex] - m_DataBuffers[get.from]
  <2>1. get.pc = "heading" /\ get'.pc = "load" /\ get'.to = m_ActivePositionIndex /\ get'.heading = h
        /\ get'.from = get.from /\ get'.began = get.began /\ ~(Abs(h) > MaxDistance)
    <3>1. IdleGet.pc = "idle"
      BY DEF IdleGet
    <3>2. ~(get' = IdleGet)
      BY <1>5, <3>1
    <3>3. get.pc = "heading" /\ ~(Abs(h) > MaxDistance)
          /\ get' = [get EXCEPT !.pc = "load", !.to = m_ActivePositionIndex, !.heading = h]
      BY <3>2 DEF TakeHeading, Return
    <3> HIDE DEF h
    <3> QED
      BY <1>1, <3>3 DEF TypeOK
  <2>2. m_DataBuffers[m_ActivePositionIndex] \in Int /\ m_DataBuffers[get.from] \in Int
    BY <1>1 DEF TypeOK
  <2>3. h \in Int /\ m_DataBuffers[get.from] + h = m_DataBuffers[m_ActivePositionIndex]
    BY <2>2
  <2> HIDE DEF h
  <2>4. -MaxDistance <= h /\ h <= MaxDistance
    BY <2>1, <2>3, OvershootNat DEF Abs
  <2>5. ASSUME get'.began >= 2
        PROVE  /\ get'.began <= Advances /\ get'.from = (get'.began - 1) % 4
               /\ Filled(get'.to) /\ InWide(m_DataBuffers[get'.from] + get'.heading)
    <3>1. get.began <= Advances /\ get.from = (get.began - 1) % 4 /\ Advances >= 1
      BY <1>1, <2>1, <2>5, FromFilled DEF HandHolds, Counted
    <3>2. Filled(m_ActivePositionIndex) /\ m_ActivePositionIndex \in Slots
      BY <1>1, <3>1, ActiveFilled
    <3>3. InWide(m_DataBuffers[m_ActivePositionIndex])
      BY <1>1, <3>2 DEF SlotsHold
    <3> QED
      BY <2>1, <2>3, <3>1, <3>2, <3>3
  <2>6. ASSUME get'.began >= 2
        PROVE  Filled(get.to)' /\ InWide(m_DataBuffers[get.from] + get.heading)'
    BY <1>2, <1>3, <2>5, <2>6 DEF Filled, InWide, ring
  <2>7. -MaxDistance <= get'.heading /\ get'.heading <= MaxDistance
    BY <2>1, <2>4
  <2> QED
    BY <1>3, <2>5, <2>6, <2>7 DEF HandHolds
<1> QED
  BY <1>4, <1>5

LEMMA TimeHand == ASSUME KInv, ~local, LoadTime \/ StoreTime \/ Lerp PROVE HandHolds'
<1>1. TypeOK /\ HandHolds
  BY DEF KInv, RingHolds, JInv, IInv
<1>2. UNCHANGED <<ring, set, received, updates>>
  BY DEF LoadTime, StoreTime, Lerp, history
<1>3. Advances' = Advances
  BY <1>2, GetRing
<1>4. CASE Lerp
  BY <1>4 DEF HandHolds, Lerp, Return, IdleGet
<1>5. CASE LoadTime \/ StoreTime
  <2>1. get.pc \in {"load", "store"} /\ get'.pc \in {"store", "lerp"} /\ get'.from = get.from
        /\ get'.to = get.to /\ get'.heading = get.heading /\ get'.began = get.began
    BY <1>1, <1>5 DEF LoadTime, StoreTime, TypeOK
  <2> QED
    BY <1>1, <1>2, <1>3, <2>1 DEF HandHolds, Filled, InWide, ring
<1> QED
  BY <1>4, <1>5

LEMMA NextChangesApart == TypeOK /\ ChangesApart /\ [Next]_vars => ChangesApart'
<1> SUFFICES ASSUME TypeOK, ChangesApart, [Next]_vars PROVE ChangesApart'
  OBVIOUS
<1>1. CASE get' = get
  BY <1>1 DEF ChangesApart
<1>2. CASE InvalidateChanges
  BY <1>2 DEF InvalidateChanges, IdleGet, ChangesApart
<1>3. CASE Render \/ GetStep
  <2>1. get'.pc # "changes" \/ get' = get
    <3>1. CASE Render
      <4>1. CASE m_iChanges <= 1
        BY <3>1, <4>1 DEF Render
      <4>2. CASE ~(m_iChanges <= 1)
        BY <3>1, <4>2 DEF Render
      <4> QED
        BY <4>1, <4>2
    <3>2. CASE StoreChanges \/ Lerp
      BY <3>2 DEF StoreChanges, Lerp, Return, IdleGet
    <3>3. CASE TakeHeading
      <4>1. CASE get' = IdleGet
        BY <4>1 DEF IdleGet
      <4>2. CASE get' # IdleGet
        <5>1. PICK t, h : get' = [get EXCEPT !.pc = "load", !.to = t, !.heading = h]
          BY <3>3, <4>2 DEF TakeHeading, Return
        <5>2. "pc" \in DOMAIN get
          BY DEF TypeOK
        <5> QED
          BY <5>1, <5>2
      <4> QED
        BY <4>1, <4>2
    <3>4. CASE LoadTime \/ StoreTime
      BY <3>4 DEF TypeOK, LoadTime, StoreTime
    <3> QED
      BY <1>3, <3>1, <3>2, <3>3, <3>4 DEF GetStep
  <2> QED
    BY <2>1 DEF ChangesApart
<1> QED
  BY <1>1, <1>2, <1>3 DEF Next, Update, SetStep, CountChange, TakePoint, KeepTime, FillSlot, Band,
         Advance, LearnTime, ResetTime, ClearChanges, Done, vars

LEMMA NextKInv == KInv /\ [Next]_vars => KInv'
<1> SUFFICES ASSUME KInv, [Next]_vars PROVE KInv'
  OBVIOUS
<1>1. JInv'
  BY NextJInv DEF KInv
<1>2. local' = local
  BY DEF Next, Update, SetStep, CountChange, TakePoint, KeepTime, FillSlot, Band, Advance,
         LearnTime, ResetTime, CallBegins, Render, ClearChanges, InvalidateChanges, GetStep,
         StoreChanges, TakeHeading, LoadTime, StoreTime, Lerp, Done, vars
<1>3. ASSUME ~local PROVE RingHolds' /\ HandHolds'
  <2>1. CASE \E v \in Received : Update(v)
    BY <1>3, <2>1, UpdateRing
  <2>2. CASE SetStep
    BY <1>3, <2>2, TakePointRing, QuietSetRing, FillSlotRing, BandRing, AdvanceRing DEF SetStep
  <2>3. CASE Render \/ ClearChanges \/ InvalidateChanges \/ GetStep
    <3>1. UNCHANGED <<ring, set, received, updates>>
      BY <2>3 DEF CallBegins, Render, ClearChanges, InvalidateChanges, GetStep, StoreChanges,
                  TakeHeading, LoadTime, StoreTime, Lerp, history
    <3>2. RingHolds'
      BY <1>3, <3>1, GetRing
    <3>3. HandHolds'
      BY <1>3, <2>3, RenderHand, ChangesHand, TakeHeadingHand, TimeHand DEF GetStep
    <3> QED
      BY <3>2, <3>3
  <2>4. CASE Done \/ UNCHANGED vars
    <3>1. UNCHANGED <<ring, set, received, updates, get>>
      BY <2>4 DEF Done, vars, history
    <3>2. RingHolds' /\ Advances' = Advances
      BY <1>3, <3>1, GetRing
    <3>3. HandHolds'
      BY <1>3, <3>1, <3>2 DEF KInv, HandHolds, Filled, InWide, ring
    <3> QED
      BY <3>2, <3>3
  <2> QED
    BY <2>1, <2>2, <2>3, <2>4 DEF Next
<1>4. ChangesApart'
  BY NextChangesApart DEF KInv, JInv, IInv
<1> QED
  BY <1>1, <1>2, <1>3, <1>4 DEF KInv

NothingMadeUpStep ==
    (~local /\ get.pc # "idle" /\ get'.pc = "idle" /\ get.began >= 2 /\ updates - get.began < 3) =>
        shown' \in (received.low - 2 * Overshoot)..(received.high + 2 * Overshoot)

LEMMA KInvNothingMadeUp == KInv /\ [Next]_vars => NothingMadeUpStep
<1> SUFFICES ASSUME KInv, [Next]_vars, ~local, get.pc # "idle", get'.pc = "idle",
                    get.began >= 2, updates - get.began < 3
             PROVE  shown' \in (received.low - 2 * Overshoot)..(received.high + 2 * Overshoot)
  BY DEF NothingMadeUpStep
<1>1. TypeOK /\ Counted /\ SlotsHold /\ HandHolds
  BY DEF KInv, RingHolds, JInv, IInv
<1>2. received.low \in Int /\ received.high \in Int /\ Overshoot \in Nat
  BY <1>1, OvershootNat DEF TypeOK
<1>3. Filled(get.from) /\ get.from \in Slots /\ Advances >= 2
  BY <1>1, FromFilled
<1>4. ASSUME NEW s \in Slots, Filled(s), shown' = m_DataBuffers[s]
      PROVE  shown' \in (received.low - 2 * Overshoot)..(received.high + 2 * Overshoot)
  <2>1. InWide(m_DataBuffers[s]) /\ m_DataBuffers[s] \in Int
    BY <1>1, <1>4 DEF SlotsHold, TypeOK
  <2> QED
    BY <1>2, <1>4, <2>1 DEF InWide
<1>5. TakeHeading \/ Lerp
  <2>1. ASSUME StoreChanges PROVE FALSE
    BY <2>1 DEF KInv, JInv, StoreChanges, ChangesApart
  <2> QED
    BY <1>1, <2>1 DEF Next, Update, SetStep, CountChange, TakePoint, KeepTime, FillSlot, Band,
         Advance, LearnTime, ResetTime, CallBegins, Render, ClearChanges, InvalidateChanges,
         GetStep, LoadTime, StoreTime, Done, vars, TypeOK
<1>6. CASE TakeHeading
  <2>1. shown' = m_DataBuffers[m_ActivePositionIndex]
    BY <1>1, <1>6 DEF TakeHeading, Return, TypeOK
  <2>2. Filled(m_ActivePositionIndex) /\ m_ActivePositionIndex \in Slots
    BY <1>1, <1>3, ActiveFilled DEF Counted
  <2> QED
    BY <1>4, <2>1, <2>2
<1>7. CASE Lerp
  <2>1. PICK e \in {get.elapsed, m_fElaspedTime} :
          shown' = Between(m_DataBuffers[get.from], m_DataBuffers[get.to], get.heading, e)
    BY <1>7 DEF Lerp, Return
  <2>2. e \in Nat /\ get.heading \in Int /\ m_DataBuffers[get.from] \in Int /\ get.to \in Slots
    BY <1>1 DEF TypeOK
  <2>3. Filled(get.to) /\ InWide(m_DataBuffers[get.from] + get.heading)
        /\ -MaxDistance <= get.heading /\ get.heading <= MaxDistance
    BY <1>1, <1>7 DEF HandHolds, Lerp
  <2>4. InWide(m_DataBuffers[get.from])
    BY <1>1, <1>3 DEF SlotsHold
  <2>5. CASE ~(10 * e <= 12 * TimeFrame)
    <3>1. shown' = m_DataBuffers[get.to]
      BY <2>1, <2>5 DEF Between
    <3> QED
      BY <1>4, <2>2, <2>3, <3>1
  <2>6. CASE 10 * e <= 12 * TimeFrame
    <3> DEFINE q == (get.heading * e) \div TimeFrame
    <3>1. /\ q \in Int
          /\ get.heading >= 0 => 0 <= q /\ q <= get.heading + Overshoot
          /\ get.heading <= 0 => get.heading - Overshoot <= q /\ q <= 0
      BY <2>2, <2>3, <2>6, WayBound
    <3>2. shown' = m_DataBuffers[get.from] + q
      BY <2>1, <2>6 DEF Between
    <3> HIDE DEF q
    <3> QED
      BY <1>2, <2>2, <2>3, <2>4, <3>1, <3>2 DEF InWide
  <2> QED
    BY <2>5, <2>6
<1> QED
  BY <1>5, <1>6, <1>7

\* A GetInterpolated that begins with two positions received, and that fewer than
\* three updates run into, shows a point within twice the overshoot of the
\* received positions, for any positions, any contents of the unfilled slots and
\* any times: four slots are enough without a lock (CNetVarBufferedVector.cpp:27-59).
THEOREM NothingMadeUpCorrect == Spec => NothingMadeUp
<1>1. KInv /\ [Next]_vars => [NothingMadeUpStep]_vars
  BY KInvNothingMadeUp
<1>2. [][NothingMadeUpStep]_vars => NothingMadeUp
  BY PTL DEF NothingMadeUp, NothingMadeUpStep
<1> QED
  BY <1>1, <1>2, InitKInv, NextKInv, PTL DEF Spec
=============================================================================
