---------------------------- MODULE NetVarBuffer ----------------------------
(***************************************************************************)
(* NetVarBufferBase and CNetVarBufferedVector: a received position is not  *)
(* shown at once; the shown point moves from the last one to it.  The      *)
(* network thread puts what it receives into a ring of four slots (Set),   *)
(* the application asks where the point is (GetInterpolated), and neither  *)
(* takes a lock, so both are modelled in the steps between which the other *)
(* can change what they go on to use.  Two things are taken as one access: *)
(* the two ends of the way that GetInterpolated compares, and a slot,      *)
(* which is three floats.                                                  *)
(*                                                                         *)
(* Positions lie on a line and are integers in units of 1/Unit, which      *)
(* keeps every interpolated point of a run exact.                          *)
(* The variable is not locked (m_bLocked): a locked one takes no value.    *)
(***************************************************************************)
EXTENDS Integers, FiniteSets

CONSTANTS
    Unit,
    Received,       \* positions that are received
    Junk,           \* what the slots, which no constructor fills, may hold
    TimeFrame,      \* m_fTimeFrame, once it is known
    HalfSteps,      \* dtms / 2: half of what the application says has passed, in ms
    MaxUpdates,     \* bound on values received
    MaxRenders      \* bound on the application's calls

BandingDist == 40 * Unit    \* kMaxInterpolationBandingDist
MaxDistance == 18 * Unit    \* kMaxInterpolationDistance

ASSUME BufferAssumption ==
    /\ {Unit, TimeFrame} \cup HalfSteps \subseteq Nat \ {0}
    /\ Received \cup Junk \subseteq Int /\ Junk # {}
    /\ {MaxUpdates, MaxRenders} \subseteq Nat

VARIABLES
    local,          \* m_pParent->IsNetworkLocal()
    m_Data,
    m_DataBuffers, m_ActivePositionIndex, m_iChanges,
    m_fElaspedTime, \* in ms
    known,          \* m_bCalculatedPreviousFrameTime, m_bCalculatedFrameTime
    set,            \* the network thread's Set: where it is, and its locals
    get,            \* the application's GetInterpolated, likewise
    shown           \* the last result of GetInterpolated

\* History: last, lowest and highest of what was received; calls begun.
VARIABLES received, updates, renders

ring == <<m_DataBuffers, m_ActivePositionIndex, known>>
history == <<received, updates, renders>>
vars == <<local, m_Data, ring, m_iChanges, m_fElaspedTime, set, get, shown, history>>

Slots == 0..3
mod_wrap(a) == ((a % 4) + 4) % 4
Abs(x) == IF x < 0 THEN -x ELSE x

SetAt(pc) == [pc |-> pc, value |-> 0, point |-> 0, elapsed |-> 0, changes |-> 0]
IdleGet == [pc |-> "idle", from |-> 0, to |-> 0, heading |-> 0, elapsed |-> 0, began |-> 0]

Init ==
    /\ local \in BOOLEAN
    /\ m_Data = 0
    /\ \E j \in Junk : m_DataBuffers = [i \in Slots |-> j] /\ shown = j
    /\ m_ActivePositionIndex = 0
    /\ m_iChanges = 0
    /\ m_fElaspedTime = 0
    /\ known = [previous |-> FALSE, frame |-> FALSE]
    /\ set = SetAt("idle")
    /\ get = IdleGet
    /\ received = [last |-> 0, low |-> 0, high |-> 0]
    /\ updates = 0 /\ renders = 0

-----------------------------------------------------------------------------
Live == IF local THEN m_Data ELSE m_DataBuffers[m_ActivePositionIndex]

\* from + heading * fDT while fDT <= kMaxInterpolationScale = 1.2, then to.
Between(from, to, heading, elapsed) ==
    IF 10 * elapsed <= 12 * TimeFrame
    THEN from + (heading * elapsed) \div TimeFrame
    ELSE to

From == m_DataBuffers[mod_wrap(m_ActivePositionIndex - 1)]
To == m_DataBuffers[m_ActivePositionIndex]

\* The point is on its way: not too far to go, and the time frame is known.
OnTheWay == Abs(To - From) <= MaxDistance /\ known.frame

\* GetInterpolated without a break, after `changes` updates.
Rendered(changes) ==
    IF changes <= 1 THEN Live
    ELSE IF OnTheWay THEN Between(From, To, To - From, m_fElaspedTime) ELSE To

(* Set, on the network thread: m_iChanges++ loads, then stores. *)
Update(v) ==
    /\ set.pc = "idle" /\ updates < MaxUpdates
    /\ updates' = updates + 1
    /\ received' = IF updates = 0
                    THEN [last |-> v, low |-> v, high |-> v]
                    ELSE [last |-> v,
                          low |-> IF v < received.low THEN v ELSE received.low,
                          high |-> IF v > received.high THEN v ELSE received.high]
    /\ set' = [pc |-> "count", value |-> v, point |-> 0, elapsed |-> 0, changes |-> m_iChanges]
    /\ UNCHANGED <<local, m_Data, ring, m_iChanges, m_fElaspedTime, get, shown, renders>>

(* A copy that is controlled here takes the value as it is. *)
CountChange ==
    /\ set.pc = "count"
    /\ m_iChanges' = set.changes + 1
    /\ IF local
       THEN m_Data' = set.value /\ set' = SetAt("idle")
       ELSE set' = [set EXCEPT !.pc = "point", !.changes = 0] /\ UNCHANGED m_Data
    /\ UNCHANGED <<local, ring, m_fElaspedTime, get, shown, history>>

(* For another, Set's own GetInterpolated works out the point shown now. *)
TakePoint ==
    /\ set.pc = "point"
    /\ set' = [set EXCEPT !.pc = IF m_iChanges > 1 /\ OnTheWay THEN "keep" ELSE "slot",
                          !.point = Rendered(m_iChanges), !.elapsed = m_fElaspedTime]
    /\ UNCHANGED <<local, m_Data, ring, m_iChanges, m_fElaspedTime, get, shown, history>>

(* m_fElaspedTime += dtms / 2 in Set's own GetInterpolated: nothing is added,
   but the time it read is written back. *)
KeepTime ==
    /\ set.pc = "keep"
    /\ m_fElaspedTime' = set.elapsed
    /\ set' = [set EXCEPT !.pc = "slot"]
    /\ UNCHANGED <<local, m_Data, ring, m_iChanges, get, shown, history>>

\* Mutant of NewIndex: the ring has no end.
NextIndex == m_ActivePositionIndex + 1

NewIndex == mod_wrap(m_ActivePositionIndex + 1)

FillSlot ==
    /\ set.pc = "slot"
    /\ m_DataBuffers' = [m_DataBuffers EXCEPT ![NewIndex] = set.value]
    /\ set' = [set EXCEPT !.pc = "band"]
    /\ UNCHANGED <<local, m_Data, m_ActivePositionIndex, known, m_iChanges, m_fElaspedTime>>
    /\ UNCHANGED <<get, shown, history>>

\* Mutant of Band: the point shown is not kept as the start of the way.
NoBand ==
    /\ set.pc = "band"
    /\ set' = [set EXCEPT !.pc = "index"]
    /\ UNCHANGED <<local, m_Data, ring, m_iChanges, m_fElaspedTime, get, shown, history>>

\* Mutant of Band: the point is put into the new slot.
BandNewSlot ==
    /\ set.pc = "band"
    /\ m_DataBuffers' =
        IF Abs(set.point - set.value) <= BandingDist
        THEN [m_DataBuffers EXCEPT ![NewIndex] = set.point]
        ELSE m_DataBuffers
    /\ set' = [set EXCEPT !.pc = "index"]
    /\ UNCHANGED <<local, m_Data, m_ActivePositionIndex, known, m_iChanges, m_fElaspedTime>>
    /\ UNCHANGED <<get, shown, history>>

(* Rubber-banding: the way to the new position starts at the point shown. *)
Band ==
    /\ set.pc = "band"
    /\ m_DataBuffers' =
        IF Abs(set.point - set.value) <= BandingDist
        THEN [m_DataBuffers EXCEPT ![m_ActivePositionIndex] = set.point]
        ELSE m_DataBuffers
    /\ set' = [set EXCEPT !.pc = "index"]
    /\ UNCHANGED <<local, m_Data, m_ActivePositionIndex, known, m_iChanges, m_fElaspedTime>>
    /\ UNCHANGED <<get, shown, history>>

Advance ==
    /\ set.pc = "index"
    /\ m_ActivePositionIndex' = NewIndex
    /\ set' = [set EXCEPT !.pc = "times"]
    /\ UNCHANGED <<local, m_Data, m_DataBuffers, known, m_iChanges, m_fElaspedTime>>
    /\ UNCHANGED <<get, shown, history>>

(* From the second update on, the time frame is known. *)
LearnTime ==
    /\ set.pc = "times"
    /\ known' = [previous |-> TRUE, frame |-> known.frame \/ known.previous]
    /\ set' = [set EXCEPT !.pc = "reset"]
    /\ UNCHANGED <<local, m_Data, m_DataBuffers, m_ActivePositionIndex, m_iChanges>>
    /\ UNCHANGED <<m_fElaspedTime, get, shown, history>>

ResetTime ==
    /\ set.pc = "reset"
    /\ m_fElaspedTime' = 0
    /\ set' = SetAt("idle")
    /\ UNCHANGED <<local, m_Data, ring, m_iChanges, get, shown, history>>

-----------------------------------------------------------------------------
(* On the application's thread: ClearChanges and InvalidateChanges         *)
(* (++ m_iChanges loads, then stores), and GetInterpolated.                *)
CallBegins ==
    /\ get.pc = "idle" /\ renders < MaxRenders
    /\ renders' = renders + 1
    /\ UNCHANGED <<local, m_Data, ring, m_fElaspedTime, set, received, updates>>

ClearChanges ==
    /\ CallBegins
    /\ m_iChanges' = 0
    /\ UNCHANGED <<get, shown>>

InvalidateChanges ==
    /\ CallBegins
    /\ get' = [IdleGet EXCEPT !.pc = "changes", !.elapsed = m_iChanges]
    /\ UNCHANGED <<m_iChanges, shown>>

StoreChanges ==
    /\ get.pc = "changes"
    /\ m_iChanges' = get.elapsed + 1
    /\ get' = IdleGet
    /\ UNCHANGED <<local, m_Data, ring, m_fElaspedTime, set, shown, history>>

\* Times the active slot has moved on.
Advances == updates - (IF set.pc \in {"count", "point", "keep", "slot", "band", "index"} THEN 1 ELSE 0)

Render ==
    /\ CallBegins
    /\ IF m_iChanges <= 1
       THEN shown' = Live /\ UNCHANGED get
       ELSE /\ get' = [pc |-> "heading", from |-> mod_wrap(m_ActivePositionIndex - 1), to |-> 0,
                       heading |-> 0, elapsed |-> 0, began |-> Advances]
            /\ UNCHANGED shown
    /\ UNCHANGED m_iChanges

Return(x) ==
    /\ shown' = x
    /\ get' = IdleGet

\* Mutant of TakeHeading: no way is too long.
TakeAnyHeading ==
    /\ get.pc = "heading"
    /\ LET t == m_ActivePositionIndex
           h == m_DataBuffers[t] - m_DataBuffers[get.from]
       IN  IF ~known.frame
           THEN Return(m_DataBuffers[t])
           ELSE /\ get' = [get EXCEPT !.pc = "load", !.to = t, !.heading = h]
                /\ UNCHANGED shown
    /\ UNCHANGED <<local, m_Data, ring, m_iChanges, m_fElaspedTime, set, history>>

(* from and to stay references into the ring; heading is a copy. *)
TakeHeading ==
    /\ get.pc = "heading"
    /\ LET t == m_ActivePositionIndex
           h == m_DataBuffers[t] - m_DataBuffers[get.from]
       IN  IF Abs(h) > MaxDistance \/ ~known.frame
           THEN Return(m_DataBuffers[t])
           ELSE /\ get' = [get EXCEPT !.pc = "load", !.to = t, !.heading = h]
                /\ UNCHANGED shown
    /\ UNCHANGED <<local, m_Data, ring, m_iChanges, m_fElaspedTime, set, history>>

(* m_fElaspedTime += dtms / 2. *)
LoadTime ==
    /\ get.pc = "load"
    /\ \E h \in HalfSteps :
        get' = [get EXCEPT !.pc = "store", !.elapsed = m_fElaspedTime + h]
    /\ UNCHANGED <<local, m_Data, ring, m_iChanges, m_fElaspedTime, set, shown, history>>

StoreTime ==
    /\ get.pc = "store"
    /\ m_fElaspedTime' = get.elapsed
    /\ get' = [get EXCEPT !.pc = "lerp"]
    /\ UNCHANGED <<local, m_Data, ring, m_iChanges, set, shown, history>>

\* The stored time is read again, or the sum is still in a register.
Lerp ==
    /\ get.pc = "lerp"
    /\ \E e \in {get.elapsed, m_fElaspedTime} :
        Return(Between(m_DataBuffers[get.from], m_DataBuffers[get.to], get.heading, e))
    /\ UNCHANGED <<local, m_Data, ring, m_iChanges, m_fElaspedTime, set, history>>

-----------------------------------------------------------------------------
SetStep == CountChange \/ TakePoint \/ KeepTime \/ FillSlot \/ Band \/ Advance \/ LearnTime \/ ResetTime
GetStep == StoreChanges \/ TakeHeading \/ LoadTime \/ StoreTime \/ Lerp

\* The bounds are used up.
Done ==
    /\ set.pc = "idle" /\ get.pc = "idle"
    /\ updates = MaxUpdates /\ renders = MaxRenders
    /\ UNCHANGED vars

Next ==
    \/ \E v \in Received : Update(v)
    \/ SetStep
    \/ Render \/ ClearChanges \/ InvalidateChanges \/ GetStep
    \/ Done

Spec == Init /\ [][Next]_vars

-----------------------------------------------------------------------------
(* Every variable has its type: the active slot is one of the four. *)
TypeOK ==
    /\ local \in BOOLEAN
    /\ {m_Data, shown} \subseteq Int
    /\ m_DataBuffers \in [Slots -> Int]
    /\ m_ActivePositionIndex \in Slots
    /\ {m_iChanges, m_fElaspedTime, updates, renders} \subseteq Nat
    /\ known \in [previous : BOOLEAN, frame : BOOLEAN]
    /\ set \in [pc : {"idle", "count", "point", "keep", "slot", "band", "index", "times", "reset"},
                value : Int, point : Int, elapsed : Nat, changes : Nat]
    /\ get \in [pc : {"idle", "changes", "heading", "load", "store", "lerp"}, from : Slots, to : Slots,
                heading : Int, elapsed : Nat, began : Int]
    /\ received \in [last : Int, low : Int, high : Int]

\* What a way may run past its end, (1.2 - 1) * MaxDistance, rounded up.
Overshoot == (MaxDistance + 4) \div 5

(* Four slots are enough for a reader without a lock: a GetInterpolated that
   begins when two positions have arrived, and during which the network thread
   begins fewer than three more, shows a point near the received positions: not
   the contents of an unfilled slot, nor a point on a way from a slot's old to its
   new contents.  (The three floats of a slot may still be of two positions: on a
   line that cannot be told.)  It may be twice the overshoot beyond them: the point that a Set
   bands into the active slot may have run past its end already, and the reader
   may take it for the end of its own way. *)
NothingMadeUp ==
    [][ (~local /\ get.pc # "idle" /\ get'.pc = "idle"
         /\ get.began >= 2 /\ updates - get.began < 3) =>
        shown' \in (received.low - 2 * Overshoot)..(received.high + 2 * Overshoot) ]_vars

(* When no more is received the shown point ends at the last position: with
   the time frame and its overshoot over, whatever GetInterpolated calls ran
   into the last Set, the next one shows that position. *)
Settles ==
    ~local /\ updates >= 1 /\ set.pc = "idle" =>
        /\ Live = received.last
        /\ 10 * m_fElaspedTime > 12 * TimeFrame => Rendered(m_iChanges) = received.last

(* No stutter: if the new position is near enough to move to, a Set leaves the
   point where it was shown when the Set began, also when ClearChanges or
   InvalidateChanges change m_iChanges meanwhile; unless m_iChanges is below 2
   when the Set returns, because ClearChanges has just been called: then
   GetInterpolated does not interpolate (CNetVarBufferedVector.cpp:20) and the
   point is at the new position at once. *)
NoJump ==
    [][ (set.pc = "reset" /\ set'.pc = "idle" /\ updates >= 2 /\ m_iChanges >= 2
         /\ Abs(set.point - set.value) <= MaxDistance) =>
        (Rendered(m_iChanges))' = set.point ]_vars
=============================================================================
