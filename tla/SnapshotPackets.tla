-------------------------- MODULE SnapshotPackets --------------------------
(***************************************************************************)
(* How frames become packets and packets frames: SnapshotStream,           *)
(* SnapshotHeader, VirtualInstance::DoSnapshot and HandleEntSnapshot.      *)
(*                                                                         *)
(* A SnapshotStream is a sequence of byte streams.  The first one is for   *)
(* the header, every frame gets one of its own, and result() appends them  *)
(* all to the first.  The receiver trusts a packet whose size is the       *)
(* header's count times its frame size, and cuts it into pieces of that    *)
(* size; so frames are padded to the size of the largest (a frame is as    *)
(* long as its name).  A byte stream is a sequence of pieces with a size.  *)
(*                                                                         *)
(* One sender and one receiver, over one reliable channel.  The frames are *)
(* those of one reliable NetVar per name, and the Alloc and Dealloc frames *)
(* of Build and FreeEntity.                                                *)
(***************************************************************************)
EXTENDS Integers, Sequences, FiniteSets, SequencesExt

CONSTANTS
    Vars,         \* the NetVars, by name
    InstanceOf,   \* per NetVar: its VirtualInstance
    Instances,    \* 1 .. Instances, in the order of m_Instances
    ListFrames,   \* the Alloc and Dealloc frames
    FrameSize,    \* per name: what SnapshotEntList::write writes
    HeaderSize,   \* sizeof(SnapshotHeaderData)
    CountMod,     \* 2^16 in the code: num_updates is an uint16_t
    MaxVersion,   \* bound on the changes of one NetVar
    MaxQueue      \* bound on the packets in flight

ASSUME FramingAssumption ==
    /\ Instances \in Nat \ {0}
    /\ InstanceOf \in [Vars -> 1 .. Instances]
    /\ IsFiniteSet(Vars) /\ Vars \cap ListFrames = {}
    /\ FrameSize \in [Vars \cup ListFrames -> Nat \ {0}]
    /\ HeaderSize \in Nat \ {0}
    /\ CountMod \in Nat \ {0} /\ MaxVersion \in Nat /\ MaxQueue \in Nat

VARIABLES
    version,   \* per NetVar: how often it has changed (stands for m_Data)
    pending,   \* the NetVars with m_bChanged set
    tick,      \* the loop of SnapshotUpdate: next instance, reliableStream
    wire,      \* packets in flight; each with, as history, the frames put in it
    got        \* per NetVar: the version the receiver has

vars == <<version, pending, tick, wire, got>>

-----------------------------------------------------------------------------
(* SnapshotStream and SnapshotHeader.                                       *)

Frame(name, v) == [name |-> name, version |-> v]
Frames == {Frame(name, v) : name \in Vars \cup ListFrames, v \in 0 .. MaxVersion}

Piece(kind, content, size) == [kind |-> kind, content |-> content, size |-> size]
FramePiece(frame) == Piece("frame", frame, FrameSize[frame.name])
Header(count, max) == Piece("header", [count |-> count, max |-> max], HeaderSize)
Padding(size) == Piece("padding", 0, size)

Size(pieces) ==
    LET total[i \in 0 .. Len(pieces)] == IF i = 0 THEN 0 ELSE total[i - 1] + pieces[i].size
    IN total[Len(pieces)]

\* A new SnapshotStream, and one after result() was called.
NewStream == [m_data |-> << <<>> >>, m_Finished |-> FALSE]
Result(stream) ==
    IF stream.m_Finished THEN stream
    ELSE [m_data |-> <<FlattenSeq(stream.m_data)>> \o Tail(stream.m_data),
          m_Finished |-> TRUE]
Modified(stream) == Len(stream.m_data) > 1

\* Mutant of CopyFrom: frames keep their sizes.
CopyFromUnpadded(pieces, max) == pieces

\* SnapshotHeader::copy_from for one frame.
CopyFrom(pieces, max) ==
    IF Size(pieces) < max THEN Append(pieces, Padding(max - Size(pieces))) ELSE pieces

\* SnapshotHeader::Generate: the header goes to the end of the first stream.
Generate(stream, count, max) ==
    [m_data |-> [i \in DOMAIN stream.m_data |->
                    IF i = 1 THEN Append(stream.m_data[1], Header(count, max))
                    ELSE CopyFrom(stream.m_data[i], max)],
     m_Finished |-> stream.m_Finished]

Largest(streams) ==
    LET sizes == {Size(streams[i]) : i \in DOMAIN streams}
    IN IF sizes = {} THEN 0 ELSE CHOOSE n \in sizes : \A m \in sizes : m <= n

\* The frames of the changed NetVars of an instance, one stream each.
Taken(i) == {Frame(v, version[v]) : v \in {w \in pending : InstanceOf[w] = i}}
TakenStreams(i) == LET frames == SetToSeq(Taken(i))
                   IN [k \in DOMAIN frames |-> <<FramePiece(frames[k])>>]

\* Mutant of AlreadyThere: DoSnapshot counts only the frames it adds.
AlreadyThereNone(stream) == 0

\* What DoSnapshot takes for the number of frames that are in the stream.
AlreadyThere(stream) == Len(stream.m_data) - 1

\* VirtualInstance::DoSnapshot
DoSnapshot(stream, i) ==
    LET added == TakenStreams(i)
        num_updates == (AlreadyThere(stream) + Len(added)) % CountMod
        max_value == Largest((IF Len(stream.m_data) > 1 THEN stream.m_data ELSE <<>>)
                             \o added)
        all == [stream EXCEPT !.m_data = @ \o added]
    IN IF num_updates = 0 THEN all ELSE Generate(all, num_updates, max_value)

-----------------------------------------------------------------------------
(* HandleEntSnapshot.                                                       *)

\* The early return: the size has to be what the header says.
WellFormed(packet) ==
    /\ packet # <<>> /\ packet[1].kind = "header"
    /\ Size(Tail(packet)) = packet[1].content.count * packet[1].content.max

\* The frames at the places where the receiver looks for them.
ReadFrames(packet) ==
    IF ~WellFormed(packet) THEN {}
    ELSE {packet[i].content : i \in {k \in 2 .. Len(packet) :
              /\ packet[k].kind = "frame"
              /\ Size(SubSeq(packet, 2, k - 1)) % packet[1].content.max = 0}}

-----------------------------------------------------------------------------
NoTick == [next |-> 1, stream |-> NewStream]

Init ==
    /\ version = [v \in Vars |-> 0]
    /\ pending = {}
    /\ tick = NoTick
    /\ wire = <<>>
    /\ got = [v \in Vars |-> 0]

Transmit(stream, frames) ==
    wire' = IF Modified(stream)
            THEN Append(wire, [packet |-> Result(stream).m_data[1], frames |-> frames])
            ELSE wire

\* CNetVarBase::Set
Set(v) ==
    /\ version[v] < MaxVersion
    /\ version' = [version EXCEPT ![v] = @ + 1]
    /\ pending' = pending \cup {v}
    /\ UNCHANGED <<tick, wire, got>>

\* SnapshotUpdate: DoSnapshot of the next instance into the one stream of the
\* loop, and the stream is sent if there is anything in it.
SnapshotUpdate ==
    LET i == tick.next
        stream == DoSnapshot(tick.stream, i)
    IN /\ Len(wire) < MaxQueue
       /\ Transmit(stream, Taken(i))
       /\ tick' = IF i = Instances THEN NoTick
                  ELSE [next |-> i + 1,
                        stream |-> IF Modified(stream) THEN Result(stream) ELSE stream]
       /\ pending' = {v \in pending : InstanceOf[v] # i}
       /\ UNCHANGED <<version, got>>

\* Build: the Alloc frame, then the changes of its instance, in one packet.
Build(i, name) ==
    LET stream == [NewStream EXCEPT !.m_data = Append(@, <<FramePiece(Frame(name, 0))>>)]
    IN /\ Len(wire) < MaxQueue
       /\ Transmit(DoSnapshot(stream, i), {Frame(name, 0)} \cup Taken(i))
       /\ pending' = {v \in pending : InstanceOf[v] # i}
       /\ UNCHANGED <<version, tick, got>>

\* FreeEntity and SendObjectLists: a packet with one frame.
SendSingle(name) ==
    LET stream == [NewStream EXCEPT !.m_data = Append(@, <<FramePiece(Frame(name, 0))>>)]
    IN /\ Len(wire) < MaxQueue
       /\ Transmit(Generate(stream, 1, FrameSize[name]), {Frame(name, 0)})
       /\ UNCHANGED <<version, pending, tick, got>>

\* HandleEntSnapshot and ReadEntityUpdate.
Receive ==
    LET frames == ReadFrames(Head(wire).packet)
    IN /\ wire # <<>>
       /\ wire' = Tail(wire)
       /\ got' = [v \in Vars |->
              IF \E frame \in frames : frame.name = v
              THEN (CHOOSE frame \in frames : frame.name = v).version ELSE got[v]]
       /\ UNCHANGED <<version, pending, tick>>

Next == \/ \E v \in Vars : Set(v)
        \/ SnapshotUpdate
        \/ \E i \in 1 .. Instances, name \in ListFrames : Build(i, name)
        \/ \E name \in ListFrames : SendSingle(name)
        \/ Receive

Spec == Init /\ [][Next]_vars

-----------------------------------------------------------------------------
(* Properties.                                                              *)

\* The receiver takes from every packet exactly the frames the sender put into
\* it, whatever their sizes (count and padding of Build's and SnapshotUpdate's
\* streams against the size check and the cutting of HandleEntSnapshot).
PacketsReadBack ==
    \A k \in 1 .. Len(wire) : ReadFrames(wire[k].packet) = wire[k].frames

\* A change that the receiver does not have is still flagged at the sender or in
\* a packet that the receiver will understand (TakeVariableSnapshot clears
\* m_bChanged when the frame is written, not when it is sent).
NothingLost ==
    \A v \in Vars :
        \/ got[v] = version[v]
        \/ v \in pending
        \/ \E k \in 1 .. Len(wire) : Frame(v, version[v]) \in ReadFrames(wire[k].packet)
=============================================================================
