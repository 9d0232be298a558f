----------------------- MODULE SnapshotPacketsProofs -----------------------
(***************************************************************************)
(* Theorems of SnapshotPackets: the receiver takes from every packet the   *)
(* frames that were put in it, and no change is lost on the way, for any   *)
(* variables, sizes of frames and number of packets.                       *)
(*                                                                         *)
(* A packet is a header and a body in which every frame begins at a        *)
(* multiple of the size in the header (Cut).  The first half proves that   *)
(* the streams of DoSnapshot make such a packet and that the receiver      *)
(* reads its frames; the second that PacketInv is an invariant.            *)
(***************************************************************************)
EXTENDS SnapshotPackets, FiniteSetTheorems, FunctionTheorems, InductionLemmas, TLAPS

Pieces == {FramePiece(frame) : frame \in Frames}
          \cup {Header(count, max) : count \in Nat, max \in Nat}
          \cup {Padding(size) : size \in Nat}

LEMMA FrameFacts ==
    ASSUME NEW frame \in Frames
    PROVE  /\ frame.name \in Vars \cup ListFrames /\ FrameSize[frame.name] \in Nat \ {0}
           /\ frame.version \in 0 .. MaxVersion
BY FramingAssumption DEF Frames, Frame

LEMMA PieceFacts ==
    /\ \A frame \in Frames : /\ FramePiece(frame) \in Pieces /\ FramePiece(frame).kind = "frame"
                             /\ FramePiece(frame).content = frame
                             /\ FramePiece(frame).size = FrameSize[frame.name]
    /\ \A count, max \in Nat : /\ Header(count, max) \in Pieces
                               /\ Header(count, max).kind = "header"
                               /\ Header(count, max).content.count = count
                               /\ Header(count, max).content.max = max
                               /\ Header(count, max).size = HeaderSize
    /\ \A size \in Nat : /\ Padding(size) \in Pieces /\ Padding(size).kind = "padding"
                         /\ Padding(size).size = size
    /\ \A piece \in Pieces : piece.size \in Nat
<1>1. \A frame \in Frames : /\ FramePiece(frame) \in Pieces /\ FramePiece(frame).kind = "frame"
                            /\ FramePiece(frame).content = frame
                            /\ FramePiece(frame).size = FrameSize[frame.name]
  BY DEF Pieces, FramePiece, Piece
<1>2. \A count, max \in Nat : /\ Header(count, max) \in Pieces
                              /\ Header(count, max).kind = "header"
                              /\ Header(count, max).content.count = count
                              /\ Header(count, max).content.max = max
                              /\ Header(count, max).size = HeaderSize
  BY DEF Pieces, Header, Piece
<1>3. \A size \in Nat : /\ Padding(size) \in Pieces /\ Padding(size).kind = "padding"
                        /\ Padding(size).size = size
  BY DEF Pieces, Padding, Piece
<1>4. ASSUME NEW piece \in Pieces PROVE piece.size \in Nat
  <2>1. CASE \E frame \in Frames : piece = FramePiece(frame)
    BY <1>1, <2>1, FrameFacts
  <2>2. CASE \E count, max \in Nat : piece = Header(count, max)
    BY <1>2, <2>2, FramingAssumption
  <2>3. CASE \E size \in Nat : piece = Padding(size)
    BY <1>3, <2>3
  <2> QED
    BY <1>4, <2>1, <2>2, <2>3 DEF Pieces
<1> QED
  BY <1>1, <1>2, <1>3, <1>4

-----------------------------------------------------------------------------
(* Sizes.                                                                   *)

\* The sums of the first sizes.
IsTotal(f, pieces, n) ==
    f = [i \in 0 .. n |-> IF i = 0 THEN 0 ELSE f[i - 1] + pieces[i].size]

LEMMA TotalExists ==
    ASSUME NEW pieces, NEW n \in Nat
    PROVE  \E f : IsTotal(f, pieces, n)
<1> DEFINE S == {m \in Nat : \E f : IsTotal(f, pieces, m)}
<1>1. 0 \in S
  <2> DEFINE f == [i \in 0 .. 0 |-> 0]
  <2>1. IsTotal(f, pieces, 0)
    BY DEF IsTotal
  <2> QED
    BY <2>1
<1>2. ASSUME NEW m \in Nat, m \in S PROVE m + 1 \in S
  <2>1. PICK f : IsTotal(f, pieces, m)
    BY <1>2
  <2> DEFINE g == [i \in 0 .. m + 1 |-> IF i = m + 1 THEN f[m] + pieces[m + 1].size ELSE f[i]]
  <2>2. ASSUME NEW i \in 0 .. m + 1
        PROVE  g[i] = IF i = 0 THEN 0 ELSE g[i - 1] + pieces[i].size
    <3>1. CASE i = 0
      BY <2>1, <3>1 DEF IsTotal
    <3>2. CASE i = m + 1
      <4>1. g[i - 1] = f[m]
        BY <3>2
      <4> QED
        BY <3>2, <4>1
    <3>3. CASE i # 0 /\ i # m + 1
      <4>1. i \in 0 .. m /\ i - 1 \in 0 .. m + 1 /\ i - 1 # m + 1
        BY <3>3
      <4>2. f[i] = f[i - 1] + pieces[i].size
        BY <2>1, <3>3, <4>1 DEF IsTotal
      <4>3. g[i] = f[i] /\ g[i - 1] = f[i - 1]
        BY <3>3, <4>1
      <4> QED
        BY <3>3, <4>2, <4>3
    <3> QED
      BY <3>1, <3>2, <3>3
  <2>3. IsTotal(g, pieces, m + 1)
    BY <2>2 DEF IsTotal
  <2> QED
    BY <2>3
<1> HIDE DEF S
<1>3. Nat \subseteq S
  BY <1>1, <1>2, SetInduction
<1> QED
  BY <1>3 DEF S

LEMMA TotalUnique ==
    ASSUME NEW pieces, NEW others, NEW m \in Nat, NEW n \in Nat, m <= n,
           NEW f, IsTotal(f, pieces, m), NEW g, IsTotal(g, others, n),
           \A i \in 1 .. m : pieces[i] = others[i]
    PROVE  f[m] = g[m]
<1> DEFINE S == {k \in Nat : k <= m => f[k] = g[k]}
<1>1. 0 \in S
  BY DEF IsTotal
<1>2. ASSUME NEW k \in Nat, k \in S PROVE k + 1 \in S
  <2> SUFFICES ASSUME k + 1 <= m PROVE f[k + 1] = g[k + 1]
    OBVIOUS
  <2>1. /\ k + 1 \in 0 .. m /\ k + 1 \in 0 .. n /\ k + 1 \in 1 .. m
        /\ k + 1 # 0 /\ k + 1 - 1 = k /\ k <= m
    OBVIOUS
  <2>2. f[k] = g[k]
    BY <1>2, <2>1
  <2>3. f[k + 1] = f[k] + pieces[k + 1].size
    BY <2>1 DEF IsTotal
  <2>4. g[k + 1] = g[k] + others[k + 1].size
    BY <2>1 DEF IsTotal
  <2> QED
    BY <2>1, <2>2, <2>3, <2>4
<1> HIDE DEF S
<1>3. Nat \subseteq S
  BY <1>1, <1>2, SetInduction
<1> QED
  BY <1>3 DEF S

LEMMA SizeIs ==
    ASSUME NEW S, NEW pieces \in Seq(S)
    PROVE  \E f : IsTotal(f, pieces, Len(pieces)) /\ Size(pieces) = f[Len(pieces)]
<1>1. Len(pieces) \in Nat
  BY LenProperties
<1>2. \E f : IsTotal(f, pieces, Len(pieces))
  BY <1>1, TotalExists
<1> DEFINE f == CHOOSE f : IsTotal(f, pieces, Len(pieces))
<1>3. IsTotal(f, pieces, Len(pieces))
  BY <1>2
<1>4. Size(pieces) = f[Len(pieces)]
  BY DEF Size, IsTotal
<1> HIDE DEF f
<1> QED
  BY <1>3, <1>4

LEMMA SizeEmpty == Size(<<>>) = 0
<1>1. <<>> \in Seq({}) /\ Len(<<>>) = 0
  OBVIOUS
<1>2. PICK f : IsTotal(f, <<>>, 0) /\ Size(<<>>) = f[0]
  BY <1>1, SizeIs
<1> QED
  BY <1>2 DEF IsTotal

LEMMA SizeAppend ==
    ASSUME NEW S, NEW pieces \in Seq(S), NEW piece \in S
    PROVE  Size(Append(pieces, piece)) = Size(pieces) + piece.size
<1> DEFINE n == Len(pieces)
           more == Append(pieces, piece)
<1>1. /\ n \in Nat /\ more \in Seq(S) /\ Len(more) = n + 1 /\ more[n + 1] = piece
      /\ \A i \in 1 .. n : more[i] = pieces[i]
  BY AppendProperties, LenProperties
<1> HIDE DEF more
<1>2. PICK f : IsTotal(f, pieces, n) /\ Size(pieces) = f[n]
  BY SizeIs
<1>3. PICK g : IsTotal(g, more, n + 1) /\ Size(more) = g[n + 1]
  BY <1>1, SizeIs
<1> HIDE DEF n
<1>4. n <= n + 1 /\ n + 1 \in Nat /\ n + 1 \in 0 .. n + 1 /\ n + 1 # 0 /\ n + 1 - 1 = n
  BY <1>1
<1>5. \A i \in 1 .. n : pieces[i] = more[i]
  BY <1>1
<1>6. f[n] = g[n]
  BY <1>1, <1>2, <1>3, <1>4, <1>5, TotalUnique
<1>7. g[n + 1] = g[n] + more[n + 1].size
  BY <1>1, <1>3, <1>4 DEF IsTotal
<1> QED
  BY <1>1, <1>2, <1>3, <1>6, <1>7 DEF more

LEMMA SizeType ==
    ASSUME NEW pieces \in Seq(Pieces)
    PROVE  Size(pieces) \in Nat
<1> DEFINE T == {s \in Seq(Pieces) : Size(s) \in Nat}
<1>1. <<>> \in T
  BY SizeEmpty
<1>2. ASSUME NEW s \in Seq(Pieces), NEW e \in Pieces, s \in T PROVE Append(s, e) \in T
  <2>1. Size(Append(s, e)) = Size(s) + e.size /\ Append(s, e) \in Seq(Pieces)
    BY SizeAppend, AppendProperties
  <2>2. e.size \in Nat /\ Size(s) \in Nat
    BY <1>2, PieceFacts
  <2> QED
    BY <2>1, <2>2
<1> HIDE DEF T
<1>3. Seq(Pieces) \subseteq T
  BY <1>1, <1>2, SeqInduction
<1> QED
  BY <1>3 DEF T
-----------------------------------------------------------------------------
(* Streams one after another.                                               *)

\* The first streams in one.
IsFlat(f, seqs, n) ==
    f = [i \in 1 .. n |-> IF i = 1 THEN seqs[i] ELSE f[i - 1] \o seqs[i]]

LEMMA FlatExists ==
    ASSUME NEW seqs, NEW n \in Nat \ {0}
    PROVE  \E f : IsFlat(f, seqs, n)
<1> DEFINE S == {m \in Nat : \E f : IsFlat(f, seqs, m + 1)}
<1>1. 0 \in S
  <2> DEFINE f == [i \in 1 .. 1 |-> seqs[i]]
  <2>1. IsFlat(f, seqs, 1)
    BY DEF IsFlat
  <2> QED
    BY <2>1
<1>2. ASSUME NEW m \in Nat, m \in S PROVE m + 1 \in S
  <2>1. PICK f : IsFlat(f, seqs, m + 1)
    BY <1>2
  <2> DEFINE g == [i \in 1 .. m + 2 |-> IF i = m + 2 THEN f[m + 1] \o seqs[m + 2] ELSE f[i]]
  <2>2. ASSUME NEW i \in 1 .. m + 2
        PROVE  g[i] = IF i = 1 THEN seqs[i] ELSE g[i - 1] \o seqs[i]
    <3>1. CASE i = 1
      BY <2>1, <3>1 DEF IsFlat
    <3>2. CASE i = m + 2
      <4>1. g[i - 1] = f[m + 1] /\ i # 1
        BY <3>2
      <4> QED
        BY <3>2, <4>1
    <3>3. CASE i # 1 /\ i # m + 2
      <4>1. i \in 1 .. m + 1 /\ i - 1 \in 1 .. m + 2 /\ i - 1 # m + 2
        BY <3>3
      <4>2. f[i] = f[i - 1] \o seqs[i]
        BY <2>1, <3>3, <4>1 DEF IsFlat
      <4>3. g[i] = f[i] /\ g[i - 1] = f[i - 1]
        BY <3>3, <4>1
      <4> QED
        BY <3>3, <4>2, <4>3
    <3> QED
      BY <3>1, <3>2, <3>3
  <2>3. IsFlat(g, seqs, m + 2)
    BY <2>2 DEF IsFlat
  <2>4. m + 1 + 1 = m + 2
    OBVIOUS
  <2> QED
    BY <2>3, <2>4
<1> HIDE DEF S
<1>3. Nat \subseteq S
  BY <1>1, <1>2, SetInduction
<1>4. n - 1 \in S /\ n - 1 + 1 = n
  BY <1>3
<1> QED
  BY <1>4 DEF S

LEMMA FlattenIs ==
    ASSUME NEW S, NEW seqs \in Seq(S), seqs # <<>>
    PROVE  /\ Len(seqs) \in Nat \ {0}
           /\ \E f : IsFlat(f, seqs, Len(seqs)) /\ FlattenSeq(seqs) = f[Len(seqs)]
<1>1. Len(seqs) \in Nat \ {0}
  BY EmptySeq
<1>2. \E f : IsFlat(f, seqs, Len(seqs))
  BY <1>1, FlatExists
<1> DEFINE f == CHOOSE f : IsFlat(f, seqs, Len(seqs))
<1>3. IsFlat(f, seqs, Len(seqs))
  BY <1>2
<1>4. Len(seqs) # 0
  BY <1>1
<1>5. FlattenSeq(seqs) = f[Len(seqs)]
  BY <1>4 DEF FlattenSeq, IsFlat
<1> HIDE DEF f
<1> QED
  BY <1>1, <1>3, <1>5

-----------------------------------------------------------------------------
(* A body of a packet that the receiver cuts into the frames F: every frame *)
(* begins at a multiple of max.                                             *)

Cut(body, size, max, F) ==
    /\ body \in Seq(Pieces) /\ Size(body) = size
    /\ \A k \in 1 .. Len(body) : body[k].kind = "frame" =>
           \E m \in Nat : Size(SubSeq(body, 1, k - 1)) = max * m
    /\ F = {body[k].content : k \in {j \in 1 .. Len(body) : body[j].kind = "frame"}}

LEMMA AppendPrefix ==
    ASSUME NEW S, NEW s \in Seq(S), NEW e \in S
    PROVE  /\ \A k \in 1 .. Len(s) : SubSeq(Append(s, e), 1, k - 1) = SubSeq(s, 1, k - 1)
           /\ SubSeq(Append(s, e), 1, Len(s)) = s
<1> DEFINE r == Append(s, e)
<1>1. /\ Len(s) \in Nat /\ r \in Seq(S) /\ Len(r) = Len(s) + 1
      /\ \A i \in 1 .. Len(s) : r[i] = s[i] /\ s[i] \in S
  BY AppendProperties, LenProperties, ElementOfSeq
<1> HIDE DEF r
<1>2. ASSUME NEW n \in 0 .. Len(s) PROVE SubSeq(r, 1, n) = SubSeq(s, 1, n)
  <2>1. \A i \in 1 .. n : r[i] \in S /\ s[i] \in S /\ r[i] = s[i]
    BY <1>1
  <2>2. n \in Int /\ 1 \in Int
    BY <1>1
  <2>3. /\ SubSeq(r, 1, n) \in Seq(S) /\ Len(SubSeq(r, 1, n)) = IF 1 <= n THEN n - 1 + 1 ELSE 0
        /\ \A i \in 1 .. n - 1 + 1 : SubSeq(r, 1, n)[i] = r[1 + i - 1]
    BY <2>1, <2>2, SubSeqProperties
  <2>4. /\ SubSeq(s, 1, n) \in Seq(S) /\ Len(SubSeq(s, 1, n)) = IF 1 <= n THEN n - 1 + 1 ELSE 0
        /\ \A i \in 1 .. n - 1 + 1 : SubSeq(s, 1, n)[i] = s[1 + i - 1]
    BY <2>1, <2>2, SubSeqProperties
  <2>5. Len(SubSeq(r, 1, n)) = n /\ Len(SubSeq(s, 1, n)) = n
    BY <1>1, <2>3, <2>4
  <2>6. \A i \in 1 .. n : SubSeq(r, 1, n)[i] = SubSeq(s, 1, n)[i]
    <3> SUFFICES ASSUME NEW i \in 1 .. n PROVE SubSeq(r, 1, n)[i] = SubSeq(s, 1, n)[i]
      OBVIOUS
    <3>1. i \in 1 .. n - 1 + 1 /\ 1 + i - 1 = i
      BY <1>1
    <3> QED
      BY <2>1, <2>3, <2>4, <3>1
  <2> QED
    BY <2>3, <2>4, <2>5, <2>6, SeqEqual
<1>3. \A k \in 1 .. Len(s) : SubSeq(r, 1, k - 1) = SubSeq(s, 1, k - 1)
  <2> SUFFICES ASSUME NEW k \in 1 .. Len(s) PROVE SubSeq(r, 1, k - 1) = SubSeq(s, 1, k - 1)
    OBVIOUS
  <2>1. k - 1 \in 0 .. Len(s)
    BY <1>1
  <2> QED
    BY <1>2, <2>1
<1>4. SubSeq(r, 1, Len(s)) = s
  <2>1. Len(s) \in 0 .. Len(s)
    BY <1>1
  <2> QED
    BY <1>2, <2>1, SubSeqFull
<1> QED
  BY <1>3, <1>4 DEF r

LEMMA CutEmpty ==
    ASSUME NEW max \in Nat
    PROVE  Cut(<<>>, 0, max, {})
<1>1. <<>> \in Seq(Pieces) /\ Len(<<>>) = 0
  BY EmptySeq
<1> QED
  BY <1>1, SizeEmpty DEF Cut

LEMMA CutFrame ==
    ASSUME NEW body, NEW n \in Nat, NEW max \in Nat, NEW F, Cut(body, max * n, max, F),
           NEW frame \in Frames
    PROVE  Cut(Append(body, FramePiece(frame)), max * n + FrameSize[frame.name], max,
               F \cup {frame})
<1> DEFINE e == FramePiece(frame)
           r == Append(body, e)
<1>1. /\ body \in Seq(Pieces) /\ e \in Pieces /\ e.kind = "frame" /\ e.content = frame
      /\ e.size = FrameSize[frame.name]
  BY PieceFacts DEF Cut
<1> HIDE DEF e
<1>2. /\ Len(body) \in Nat /\ r \in Seq(Pieces) /\ Len(r) = Len(body) + 1 /\ r[Len(body) + 1] = e
      /\ \A i \in 1 .. Len(body) : r[i] = body[i]
  BY <1>1, AppendProperties, LenProperties
<1>3. Size(r) = Size(body) + e.size
  BY <1>1, SizeAppend
<1>4. /\ \A k \in 1 .. Len(body) : SubSeq(r, 1, k - 1) = SubSeq(body, 1, k - 1)
      /\ SubSeq(r, 1, Len(body)) = body
  BY <1>1, AppendPrefix
<1> HIDE DEF r
<1>5. ASSUME NEW k \in 1 .. Len(r), r[k].kind = "frame"
      PROVE  \E m \in Nat : Size(SubSeq(r, 1, k - 1)) = max * m
  <2>1. CASE k \in 1 .. Len(body)
    BY <1>2, <1>4, <1>5, <2>1 DEF Cut
  <2>2. CASE k = Len(body) + 1
    <3>1. k - 1 = Len(body)
      BY <1>2, <2>2
    <3>2. SubSeq(r, 1, k - 1) = body
      BY <1>4, <3>1
    <3> QED
      BY <3>2 DEF Cut
  <2> QED
    BY <1>2, <2>1, <2>2
<1>6. F \cup {frame} = {r[k].content : k \in {j \in 1 .. Len(r) : r[j].kind = "frame"}}
  <2>1. F = {body[k].content : k \in {j \in 1 .. Len(body) : body[j].kind = "frame"}}
    BY DEF Cut
  <2>2. \A j : j \in 1 .. Len(r) <=> j \in 1 .. Len(body) \/ j = Len(body) + 1
    BY <1>2
  <2> QED
    BY <1>1, <1>2, <2>1, <2>2
<1>7. Size(r) = max * n + FrameSize[frame.name]
  BY <1>1, <1>3 DEF Cut
<1>8. Cut(r, max * n + FrameSize[frame.name], max, F \cup {frame})
  BY <1>2, <1>5, <1>6, <1>7 DEF Cut
<1> QED
  BY <1>8 DEF r, e

LEMMA CutPadding ==
    ASSUME NEW body, NEW size \in Nat, NEW max \in Nat, NEW F, Cut(body, size, max, F),
           NEW d \in Nat
    PROVE  Cut(Append(body, Padding(d)), size + d, max, F)
<1> DEFINE e == Padding(d)
           r == Append(body, e)
<1>1. body \in Seq(Pieces) /\ e \in Pieces /\ e.kind # "frame" /\ e.size = d
  BY PieceFacts DEF Cut
<1> HIDE DEF e
<1>2. /\ Len(body) \in Nat /\ r \in Seq(Pieces) /\ Len(r) = Len(body) + 1 /\ r[Len(body) + 1] = e
      /\ \A i \in 1 .. Len(body) : r[i] = body[i]
  BY <1>1, AppendProperties, LenProperties
<1>3. Size(r) = size + d
  BY <1>1, SizeAppend DEF Cut
<1>4. \A k \in 1 .. Len(body) : SubSeq(r, 1, k - 1) = SubSeq(body, 1, k - 1)
  BY <1>1, AppendPrefix
<1> HIDE DEF r
<1>5. \A k : k \in 1 .. Len(r) /\ r[k].kind = "frame" <=>
             k \in 1 .. Len(body) /\ body[k].kind = "frame"
  <2>1. \A j : j \in 1 .. Len(r) <=> j \in 1 .. Len(body) \/ j = Len(body) + 1
    BY <1>2
  <2> QED
    BY <1>1, <1>2, <2>1
<1>6. ASSUME NEW k \in 1 .. Len(r), r[k].kind = "frame"
      PROVE  \E m \in Nat : Size(SubSeq(r, 1, k - 1)) = max * m
  BY <1>4, <1>5, <1>6 DEF Cut
<1>7. F = {r[k].content : k \in {j \in 1 .. Len(r) : r[j].kind = "frame"}}
  <2>1. F = {body[k].content : k \in {j \in 1 .. Len(body) : body[j].kind = "frame"}}
    BY DEF Cut
  <2> QED
    BY <1>2, <1>5, <2>1
<1>8. Cut(r, size + d, max, F)
  BY <1>2, <1>3, <1>6, <1>7 DEF Cut
<1> QED
  BY <1>8 DEF r, e
\* What copy_from makes of the stream of a frame: the frame and its padding.
LEMMA CopyFromFrame ==
    ASSUME NEW frame \in Frames, NEW max \in Nat, FrameSize[frame.name] <= max
    PROVE  /\ CopyFrom(<<FramePiece(frame)>>, max) =
                  IF FrameSize[frame.name] < max
                  THEN Append(<<FramePiece(frame)>>, Padding(max - FrameSize[frame.name]))
                  ELSE <<FramePiece(frame)>>
           /\ Size(<<FramePiece(frame)>>) = FrameSize[frame.name]
           /\ CopyFrom(<<FramePiece(frame)>>, max) \in Seq(Pieces)
<1> DEFINE e == FramePiece(frame)
<1>1. e \in Pieces /\ e.size = FrameSize[frame.name] /\ FrameSize[frame.name] \in Nat
  BY PieceFacts, FrameFacts
<1> HIDE DEF e
<1>2. <<>> \in Seq(Pieces) /\ <<e>> = Append(<<>>, e)
  BY <1>1
<1>3. Size(<<e>>) = FrameSize[frame.name]
  <2>1. Size(Append(<<>>, e)) = Size(<<>>) + e.size
    BY <1>1, <1>2, SizeAppend
  <2>2. 0 + FrameSize[frame.name] = FrameSize[frame.name]
    BY <1>1
  <2> QED
    BY <1>1, <1>2, <2>1, <2>2, SizeEmpty
<1>4. <<e>> \in Seq(Pieces)
  BY <1>1
<1>5. CASE FrameSize[frame.name] < max
  <2>1. max - FrameSize[frame.name] \in Nat
    BY <1>1, <1>5
  <2>2. Padding(max - FrameSize[frame.name]) \in Pieces
    BY <2>1, PieceFacts
  <2>3. Append(<<e>>, Padding(max - FrameSize[frame.name])) \in Seq(Pieces)
    BY <1>4, <2>2, AppendProperties
  <2> QED
    BY <1>3, <1>5, <2>3 DEF CopyFrom, e
<1>6. CASE ~(FrameSize[frame.name] < max)
  BY <1>3, <1>4, <1>6 DEF CopyFrom, e
<1> QED
  BY <1>5, <1>6

LEMMA CutChunk ==
    ASSUME NEW body, NEW n \in Nat, NEW max \in Nat, NEW F, Cut(body, max * n, max, F),
           NEW frame \in Frames, FrameSize[frame.name] <= max
    PROVE  Cut(body \o CopyFrom(<<FramePiece(frame)>>, max), max * (n + 1), max, F \cup {frame})
<1> DEFINE e == FramePiece(frame)
           s == FrameSize[frame.name]
           d == max - s
<1>1. s \in Nat /\ d \in Nat /\ max * n \in Nat /\ s + d = max
  BY FrameFacts
<1>2. body \in Seq(Pieces) /\ e \in Pieces
  BY PieceFacts DEF Cut
<1>3. Padding(d) \in Pieces
  BY <1>1, PieceFacts
<1>4. max * (n + 1) = (max * n + s) + d
  <2>1. max * (n + 1) = max * n + max
    OBVIOUS
  <2> QED
    BY <1>1, <2>1
<1>5. Cut(Append(body, e), max * n + s, max, F \cup {frame})
  BY CutFrame
<1>6. Append(body, e) = body \o <<e>> /\ <<e>> \in Seq(Pieces)
  BY <1>2, AppendIsConcat
<1>7. CASE s < max
  <2>1. CopyFrom(<<e>>, max) = Append(<<e>>, Padding(d))
    BY <1>7, CopyFromFrame
  <2> HIDE DEF e, s, d
  <2>2. Append(<<e>>, Padding(d)) = <<e>> \o <<Padding(d)>> /\ <<Padding(d)>> \in Seq(Pieces)
    BY <1>3, <1>6, AppendIsConcat
  <2>3. (body \o <<e>>) \o <<Padding(d)>> = body \o (<<e>> \o <<Padding(d)>>)
    BY <1>2, <1>6, <2>2, ConcatAssociative
  <2>4. body \o <<e>> \in Seq(Pieces)
    BY <1>2, <1>6, AppendProperties
  <2>5. Append(body \o <<e>>, Padding(d)) = (body \o <<e>>) \o <<Padding(d)>>
    BY <1>3, <2>4, AppendIsConcat
  <2>6. max * n + s \in Nat
    BY <1>1
  <2>7. Cut(Append(body \o <<e>>, Padding(d)), (max * n + s) + d, max, F \cup {frame})
    BY <1>1, <1>5, <1>6, <2>6, CutPadding
  <2>8. body \o CopyFrom(<<e>>, max) = Append(body \o <<e>>, Padding(d))
    BY <2>1, <2>2, <2>3, <2>5
  <2>9. Cut(body \o CopyFrom(<<e>>, max), max * (n + 1), max, F \cup {frame})
    BY <1>4, <2>7, <2>8
  <2> QED
    BY <2>9 DEF e
<1>8. CASE ~(s < max)
  <2>1. CopyFrom(<<e>>, max) = <<e>>
    BY <1>8, CopyFromFrame
  <2>2. max * (n + 1) = max * n + s
    BY <1>1, <1>4, <1>8
  <2> HIDE DEF e, s, d
  <2>3. Cut(body \o CopyFrom(<<e>>, max), max * (n + 1), max, F \cup {frame})
    BY <1>5, <1>6, <2>1, <2>2
  <2> QED
    BY <2>3 DEF e
<1> QED
  BY <1>7, <1>8
\* A packet: a header and a body that can be cut.
Packet(packet, h, size, max, F) ==
    \E body : packet = <<h>> \o body /\ Cut(body, size, max, F)

LEMMA PacketChunk ==
    ASSUME NEW h \in Pieces, NEW packet, NEW n \in Nat, NEW max \in Nat, NEW F,
           Packet(packet, h, max * n, max, F),
           NEW frame \in Frames, FrameSize[frame.name] <= max
    PROVE  Packet(packet \o CopyFrom(<<FramePiece(frame)>>, max), h, max * (n + 1), max,
                  F \cup {frame})
<1> DEFINE chunk == CopyFrom(<<FramePiece(frame)>>, max)
           hs == <<h>>
<1>1. PICK body : packet = <<h>> \o body /\ Cut(body, max * n, max, F)
  BY DEF Packet
<1>2. Cut(body \o chunk, max * (n + 1), max, F \cup {frame})
  BY <1>1, CutChunk
<1>3. chunk \in Seq(Pieces)
  BY CopyFromFrame
<1>4. body \in Seq(Pieces) /\ hs \in Seq(Pieces)
  BY <1>1 DEF Cut
<1> HIDE DEF chunk, hs
<1>5. (hs \o body) \o chunk = hs \o (body \o chunk)
  BY <1>3, <1>4, ConcatAssociative
<1>6. packet \o chunk = <<h>> \o (body \o chunk)
  BY <1>1, <1>5 DEF hs
<1> QED
  BY <1>2, <1>6 DEF Packet, chunk

\* The padded streams one after another are a packet.
LEMMA FlattenPacket ==
    ASSUME NEW fs \in Seq(Frames), NEW max \in Nat, NEW h \in Pieces,
           \A k \in 1 .. Len(fs) : FrameSize[fs[k].name] <= max,
           NEW seqs \in Seq(Seq(Pieces)), Len(seqs) = Len(fs) + 1, seqs[1] = <<h>>,
           \A k \in 1 .. Len(fs) : seqs[k + 1] = CopyFrom(<<FramePiece(fs[k])>>, max)
    PROVE  Packet(FlattenSeq(seqs), h, max * Len(fs), max, {fs[k] : k \in 1 .. Len(fs)})
<1> DEFINE n == Len(fs)
           Firsts(k) == {fs[j] : j \in 1 .. k}
<1>1. n \in Nat /\ \A k \in 1 .. n : fs[k] \in Frames
  BY LenProperties, ElementOfSeq
<1>2. seqs # <<>>
  BY <1>1, EmptySeq
<1>3. PICK f : IsFlat(f, seqs, n + 1) /\ FlattenSeq(seqs) = f[n + 1]
  BY <1>2, FlattenIs
<1>4. f[1] = <<h>>
  <2>1. 1 \in 1 .. n + 1
    BY <1>1
  <2> QED
    BY <1>3, <2>1 DEF IsFlat
<1>5. ASSUME NEW k \in 1 .. n PROVE f[k + 1] = f[k] \o CopyFrom(<<FramePiece(fs[k])>>, max)
  <2> DEFINE i == k + 1
  <2>1. i \in 1 .. n + 1 /\ i # 1 /\ i - 1 = k
    BY <1>1
  <2>2. seqs[i] = CopyFrom(<<FramePiece(fs[k])>>, max)
    OBVIOUS
  <2> HIDE DEF i, n
  <2>3. f[i] = f[i - 1] \o seqs[i]
    BY <1>3, <2>1 DEF IsFlat
  <2>4. f[i] = f[k] \o CopyFrom(<<FramePiece(fs[k])>>, max)
    BY <2>1, <2>2, <2>3
  <2> QED
    BY <2>4 DEF i
<1> DEFINE S == {k \in Nat : k <= n => Packet(f[k + 1], h, max * k, max, Firsts(k))}
<1>6. 0 \in S
  <2>1. <<h>> \o <<>> = <<h>>
    BY ConcatEmptySeq
  <2>2. Firsts(0) = {} /\ max * 0 = 0 /\ 0 + 1 = 1
    OBVIOUS
  <2>3. Packet(f[1], h, 0, max, {})
    BY <1>4, <2>1, CutEmpty DEF Packet
  <2> HIDE DEF Firsts
  <2> QED
    BY <2>2, <2>3
<1>7. ASSUME NEW k \in Nat, k \in S PROVE k + 1 \in S
  <2>1. CASE ~(k + 1 <= n)
    BY <2>1
  <2>2. CASE k + 1 <= n
    <3>1. k <= n /\ k + 1 \in 1 .. n
      BY <1>1, <2>2
    <3>2. Firsts(k) \cup {fs[k + 1]} = Firsts(k + 1)
      <4>1. \A j : j \in 1 .. k + 1 <=> j \in 1 .. k \/ j = k + 1
        OBVIOUS
      <4> QED
        BY <4>1
    <3>3. Packet(f[k + 1], h, max * k, max, Firsts(k))
      BY <1>7, <3>1
    <3> DEFINE frame == fs[k + 1]
    <3>4. frame \in Frames /\ FrameSize[frame.name] <= max
      BY <1>1, <3>1
    <3>5. f[k + 1 + 1] = f[k + 1] \o CopyFrom(<<FramePiece(frame)>>, max)
      BY <1>5, <3>1
    <3> HIDE DEF frame, Firsts
    <3>6. Packet(f[k + 1] \o CopyFrom(<<FramePiece(frame)>>, max), h, max * (k + 1), max,
                 Firsts(k) \cup {frame})
      BY <3>3, <3>4, PacketChunk
    <3>7. Packet(f[k + 1 + 1], h, max * (k + 1), max, Firsts(k + 1))
      BY <3>2, <3>5, <3>6 DEF frame
    <3> QED
      BY <3>7
  <2> QED
    BY <2>1, <2>2
<1> HIDE DEF S
<1>8. Nat \subseteq S
  BY <1>6, <1>7, SetInduction
<1>9. n \in S /\ n <= n
  BY <1>1, <1>8
<1> QED
  BY <1>3, <1>9 DEF S

-----------------------------------------------------------------------------
(* What the receiver reads.                                                 *)

LEMMA DivFacts ==
    ASSUME NEW m \in Nat \ {0}, NEW a \in Nat
    PROVE  a % m \in 0 .. m - 1 /\ a \div m \in Int /\ a = m * (a \div m) + (a % m)
<1>1. a % m \in 0 .. m - 1
  OBVIOUS
<1>2. a \div m \in Int
  OBVIOUS
<1>3. a = m * (a \div m) + (a % m)
  OBVIOUS
<1> QED
  BY <1>1, <1>2, <1>3

LEMMA NoBetween ==
    ASSUME NEW m \in Nat \ {0}, NEW x \in Int, NEW y \in Int, NEW r \in 0 .. m - 1,
           m * x = m * y + r
    PROVE  r = 0
<1>1. m * (x - y) = r
  OBVIOUS
<1> DEFINE z == x - y
<1>2. z \in Int /\ m * z = r
  BY <1>1
<1> HIDE DEF z
<1>3. z >= 1 => m * z >= m
  BY <1>2
<1>4. z <= -1 => m * z <= -m
  BY <1>2
<1>5. z = 0 => m * z = 0
  OBVIOUS
<1> QED
  BY <1>2, <1>3, <1>4, <1>5

LEMMA MultipleMod ==
    ASSUME NEW m \in Nat \ {0}, NEW k \in Nat
    PROVE  (m * k) % m = 0
<1> DEFINE a == m * k
<1>1. a \in Nat
  OBVIOUS
<1>2. a % m \in 0 .. m - 1 /\ a \div m \in Int /\ a = m * (a \div m) + (a % m)
  BY <1>1, DivFacts
<1>3. m * k = m * (a \div m) + (a % m)
  BY <1>2
<1> QED
  BY <1>2, <1>3, NoBetween
LEMMA ConsFacts ==
    ASSUME NEW S, NEW h \in S, NEW s \in Seq(S), NEW r, r = <<h>> \o s
    PROVE  /\ r \in Seq(S) /\ Len(s) \in Nat /\ Len(r) = Len(s) + 1 /\ r # <<>> /\ r[1] = h
           /\ \A i \in 1 .. Len(s) : r[i + 1] = s[i]
           /\ Tail(r) = s
           /\ \A k \in 1 .. Len(s) : SubSeq(r, 2, k) = SubSeq(s, 1, k - 1)
<1> DEFINE hs == <<h>>
<1>1. hs \in Seq(S) /\ Len(hs) = 1 /\ hs[1] = h /\ Len(s) \in Nat
  BY LenProperties
<1> HIDE DEF hs
<1>2. /\ hs \o s \in Seq(S) /\ Len(hs \o s) = 1 + Len(s)
      /\ \A i \in 1 .. 1 + Len(s) : (hs \o s)[i] = IF i <= 1 THEN hs[i] ELSE s[i - 1]
  <2>1. /\ hs \o s \in Seq(S) /\ Len(hs \o s) = Len(hs) + Len(s)
        /\ \A i \in 1 .. Len(hs) + Len(s) : (hs \o s)[i] =
               IF i <= Len(hs) THEN hs[i] ELSE s[i - Len(hs)]
    BY <1>1, ConcatProperties
  <2> QED
    BY <1>1, <2>1
<1>3. r = hs \o s
  BY DEF hs
<1>4. r \in Seq(S) /\ Len(r) = Len(s) + 1 /\ r[1] = h
  <2>1. 1 + Len(s) = Len(s) + 1 /\ 1 \in 1 .. 1 + Len(s) /\ 1 <= 1
    BY <1>1
  <2> QED
    BY <1>1, <1>2, <1>3, <2>1
<1>5. ASSUME NEW i \in 1 .. Len(s) PROVE r[i + 1] = s[i]
  <2>1. i + 1 \in 1 .. 1 + Len(s) /\ ~(i + 1 <= 1) /\ i + 1 - 1 = i
    BY <1>1
  <2> QED
    BY <1>2, <1>3, <2>1
<1>6. r # <<>>
  BY <1>1, <1>4, EmptySeq
<1>7. Tail(r) = s
  <2>1. Tail(r) \in Seq(S) /\ Len(Tail(r)) = Len(s)
    BY <1>1, <1>4, <1>6, HeadTailProperties
  <2>2. \A i \in 1 .. Len(Tail(r)) : Tail(r)[i] = r[i + 1]
    BY <1>4, <1>6, HeadTailProperties
  <2>3. \A i \in 1 .. Len(Tail(r)) : Tail(r)[i] = s[i]
    BY <1>5, <2>1, <2>2
  <2> QED
    BY <2>1, <2>3, SeqEqual
<1>8. ASSUME NEW k \in 1 .. Len(s) PROVE SubSeq(r, 2, k) = SubSeq(s, 1, k - 1)
  <2> DEFINE a == SubSeq(r, 2, k)
             b == SubSeq(s, 1, k - 1)
  <2>1. k \in Int /\ 2 \in Int /\ 1 \in Int /\ k - 1 \in Int
    BY <1>1
  <2>2. \A i \in 2 .. k : r[i] \in S
    <3>1. \A i \in 2 .. k : i \in 1 .. Len(r)
      BY <1>1, <1>4
    <3> QED
      BY <1>4, <3>1, ElementOfSeq
  <2>3. \A i \in 1 .. k - 1 : s[i] \in S
    <3>1. \A i \in 1 .. k - 1 : i \in 1 .. Len(s)
      BY <1>1
    <3> QED
      BY <3>1, ElementOfSeq
  <2>4. /\ a \in Seq(S) /\ Len(a) = IF 2 <= k THEN k - 2 + 1 ELSE 0
        /\ \A i \in 1 .. k - 2 + 1 : a[i] = r[2 + i - 1]
    BY <2>1, <2>2, SubSeqProperties
  <2>5. /\ b \in Seq(S) /\ Len(b) = IF 1 <= k - 1 THEN k - 1 - 1 + 1 ELSE 0
        /\ \A i \in 1 .. k - 1 - 1 + 1 : b[i] = s[1 + i - 1]
    BY <2>1, <2>3, SubSeqProperties
  <2> HIDE DEF a, b
  <2>6. Len(a) = Len(b) /\ Len(a) = k - 1
    BY <1>1, <2>1, <2>4, <2>5
  <2>7. ASSUME NEW i \in 1 .. Len(a) PROVE a[i] = b[i]
    <3>1. /\ i \in 1 .. k - 2 + 1 /\ i \in 1 .. k - 1 - 1 + 1 /\ i \in 1 .. Len(s)
          /\ 2 + i - 1 = i + 1 /\ 1 + i - 1 = i
      BY <1>1, <2>1, <2>6
    <3> QED
      BY <1>5, <2>4, <2>5, <3>1
  <2>8. a = b
    BY <2>4, <2>5, <2>6, <2>7, SeqEqual
  <2> QED
    BY <2>8 DEF a, b
<1> QED
  BY <1>1, <1>4, <1>5, <1>6, <1>7, <1>8

\* The receiver takes from a packet the frames its body can be cut into.
LEMMA PacketRead ==
    ASSUME NEW n \in Nat, NEW max \in Nat \ {0}, NEW F, NEW packet,
           Packet(packet, Header(n, max), max * n, max, F)
    PROVE  /\ packet \in Seq(Pieces) /\ packet # <<>> /\ packet[1] = Header(n, max)
           /\ Size(Tail(packet)) = n * max
           /\ ReadFrames(packet) = F
<1> DEFINE h == Header(n, max)
<1>1. PICK body : packet = <<h>> \o body /\ Cut(body, max * n, max, F)
  BY DEF Packet
<1>2. h \in Pieces /\ h.kind = "header" /\ h.content.count = n /\ h.content.max = max
  BY PieceFacts
<1> HIDE DEF h
<1>3. body \in Seq(Pieces)
  BY <1>1 DEF Cut
<1>4. /\ packet \in Seq(Pieces) /\ Len(body) \in Nat /\ Len(packet) = Len(body) + 1
      /\ packet # <<>> /\ packet[1] = h
      /\ \A i \in 1 .. Len(body) : packet[i + 1] = body[i]
      /\ Tail(packet) = body
      /\ \A k \in 1 .. Len(body) : SubSeq(packet, 2, k) = SubSeq(body, 1, k - 1)
  BY <1>1, <1>2, <1>3, ConsFacts
<1>5. Size(Tail(packet)) = n * max
  <2>1. max * n = n * max
    OBVIOUS
  <2> QED
    BY <1>1, <1>4, <2>1 DEF Cut
<1>6. WellFormed(packet)
  BY <1>2, <1>4, <1>5 DEF WellFormed
<1> DEFINE Places == {k \in 2 .. Len(packet) :
                         /\ packet[k].kind = "frame"
                         /\ Size(SubSeq(packet, 2, k - 1)) % max = 0}
           Read == {packet[i].content : i \in Places}
<1>7. ReadFrames(packet) = Read
  BY <1>2, <1>4, <1>6 DEF ReadFrames
<1>8. ASSUME NEW j \in 1 .. Len(body), body[j].kind = "frame" PROVE j + 1 \in Places
  <2>1. PICK m \in Nat : Size(SubSeq(body, 1, j - 1)) = max * m
    BY <1>1, <1>8 DEF Cut
  <2>2. j + 1 \in 2 .. Len(packet) /\ j + 1 - 1 = j
    BY <1>4
  <2>3. (max * m) % max = 0
    BY MultipleMod
  <2>4. Size(SubSeq(packet, 2, j)) = max * m
    BY <1>4, <2>1
  <2>5. packet[j + 1].kind = "frame"
    BY <1>4, <1>8
  <2>6. Size(SubSeq(packet, 2, j + 1 - 1)) % max = 0
    BY <2>2, <2>3, <2>4
  <2> QED
    BY <2>2, <2>5, <2>6
<1>9. ASSUME NEW k \in Places
      PROVE  \E j \in 1 .. Len(body) : body[j].kind = "frame" /\ body[j].content = packet[k].content
  <2>1. k \in 2 .. Len(packet) /\ packet[k].kind = "frame"
    OBVIOUS
  <2>2. k - 1 \in 1 .. Len(body) /\ k - 1 + 1 = k
    BY <1>4, <2>1
  <2>3. packet[k] = body[k - 1]
    BY <1>4, <2>2
  <2> QED
    BY <2>1, <2>2, <2>3
<1>10. F = {body[k].content : k \in {j \in 1 .. Len(body) : body[j].kind = "frame"}}
  BY <1>1 DEF Cut
<1>11. Read = F
  <2> HIDE DEF Places
  <2>1. ASSUME NEW x \in F PROVE x \in Read
    <3>1. PICK j \in 1 .. Len(body) : body[j].kind = "frame" /\ x = body[j].content
      BY <1>10
    <3>2. j + 1 \in Places /\ packet[j + 1].content = x
      BY <1>4, <1>8, <3>1
    <3> QED
      BY <3>2
  <2>2. ASSUME NEW x \in Read PROVE x \in F
    <3>1. PICK k \in Places : x = packet[k].content
      OBVIOUS
    <3>2. PICK j \in 1 .. Len(body) : body[j].kind = "frame" /\ body[j].content = packet[k].content
      BY <1>9
    <3> QED
      BY <1>10, <3>1, <3>2
  <2> QED
    BY <2>1, <2>2
<1> QED
  BY <1>4, <1>5, <1>7, <1>11 DEF h
-----------------------------------------------------------------------------
(* The largest stream, and the frames of an instance.                       *)

LEMMA LargestFacts ==
    ASSUME NEW streams \in Seq(Seq(Pieces)), streams # <<>>
    PROVE  /\ Largest(streams) \in Nat
           /\ \A i \in 1 .. Len(streams) : Size(streams[i]) <= Largest(streams)
<1> DEFINE n == Len(streams)
           g == [i \in 1 .. n |-> Size(streams[i])]
           sizes == {Size(streams[i]) : i \in DOMAIN streams}
<1>1. n \in Nat \ {0} /\ DOMAIN streams = 1 .. n /\ \A i \in 1 .. n : streams[i] \in Seq(Pieces)
  BY LenProperties, EmptySeq, ElementOfSeq
<1>2. \A i \in 1 .. n : g[i] \in Nat
  BY <1>1, SizeType
<1>3. sizes = {g[i] : i \in 1 .. n}
  BY <1>1
<1> HIDE DEF g, n
<1> DEFINE S == {m \in Nat : m + 1 <= n =>
                     \E k \in 1 .. m + 1 : \A j \in 1 .. m + 1 : g[j] <= g[k]}
<1>4. 0 \in S
  <2>1. 0 + 1 = 1 /\ 1 .. 1 = {1} /\ 1 \in 1 .. n /\ 1 <= n
    BY <1>1
  <2>2. g[1] \in Nat
    BY <1>2, <2>1
  <2>3. g[1] <= g[1]
    BY <2>2
  <2> QED
    BY <2>1, <2>3
<1>5. ASSUME NEW m \in Nat, m \in S PROVE m + 1 \in S
  <2> SUFFICES ASSUME m + 1 + 1 <= n
               PROVE  \E k \in 1 .. m + 1 + 1 : \A j \in 1 .. m + 1 + 1 : g[j] <= g[k]
    OBVIOUS
  <2>1. m + 1 <= n /\ m + 2 \in 1 .. n /\ m + 1 + 1 = m + 2
    BY <1>1
  <2>2. PICK k \in 1 .. m + 1 : \A j \in 1 .. m + 1 : g[j] <= g[k]
    BY <1>5, <2>1
  <2>3. k \in 1 .. n /\ \A j \in 1 .. m + 1 : j \in 1 .. n
    BY <1>1, <2>1
  <2>4. \A j \in 1 .. m + 2 : j \in 1 .. m + 1 \/ j = m + 2
    OBVIOUS
  <2>5. g[k] \in Nat /\ g[m + 2] \in Nat /\ \A j \in 1 .. m + 1 : g[j] \in Nat
    BY <1>2, <2>1, <2>3
  <2>6. k \in 1 .. m + 2 /\ m + 2 \in 1 .. m + 2
    OBVIOUS
  <2>7. CASE g[m + 2] <= g[k]
    BY <2>1, <2>2, <2>4, <2>6, <2>7
  <2>8. CASE ~(g[m + 2] <= g[k])
    <3>1. \A j \in 1 .. m + 1 : g[j] <= g[m + 2]
      BY <2>2, <2>5, <2>8
    <3>2. g[m + 2] <= g[m + 2]
      BY <2>5
    <3>3. \A j \in 1 .. m + 2 : g[j] <= g[m + 2]
      BY <2>4, <3>1, <3>2
    <3> QED
      BY <2>1, <2>6, <3>3
  <2> QED
    BY <2>7, <2>8
<1> HIDE DEF S
<1>6. Nat \subseteq S
  BY <1>4, <1>5, SetInduction
<1>7. n - 1 \in S /\ n - 1 + 1 = n /\ n <= n
  BY <1>1, <1>6
<1>8. PICK k \in 1 .. n : \A j \in 1 .. n : g[j] <= g[k]
  BY <1>7 DEF S
<1> HIDE DEF sizes
<1>9. /\ g[k] \in sizes /\ \A x \in sizes : x \in Nat /\ x <= g[k]
      /\ \A i \in 1 .. n : Size(streams[i]) \in sizes
  BY <1>2, <1>3, <1>8 DEF g
<1> DEFINE L == CHOOSE x \in sizes : \A y \in sizes : y <= x
<1>10. L \in sizes /\ \A y \in sizes : y <= L
  BY <1>9
<1>11. Largest(streams) = L
  BY <1>9 DEF Largest, sizes
<1> QED
  BY <1>9, <1>10, <1>11 DEF n

LEMMA SetToSeqFacts ==
    ASSUME NEW T, NEW S \in SUBSET T, IsFiniteSet(S)
    PROVE  /\ SetToSeq(S) \in Seq(T) /\ Len(SetToSeq(S)) = Cardinality(S)
           /\ {SetToSeq(S)[k] : k \in 1 .. Cardinality(S)} = S
<1> DEFINE n == Cardinality(S)
           f == SetToSeq(S)
<1>1. n \in Nat /\ ExistsBijection(1 .. n, S)
  BY FS_CardinalityType
<1> HIDE DEF n
<1>2. \E g \in [1 .. n -> S] : IsInjective(g)
  <2>1. PICK g \in Bijection(1 .. n, S) : TRUE
    BY <1>1 DEF ExistsBijection
  <2>2. g \in [1 .. n -> S] /\ \A a, b \in DOMAIN g : g[a] = g[b] => a = b
    BY <2>1 DEF Bijection, Injection, IsInjective
  <2> QED
    BY <2>2 DEF IsInjective
<1>3. f \in [1 .. n -> S] /\ IsInjective(f)
  <2>1. f = CHOOSE g \in [1 .. n -> S] : IsInjective(g)
    BY DEF SetToSeq, n
  <2> HIDE DEF f
  <2> QED
    BY <1>2, <2>1
<1> HIDE DEF f
<1>4. f \in Injection(1 .. n, S)
  BY <1>3 DEF Injection, IsInjective
<1>5. Cardinality(1 .. n) = n
  BY <1>1, FS_Interval
<1>6. f \in Surjection(1 .. n, S)
  BY <1>4, <1>5, FS_Injection DEF n
<1>7. \A t \in S : \E s \in 1 .. n : f[s] = t
  BY <1>6 DEF Surjection
<1>8. {f[k] : k \in 1 .. n} = S
  BY <1>3, <1>7
<1>9. f \in [1 .. n -> T]
  BY <1>3
<1>10. f \in Seq(T) /\ Len(f) = n
  BY <1>1, <1>9
<1> QED
  BY <1>8, <1>10 DEF f, n
-----------------------------------------------------------------------------
(* The streams of DoSnapshot.                                               *)

LEMMA FunctionSeq ==
    ASSUME NEW S, NEW m \in Nat, NEW f \in [1 .. m -> S]
    PROVE  f \in Seq(S) /\ Len(f) = m
OBVIOUS

LEMMA GenerateFacts ==
    ASSUME NEW stream, stream.m_data \in Seq(Seq(Pieces)), stream.m_data # <<>>,
           NEW n \in Nat, NEW max \in Nat
    PROVE  LET d == stream.m_data
               e == Generate(stream, n, max)
           IN  /\ e = [m_data |-> e.m_data, m_Finished |-> stream.m_Finished]
               /\ e.m_data \in Seq(Seq(Pieces)) /\ Len(e.m_data) = Len(d)
               /\ e.m_data[1] = Append(d[1], Header(n, max))
               /\ \A i \in 1 .. Len(d) : i # 1 => e.m_data[i] = CopyFrom(d[i], max)
<1> DEFINE d == stream.m_data
           e == Generate(stream, n, max)
<1>1. /\ Len(d) \in Nat \ {0} /\ DOMAIN d = 1 .. Len(d) /\ 1 \in 1 .. Len(d)
      /\ \A i \in 1 .. Len(d) : d[i] \in Seq(Pieces)
  BY LenProperties, EmptySeq, ElementOfSeq
<1> DEFINE a == [i \in 1 .. Len(d) |-> IF i = 1 THEN Append(d[1], Header(n, max))
                                       ELSE CopyFrom(d[i], max)]
<1>2. e = [m_data |-> a, m_Finished |-> stream.m_Finished]
  BY <1>1 DEF Generate
<1>3. ASSUME NEW i \in 1 .. Len(d) PROVE CopyFrom(d[i], max) \in Seq(Pieces)
  <2> DEFINE p == d[i]
  <2>1. p \in Seq(Pieces)
    BY <1>1
  <2> HIDE DEF p
  <2>2. Size(p) \in Nat
    BY <2>1, SizeType
  <2>3. CASE Size(p) < max
    <3>1. max - Size(p) \in Nat
      BY <2>2, <2>3
    <3>2. Padding(max - Size(p)) \in Pieces
      BY <3>1, PieceFacts
    <3>3. Append(p, Padding(max - Size(p))) \in Seq(Pieces)
      BY <2>1, <3>2, AppendProperties
    <3> QED
      BY <2>3, <3>3 DEF CopyFrom, p
  <2>4. CASE ~(Size(p) < max)
    BY <2>1, <2>4 DEF CopyFrom, p
  <2> QED
    BY <2>3, <2>4
<1>4. Append(d[1], Header(n, max)) \in Seq(Pieces)
  BY <1>1, PieceFacts, AppendProperties
<1>5. a \in [1 .. Len(d) -> Seq(Pieces)]
  BY <1>3, <1>4
<1>6. a \in Seq(Seq(Pieces)) /\ Len(a) = Len(d)
  <2> DEFINE S == Seq(Pieces)
             m == Len(d)
  <2>1. m \in Nat /\ a \in [1 .. m -> S]
    BY <1>1, <1>5
  <2> HIDE DEF a, S, m
  <2>2. a \in Seq(S) /\ Len(a) = m
    BY <2>1, FunctionSeq
  <2> QED
    BY <2>2 DEF S, m
<1>7. /\ a[1] = Append(d[1], Header(n, max))
      /\ \A i \in 1 .. Len(d) : i # 1 => a[i] = CopyFrom(d[i], max)
  BY <1>1
<1> HIDE DEF a
<1> QED
  BY <1>2, <1>6, <1>7

\* A stream with the frames fs, before the header is in it.
Opened(d, fs) ==
    /\ fs \in Seq(Frames) /\ d \in Seq(Seq(Pieces))
    /\ Len(d) = Len(fs) + 1 /\ d[1] = <<>>
    /\ \A k \in 1 .. Len(fs) : d[k + 1] = <<FramePiece(fs[k])>>

\* A stream after result(): its first part is at least as long as its header says.
Spent(stream) ==
    \E d, count, max :
        /\ stream = [m_data |-> d, m_Finished |-> TRUE]
        /\ d \in Seq(Seq(Pieces)) /\ Len(d) \in 2 .. Cardinality(Vars) + 1
        /\ count \in Nat /\ max \in Nat
        /\ d[1] # <<>> /\ d[1][1] = Header(count, max)
        /\ Size(Tail(d[1])) >= count * max

\* A stream that got its frames and then their number and the size of the largest
\* is read back, and is spent.
LEMMA GenerateReadBack ==
    ASSUME NEW d, NEW fs, Opened(d, fs), fs # <<>>, NEW max \in Nat,
           \A k \in 1 .. Len(fs) : FrameSize[fs[k].name] <= max,
           NEW stream, stream.m_data = d, ~stream.m_Finished,
           NEW e, e = Generate(stream, Len(fs), max)
    PROVE  /\ Modified(e)
           /\ Result(e).m_data[1] \in Seq(Pieces)
           /\ ReadFrames(Result(e).m_data[1]) = {fs[k] : k \in 1 .. Len(fs)}
           /\ Len(fs) <= Cardinality(Vars) => Spent(Result(e))
<1> DEFINE n == Len(fs)
           seqs == e.m_data
           h == Header(n, max)
           packet == FlattenSeq(seqs)
           F == {fs[k] : k \in 1 .. n}
<1>1. fs \in Seq(Frames) /\ d \in Seq(Seq(Pieces)) /\ Len(d) = n + 1 /\ d[1] = <<>>
  BY DEF Opened
<1>2. n \in Nat \ {0} /\ \A k \in 1 .. n : fs[k] \in Frames
  BY <1>1, EmptySeq, ElementOfSeq
<1>3. d # <<>>
  BY <1>1, <1>2, EmptySeq
<1>4. max # 0
  <2>1. 1 \in 1 .. n
    BY <1>2
  <2>2. FrameSize[fs[1].name] <= max /\ FrameSize[fs[1].name] \in Nat \ {0}
    BY <1>2, <2>1, FrameFacts
  <2> QED
    BY <2>2
<1>5. h \in Pieces
  BY <1>2, PieceFacts
<1>6. /\ e = [m_data |-> seqs, m_Finished |-> stream.m_Finished]
      /\ seqs \in Seq(Seq(Pieces)) /\ Len(seqs) = Len(d)
      /\ seqs[1] = Append(d[1], h)
      /\ \A i \in 1 .. Len(d) : i # 1 => seqs[i] = CopyFrom(d[i], max)
  <2>1. e = Generate(stream, n, max) /\ n \in Nat
    BY <1>2
  <2> HIDE DEF n
  <2>2. stream.m_data \in Seq(Seq(Pieces)) /\ stream.m_data # <<>>
    BY <1>1, <1>3
  <2> DEFINE g == Generate(stream, n, max)
  <2>3. /\ g = [m_data |-> g.m_data, m_Finished |-> stream.m_Finished]
        /\ g.m_data \in Seq(Seq(Pieces)) /\ Len(g.m_data) = Len(stream.m_data)
        /\ g.m_data[1] = Append(stream.m_data[1], Header(n, max))
        /\ \A i \in 1 .. Len(stream.m_data) : i # 1 => g.m_data[i] = CopyFrom(stream.m_data[i], max)
    BY <2>1, <2>2, GenerateFacts
  <2>4. e = g
    BY <2>1
  <2> HIDE DEF g
  <2> QED
    BY <2>3, <2>4
<1> HIDE DEF h, seqs
<1>7. seqs[1] = <<h>>
  <2>1. seqs[1] = Append(<<>>, h)
    BY <1>1, <1>6
  <2> QED
    BY <2>1
<1>8. ASSUME NEW k \in 1 .. n PROVE seqs[k + 1] = CopyFrom(<<FramePiece(fs[k])>>, max)
  <2>1. k + 1 \in 1 .. Len(d) /\ k + 1 # 1
    BY <1>1, <1>2
  <2>2. d[k + 1] = <<FramePiece(fs[k])>>
    BY DEF Opened
  <2> QED
    BY <1>6, <2>1, <2>2
<1>9. Packet(packet, h, max * n, max, F)
  BY <1>1, <1>5, <1>6, <1>7, <1>8, FlattenPacket
<1> HIDE DEF packet, F
<1>10. /\ packet \in Seq(Pieces) /\ packet # <<>> /\ packet[1] = h
       /\ Size(Tail(packet)) = n * max /\ ReadFrames(packet) = F
  BY <1>2, <1>4, <1>9, PacketRead DEF h
<1>11. Result(e) = [m_data |-> <<packet>> \o Tail(seqs), m_Finished |-> TRUE]
  <2>1. e.m_data = seqs /\ ~e.m_Finished
    BY <1>6 DEF seqs
  <2> QED
    BY <2>1 DEF Result, packet
<1> DEFINE r == <<packet>> \o Tail(seqs)
<1>12. seqs # <<>>
  BY <1>1, <1>2, <1>6, EmptySeq
<1>13. Tail(seqs) \in Seq(Seq(Pieces)) /\ Len(Tail(seqs)) = n
  BY <1>1, <1>2, <1>6, <1>12, HeadTailProperties
<1>14. r \in Seq(Seq(Pieces)) /\ Len(r) = n + 1 /\ r[1] = packet
  <2> DEFINE t == Tail(seqs)
             S == Seq(Pieces)
  <2>1. t \in Seq(S) /\ Len(t) = n /\ packet \in S
    BY <1>10, <1>13
  <2> HIDE DEF t, S
  <2>2. <<packet>> \o t \in Seq(S) /\ Len(<<packet>> \o t) = n + 1 /\ (<<packet>> \o t)[1] = packet
    BY <2>1, ConsFacts
  <2> QED
    BY <2>2 DEF t, S
<1> HIDE DEF r
<1>15. Result(e) = [m_data |-> r, m_Finished |-> TRUE]
  BY <1>11 DEF r
<1>16. Modified(e)
  BY <1>1, <1>2, <1>6 DEF Modified, seqs
<1>17. Result(e).m_data[1] = packet
  BY <1>14, <1>15
<1>18. n <= Cardinality(Vars) => Spent(Result(e))
  <2>1. SUFFICES ASSUME n <= Cardinality(Vars) PROVE Spent(Result(e))
    OBVIOUS
  <2>2. Cardinality(Vars) \in Nat
    BY FramingAssumption, FS_CardinalityType
  <2>3. Len(r) \in 2 .. Cardinality(Vars) + 1
    BY <1>2, <1>14, <2>1, <2>2
  <2>4. n \in Nat /\ n * max \in Nat /\ n * max >= n * max
    BY <1>2
  <2> QED
    BY <1>10, <1>14, <1>15, <2>3, <2>4 DEF Spent, h
<1> QED
  BY <1>10, <1>16, <1>17, <1>18 DEF F
\* The streams of some frames.
FrameStreams(gs) == [k \in DOMAIN gs |-> <<FramePiece(gs[k])>>]

LEMMA FrameStreamsFacts ==
    ASSUME NEW gs \in Seq(Frames)
    PROVE  /\ FrameStreams(gs) \in Seq(Seq(Pieces)) /\ Len(FrameStreams(gs)) = Len(gs)
           /\ \A k \in 1 .. Len(gs) : /\ FrameStreams(gs)[k] = <<FramePiece(gs[k])>>
                                      /\ Size(FrameStreams(gs)[k]) = FrameSize[gs[k].name]
<1> DEFINE S == Seq(Pieces)
           m == Len(gs)
           f == FrameStreams(gs)
<1>1. m \in Nat /\ DOMAIN gs = 1 .. m /\ \A k \in 1 .. m : gs[k] \in Frames
  BY LenProperties, ElementOfSeq
<1>2. f = [k \in 1 .. m |-> <<FramePiece(gs[k])>>]
  BY <1>1 DEF FrameStreams
<1> HIDE DEF f
<1>3. ASSUME NEW k \in 1 .. m PROVE <<FramePiece(gs[k])>> \in S
  <2> DEFINE e == FramePiece(gs[k])
  <2>1. e \in Pieces
    BY <1>1, PieceFacts
  <2> HIDE DEF e
  <2>2. <<e>> \in S
    BY <2>1
  <2> QED
    BY <2>2 DEF e
<1>4. f \in [1 .. m -> S]
  <2> HIDE DEF S, m
  <2> QED
    BY <1>2, <1>3
<1>5. f \in Seq(S) /\ Len(f) = m
  <2> HIDE DEF S, m
  <2> QED
    BY <1>1, <1>4, FunctionSeq
<1>6. ASSUME NEW k \in 1 .. m
      PROVE  f[k] = <<FramePiece(gs[k])>> /\ Size(f[k]) = FrameSize[gs[k].name]
  <2>1. f[k] = <<FramePiece(gs[k])>>
    BY <1>2
  <2>2. gs[k] \in Frames /\ FrameSize[gs[k].name] \in Nat
    BY <1>1, FrameFacts
  <2>3. FrameSize[gs[k].name] <= FrameSize[gs[k].name]
    BY <2>2
  <2>4. Size(<<FramePiece(gs[k])>>) = FrameSize[gs[k].name]
    BY <2>2, <2>3, CopyFromFrame
  <2> QED
    BY <2>1, <2>4
<1> QED
  BY <1>5, <1>6 DEF f

LEMMA OpenedMore ==
    ASSUME NEW d, NEW fs, Opened(d, fs), NEW gs \in Seq(Frames)
    PROVE  Opened(d \o FrameStreams(gs), fs \o gs)
<1> DEFINE g == FrameStreams(gs)
           S == Seq(Pieces)
<1>1. /\ fs \in Seq(Frames) /\ d \in Seq(S) /\ Len(d) = Len(fs) + 1 /\ d[1] = <<>>
      /\ \A k \in 1 .. Len(fs) : d[k + 1] = <<FramePiece(fs[k])>>
  BY DEF Opened
<1>2. /\ g \in Seq(S) /\ Len(g) = Len(gs)
      /\ \A k \in 1 .. Len(gs) : g[k] = <<FramePiece(gs[k])>>
  BY FrameStreamsFacts
<1>3. Len(fs) \in Nat /\ Len(gs) \in Nat /\ Len(d) \in Nat
  BY <1>1, LenProperties
<1> HIDE DEF g, S
<1>4. /\ fs \o gs \in Seq(Frames) /\ Len(fs \o gs) = Len(fs) + Len(gs)
      /\ \A i \in 1 .. Len(fs) + Len(gs) : (fs \o gs)[i] =
             IF i <= Len(fs) THEN fs[i] ELSE gs[i - Len(fs)]
  BY <1>1, ConcatProperties
<1>5. /\ d \o g \in Seq(S) /\ Len(d \o g) = Len(d) + Len(g)
      /\ \A i \in 1 .. Len(d) + Len(g) : (d \o g)[i] =
             IF i <= Len(d) THEN d[i] ELSE g[i - Len(d)]
  BY <1>1, <1>2, ConcatProperties
<1>6. Len(d \o g) = Len(fs \o gs) + 1 /\ (d \o g)[1] = <<>>
  <2>1. 1 \in 1 .. Len(d) + Len(g) /\ 1 <= Len(d)
    BY <1>1, <1>2, <1>3
  <2>2. Len(d \o g) = Len(fs \o gs) + 1
    BY <1>1, <1>2, <1>3, <1>4, <1>5
  <2> QED
    BY <1>1, <1>5, <2>1, <2>2
<1>7. ASSUME NEW k \in 1 .. Len(fs \o gs)
      PROVE  (d \o g)[k + 1] = <<FramePiece((fs \o gs)[k])>>
  <2>1. k \in 1 .. Len(fs) + Len(gs) /\ k + 1 \in 1 .. Len(d) + Len(g)
    BY <1>1, <1>2, <1>3, <1>4
  <2>2. CASE k <= Len(fs)
    <3>1. k + 1 <= Len(d) /\ k \in 1 .. Len(fs)
      BY <1>1, <1>3, <2>1, <2>2
    <3>2. (d \o g)[k + 1] = d[k + 1] /\ (fs \o gs)[k] = fs[k]
      BY <1>4, <1>5, <2>1, <2>2, <3>1
    <3> QED
      BY <1>1, <3>1, <3>2
  <2>3. CASE ~(k <= Len(fs))
    <3>1. /\ ~(k + 1 <= Len(d)) /\ k - Len(fs) \in 1 .. Len(gs)
          /\ k + 1 - Len(d) = k - Len(fs)
      BY <1>1, <1>3, <2>1, <2>3
    <3>2. (d \o g)[k + 1] = g[k - Len(fs)] /\ (fs \o gs)[k] = gs[k - Len(fs)]
      BY <1>4, <1>5, <2>1, <2>3, <3>1
    <3> QED
      BY <1>2, <3>1, <3>2
  <2> QED
    BY <2>2, <2>3
<1> QED
  BY <1>4, <1>5, <1>6, <1>7 DEF Opened, g, S

\* No frame is larger than what DoSnapshot computes.
LEMMA LargestOfOpened ==
    ASSUME NEW d, NEW fs, Opened(d, fs), NEW gs \in Seq(Frames), fs \o gs # <<>>,
           NEW max,
           max = Largest((IF Len(d) > 1 THEN d ELSE <<>>) \o FrameStreams(gs))
    PROVE  /\ max \in Nat
           /\ \A k \in 1 .. Len(fs \o gs) : FrameSize[(fs \o gs)[k].name] <= max
<1> DEFINE g == FrameStreams(gs)
           S == Seq(Pieces)
           q == fs \o gs
<1>1. /\ fs \in Seq(Frames) /\ d \in Seq(S) /\ Len(d) = Len(fs) + 1
  BY DEF Opened
<1>2. g \in Seq(S) /\ Len(g) = Len(gs)
  BY FrameStreamsFacts
<1>3. Len(fs) \in Nat /\ Len(gs) \in Nat
  BY <1>1, LenProperties
<1>4. q \in Seq(Frames) /\ Len(q) \in Nat \ {0} /\ \A k \in 1 .. Len(q) : q[k] \in Frames
  <2>1. q \in Seq(Frames)
    BY <1>1, ConcatProperties
  <2> HIDE DEF q
  <2>2. q # <<>>
    BY DEF q
  <2> QED
    BY <2>1, <2>2, EmptySeq, ElementOfSeq
<1>5. ASSUME NEW e \in Frames PROVE Size(<<FramePiece(e)>>) = FrameSize[e.name]
  <2>1. FrameSize[e.name] \in Nat /\ FrameSize[e.name] <= FrameSize[e.name]
    BY FrameFacts
  <2> QED
    BY <2>1, CopyFromFrame
<1>6. CASE Len(d) > 1
  <2> DEFINE a == d \o g
  <2>1. max = Largest(a)
    BY <1>6
  <2>2. Opened(a, q)
    BY OpenedMore
  <2> HIDE DEF a, q
  <2>3. /\ a \in Seq(Seq(Pieces)) /\ Len(a) = Len(q) + 1
        /\ \A k \in 1 .. Len(q) : a[k + 1] = <<FramePiece(q[k])>>
    BY <2>2 DEF Opened
  <2>4. a # <<>>
    BY <1>4, <2>3, EmptySeq
  <2>5. max \in Nat /\ \A i \in 1 .. Len(a) : Size(a[i]) <= max
    BY <2>1, <2>3, <2>4, LargestFacts
  <2>6. ASSUME NEW k \in 1 .. Len(q) PROVE FrameSize[q[k].name] <= max
    <3>1. k + 1 \in 1 .. Len(a)
      BY <1>4, <2>3
    <3>2. Size(a[k + 1]) <= max /\ a[k + 1] = <<FramePiece(q[k])>>
      BY <2>3, <2>5, <3>1
    <3> QED
      BY <1>4, <1>5, <3>2
  <2> QED
    BY <2>5, <2>6 DEF q
<1>7. CASE ~(Len(d) > 1)
  <2>1. fs = <<>>
    BY <1>1, <1>3, <1>7, EmptySeq
  <2>2. q = gs /\ <<>> \o g = g
    BY <1>2, <2>1, ConcatEmptySeq
  <2>3. max = Largest(g)
    BY <1>7, <2>2
  <2>4. g # <<>>
    BY <1>2, <1>4, <2>2, EmptySeq
  <2>5. max \in Nat /\ \A i \in 1 .. Len(g) : Size(g[i]) <= max
    BY <1>2, <2>3, <2>4, LargestFacts
  <2>6. \A k \in 1 .. Len(gs) : FrameSize[gs[k].name] <= max
    BY <1>2, <2>5, FrameStreamsFacts
  <2> HIDE DEF q
  <2>7. \A k \in 1 .. Len(q) : FrameSize[q[k].name] <= max
    BY <2>2, <2>6
  <2> QED
    BY <2>5, <2>7 DEF q
<1> QED
  BY <1>6, <1>7
StateTypes ==
    /\ version \in [Vars -> 0 .. MaxVersion]
    /\ pending \in SUBSET Vars

\* The frames of an instance: not more than variables, one per changed variable.
LEMMA TakenFacts ==
    ASSUME StateTypes, NEW i
    PROVE  /\ Taken(i) \in SUBSET Frames
           /\ IsFiniteSet(Taken(i)) /\ Cardinality(Taken(i)) \in Nat
           /\ Cardinality(Taken(i)) <= Cardinality(Vars)
           /\ Cardinality(Vars) \in Nat
<1> DEFINE W == {w \in pending : InstanceOf[w] = i}
           T == Taken(i)
           f == [v \in W |-> Frame(v, version[v])]
<1>1. IsFiniteSet(Vars) /\ W \in SUBSET Vars
  BY FramingAssumption DEF StateTypes
<1>2. T = {Frame(v, version[v]) : v \in W}
  BY DEF Taken
<1>3. T \in SUBSET Frames
  BY <1>1, <1>2 DEF Frames, StateTypes
<1> HIDE DEF W, T
<1>4. f \in Surjection(W, T)
  BY <1>2 DEF Surjection
<1> HIDE DEF f
<1>5. IsFiniteSet(W) /\ Cardinality(W) <= Cardinality(Vars)
  BY <1>1, FS_Subset
<1>6. IsFiniteSet(T) /\ Cardinality(T) <= Cardinality(W)
  BY <1>4, <1>5, FS_Surjection
<1>7. Cardinality(T) \in Nat /\ Cardinality(W) \in Nat /\ Cardinality(Vars) \in Nat
  BY <1>1, <1>5, <1>6, FS_CardinalityType
<1>8. Cardinality(T) <= Cardinality(Vars)
  BY <1>5, <1>6, <1>7
<1> QED
  BY <1>3, <1>6, <1>7, <1>8 DEF T

LEMMA SmallMod ==
    ASSUME NEW a \in Nat, NEW m \in Nat \ {0}, a < m
    PROVE  a % m = a
OBVIOUS

\* DoSnapshot of a stream that has the frames fs: the changes are added, and the
\* header has their number and is the size of the largest.
LEMMA OpenSnapshot ==
    ASSUME StateTypes, NEW i, NEW fs, Cardinality(Vars) + Len(fs) < CountMod,
           NEW stream \in [m_data : Seq(Seq(Pieces)), m_Finished : BOOLEAN],
           ~stream.m_Finished, Opened(stream.m_data, fs),
           fs # <<>> \/ Taken(i) # {}
    PROVE  LET e == DoSnapshot(stream, i)
           IN  /\ Modified(e)
               /\ Result(e).m_data[1] \in Seq(Pieces)
               /\ ReadFrames(Result(e).m_data[1]) = {fs[k] : k \in 1 .. Len(fs)} \cup Taken(i)
               /\ fs = <<>> => Spent(Result(e))
<1> DEFINE gs == SetToSeq(Taken(i))
           c == Cardinality(Taken(i))
           d == stream.m_data
           q == fs \o gs
           all == [stream EXCEPT !.m_data = @ \o FrameStreams(gs)]
           max == Largest((IF Len(d) > 1 THEN d ELSE <<>>) \o FrameStreams(gs))
           e == DoSnapshot(stream, i)
<1>1. /\ gs \in Seq(Frames) /\ Len(gs) = c /\ {gs[k] : k \in 1 .. c} = Taken(i)
      /\ c \in Nat /\ c <= Cardinality(Vars) /\ Cardinality(Vars) \in Nat
  BY TakenFacts, SetToSeqFacts
<1>2. TakenStreams(i) = FrameStreams(gs)
  BY DEF TakenStreams, FrameStreams
<1> HIDE DEF gs
<1>3. /\ d \in Seq(Seq(Pieces)) /\ fs \in Seq(Frames) /\ Len(fs) \in Nat
      /\ Len(d) = Len(fs) + 1
  BY LenProperties DEF Opened
<1>4. Len(FrameStreams(gs)) = c
  BY <1>1, FrameStreamsFacts
<1>5. /\ q \in Seq(Frames) /\ Len(q) = Len(fs) + c
      /\ \A k \in 1 .. Len(fs) + c : q[k] = IF k <= Len(fs) THEN fs[k] ELSE gs[k - Len(fs)]
  <2>1. /\ q \in Seq(Frames) /\ Len(q) = Len(fs) + Len(gs)
        /\ \A k \in 1 .. Len(fs) + Len(gs) :
               q[k] = IF k <= Len(fs) THEN fs[k] ELSE gs[k - Len(fs)]
    BY <1>1, <1>3, ConcatProperties
  <2> HIDE DEF q, c
  <2> QED
    BY <1>1, <2>1
<1>6. Len(q) # 0
  <2>1. CASE fs # <<>>
    <3>1. Len(fs) # 0
      BY <1>3, <2>1, EmptySeq
    <3> QED
      BY <1>1, <1>3, <1>5, <3>1
  <2>2. CASE Taken(i) # {}
    <3>1. c # 0
      BY <2>2, TakenFacts, FS_EmptySet
    <3> QED
      BY <1>1, <1>3, <1>5, <3>1
  <2> QED
    BY <2>1, <2>2
<1>7. AlreadyThere(stream) + Len(FrameStreams(gs)) = Len(q)
  BY <1>1, <1>3, <1>4, <1>5 DEF AlreadyThere
<1>8. Len(q) % CountMod = Len(q)
  <2>1. Len(q) \in Nat /\ Len(q) < CountMod /\ CountMod \in Nat \ {0}
    BY <1>1, <1>3, <1>5, FramingAssumption
  <2> HIDE DEF q
  <2> QED
    BY <2>1, SmallMod
<1>9. e = Generate(all, Len(q), max)
  <2> HIDE DEF q
  <2>1. e = LET num_updates == (AlreadyThere(stream) + Len(FrameStreams(gs))) % CountMod
            IN IF num_updates = 0 THEN all ELSE Generate(all, num_updates, max)
    BY <1>2 DEF DoSnapshot
  <2> HIDE DEF e, all, max
  <2> QED
    BY <1>6, <1>7, <1>8, <2>1
<1>10. all.m_data = d \o FrameStreams(gs) /\ ~all.m_Finished
  OBVIOUS
<1>11. Opened(d \o FrameStreams(gs), q)
  BY <1>1, OpenedMore
<1>12. q # <<>>
  BY <1>5, <1>6, EmptySeq
<1>13. max \in Nat /\ \A k \in 1 .. Len(q) : FrameSize[q[k].name] <= max
  BY <1>1, <1>12, LargestOfOpened
<1>14. {q[k] : k \in 1 .. Len(q)} = {fs[k] : k \in 1 .. Len(fs)} \cup Taken(i)
  <2> HIDE DEF q, c
  <2>1. ASSUME NEW k \in 1 .. Len(q)
        PROVE  q[k] \in {fs[j] : j \in 1 .. Len(fs)} \cup {gs[j] : j \in 1 .. c}
    <3>1. CASE k <= Len(fs)
      <4>1. k \in 1 .. Len(fs) /\ q[k] = fs[k]
        BY <1>1, <1>3, <1>5, <3>1
      <4> QED
        BY <4>1
    <3>2. CASE ~(k <= Len(fs))
      <4>1. k - Len(fs) \in 1 .. c /\ q[k] = gs[k - Len(fs)]
        BY <1>1, <1>3, <1>5, <3>2
      <4> QED
        BY <4>1
    <3> QED
      BY <3>1, <3>2
  <2>2. ASSUME NEW j \in 1 .. Len(fs) PROVE fs[j] \in {q[k] : k \in 1 .. Len(q)}
    <3>1. j \in 1 .. Len(q) /\ q[j] = fs[j]
      BY <1>1, <1>3, <1>5
    <3> QED
      BY <3>1
  <2>3. ASSUME NEW j \in 1 .. c PROVE gs[j] \in {q[k] : k \in 1 .. Len(q)}
    <3>1. /\ j + Len(fs) \in 1 .. Len(fs) + c /\ ~(j + Len(fs) <= Len(fs))
          /\ j + Len(fs) - Len(fs) = j
      BY <1>1, <1>3
    <3>2. q[j + Len(fs)] = gs[j]
      BY <1>5, <3>1
    <3> QED
      BY <1>5, <3>1, <3>2
  <2> QED
    BY <1>1, <2>1, <2>2, <2>3
<1>15. fs = <<>> => Len(q) <= Cardinality(Vars)
  <2>1. Len(<<>>) = 0
    OBVIOUS
  <2> QED
    BY <1>1, <1>5, <2>1
<1> DEFINE a == all.m_data
<1>16. Opened(a, q) /\ all.m_data = a /\ ~all.m_Finished
  BY <1>10, <1>11
<1> HIDE DEF e, all, q, max, d, a
<1>17. /\ Modified(e)
       /\ Result(e).m_data[1] \in Seq(Pieces)
       /\ ReadFrames(Result(e).m_data[1]) = {q[k] : k \in 1 .. Len(q)}
       /\ Len(q) <= Cardinality(Vars) => Spent(Result(e))
  BY <1>9, <1>16, <1>12, <1>13, GenerateReadBack
<1> QED
  BY <1>14, <1>15, <1>17 DEF e
\* An instance without changes adds nothing.
LEMMA NoneTaken ==
    ASSUME NEW i, Taken(i) = {}
    PROVE  TakenStreams(i) = <<>>
<1>1. IsFiniteSet({}) /\ Cardinality({}) = 0
  BY FS_EmptySet
<1> DEFINE f == SetToSeq({})
<1>2. f \in Seq({}) /\ Len(f) = 0
  BY <1>1, SetToSeqFacts
<1> HIDE DEF f
<1>3. f = <<>>
  BY <1>2, EmptySeq
<1>4. TakenStreams(i) = [k \in DOMAIN f |-> <<FramePiece(f[k])>>]
  BY DEF TakenStreams, f
<1>5. DOMAIN f = {}
  BY <1>3
<1> DEFINE g == [k \in DOMAIN f |-> <<FramePiece(f[k])>>]
<1>6. g \in [1 .. 0 -> {}]
  BY <1>5
<1> HIDE DEF g
<1>7. g \in Seq({}) /\ Len(g) = 0
  BY <1>6, FunctionSeq
<1>8. g = <<>>
  BY <1>7, EmptySeq
<1> QED
  BY <1>4, <1>8 DEF g

LEMMA EmptySnapshot ==
    ASSUME NEW i, Taken(i) = {}
    PROVE  DoSnapshot(NewStream, i) = NewStream /\ ~Modified(NewStream)
<1> DEFINE d == << <<>> >>
<1>1. d \in Seq(Seq(Pieces)) /\ Len(d) = 1 /\ NewStream.m_data = d
  BY DEF NewStream
<1>2. Len(<<>>) = 0 /\ d \o <<>> = d
  BY <1>1, ConcatEmptySeq
<1>3. (AlreadyThere(NewStream) + Len(<<>>)) % CountMod = 0
  <2>1. AlreadyThere(NewStream) + Len(<<>>) = 0
    BY <1>1, <1>2 DEF AlreadyThere
  <2>2. 0 % CountMod = 0
    BY FramingAssumption, SmallMod
  <2> QED
    BY <2>1, <2>2
<1> DEFINE t == TakenStreams(i)
<1>4. t = <<>>
  BY NoneTaken
<1> HIDE DEF d, t
<1>5. DoSnapshot(NewStream, i) = [NewStream EXCEPT !.m_data = @ \o t]
  <2>1. (AlreadyThere(NewStream) + Len(t)) % CountMod = 0
    BY <1>3, <1>4
  <2> QED
    BY <2>1 DEF DoSnapshot, t
<1>6. NewStream.m_data \o t = NewStream.m_data
  BY <1>1, <1>2, <1>4
<1>7. [NewStream EXCEPT !.m_data = @ \o t] = NewStream
  BY <1>6 DEF NewStream
<1>8. ~Modified(NewStream)
  <2>1. Len(NewStream.m_data) = 1
    BY <1>1
  <2>2. ~(1 > 1)
    OBVIOUS
  <2> QED
    BY <2>1, <2>2 DEF Modified
<1> QED
  BY <1>5, <1>7, <1>8

\* A spent stream gets one more header, at its end: the receiver drops the packet,
\* and there was nothing in it to be taken.
LEMMA SpentSnapshot ==
    ASSUME NEW i, Taken(i) = {}, Cardinality(Vars) + 1 < CountMod, NEW stream, Spent(stream)
    PROVE  LET e == DoSnapshot(stream, i)
           IN  /\ Modified(e) /\ Result(e) = e /\ Spent(e)
               /\ e.m_data[1] \in Seq(Pieces)
               /\ ReadFrames(e.m_data[1]) = {}
<1> DEFINE d == stream.m_data
           e == DoSnapshot(stream, i)
           n == Len(d) - 1
           max == Largest(d)
           C == Cardinality(Vars)
<1>1. PICK count \in Nat, size \in Nat :
          /\ stream = [m_data |-> d, m_Finished |-> TRUE]
          /\ d \in Seq(Seq(Pieces)) /\ Len(d) \in 2 .. C + 1
          /\ d[1] # <<>> /\ d[1][1] = Header(count, size)
          /\ Size(Tail(d[1])) >= count * size
  BY DEF Spent
<1>2. C \in Nat /\ CountMod \in Nat \ {0} /\ C + 1 < CountMod
  BY FramingAssumption, FS_CardinalityType
<1> DEFINE t == TakenStreams(i)
<1>26. t = <<>>
  BY NoneTaken
<1> HIDE DEF C, t
<1>3. stream.m_Finished
  BY <1>1
<1>4. n \in Nat \ {0} /\ n < CountMod /\ Len(d) > 1 /\ Len(d) \in Nat
  <2> DEFINE m == Len(d)
  <2>1. m \in 2 .. C + 1
    BY <1>1
  <2> HIDE DEF m
  <2>2. m - 1 \in Nat \ {0} /\ m - 1 < CountMod /\ m > 1 /\ m \in Nat
    BY <1>2, <2>1
  <2> QED
    BY <2>2 DEF m
<1>5. d \o t = d /\ Len(t) = 0 /\ d # <<>>
  <2>1. d \o <<>> = d /\ Len(<<>>) = 0
    BY <1>1, ConcatEmptySeq
  <2> QED
    BY <1>1, <1>4, <1>26, <2>1, EmptySeq
<1>6. (AlreadyThere(stream) + Len(t)) % CountMod = n
  <2>1. AlreadyThere(stream) + Len(t) = n
    BY <1>4, <1>5 DEF AlreadyThere
  <2> HIDE DEF n
  <2> QED
    BY <1>2, <1>4, <2>1, SmallMod
<1>7. [stream EXCEPT !.m_data = @ \o t] = stream
  <2>1. stream.m_data \o t = stream.m_data
    BY <1>5
  <2>2. stream = [m_data |-> stream.m_data, m_Finished |-> TRUE]
    BY <1>1
  <2> HIDE DEF d
  <2> QED
    BY <2>1, <2>2
<1>8. e = Generate(stream, n, max)
  <2>1. e = LET num_updates == (AlreadyThere(stream) + Len(t)) % CountMod
                all == [stream EXCEPT !.m_data = @ \o t]
            IN IF num_updates = 0 THEN all
               ELSE Generate(all, num_updates,
                             Largest((IF Len(d) > 1 THEN d ELSE <<>>) \o t))
    BY DEF DoSnapshot, t
  <2>2. (IF Len(d) > 1 THEN d ELSE <<>>) \o t = d
    BY <1>4, <1>5
  <2>3. n # 0
    BY <1>4
  <2> HIDE DEF e, d, n
  <2> QED
    BY <1>6, <1>7, <2>1, <2>2, <2>3
<1>9. max \in Nat
  BY <1>1, <1>5, LargestFacts
<1> DEFINE h == Header(n, max)
           p == d[1]
           r == e.m_data[1]
<1>10. /\ e = [m_data |-> e.m_data, m_Finished |-> stream.m_Finished]
       /\ e.m_data \in Seq(Seq(Pieces)) /\ Len(e.m_data) = Len(d)
       /\ r = Append(p, h)
  <2> DEFINE g == Generate(stream, n, max)
  <2>1. stream.m_data \in Seq(Seq(Pieces)) /\ stream.m_data # <<>> /\ n \in Nat
    BY <1>1, <1>4, <1>5
  <2> HIDE DEF n, max
  <2>2. /\ g = [m_data |-> g.m_data, m_Finished |-> stream.m_Finished]
        /\ g.m_data \in Seq(Seq(Pieces)) /\ Len(g.m_data) = Len(stream.m_data)
        /\ g.m_data[1] = Append(stream.m_data[1], Header(n, max))
    BY <1>9, <2>1, GenerateFacts
  <2>3. e = g
    BY <1>8
  <2> HIDE DEF e, g
  <2> QED
    BY <2>2, <2>3
<1> HIDE DEF e, n, max
<1>11. h \in Pieces /\ h.size = HeaderSize /\ HeaderSize \in Nat \ {0}
  BY <1>4, <1>9, PieceFacts, FramingAssumption
<1>12. p \in Seq(Pieces)
  <2>1. 1 \in 1 .. Len(d)
    BY <1>4
  <2> QED
    BY <1>1, <2>1, ElementOfSeq
<1> HIDE DEF h
<1>13. r \in Seq(Pieces) /\ r # <<>> /\ r[1] = p[1]
  <2>1. 1 \in 1 .. Len(p)
    BY <1>1, <1>12, EmptySeq
  <2> HIDE DEF p, r
  <2> QED
    BY <1>10, <1>11, <1>12, <2>1, AppendProperties
<1>14. Tail(r) = Append(Tail(p), h) /\ Tail(p) \in Seq(Pieces)
  <2>1. p # <<>>
    BY <1>1
  <2> HIDE DEF p, r
  <2> QED
    BY <1>10, <1>12, <2>1, HeadTailAppend, HeadTailProperties
<1>15. Size(Tail(r)) = Size(Tail(p)) + HeaderSize /\ Size(Tail(p)) \in Nat
  <2> DEFINE rest == Tail(p)
  <2>1. rest \in Seq(Pieces)
    BY <1>14
  <2> HIDE DEF rest
  <2>2. Size(Append(rest, h)) = Size(rest) + h.size /\ Size(rest) \in Nat
    BY <1>11, <2>1, SizeAppend, SizeType
  <2> QED
    BY <1>11, <1>14, <2>2 DEF rest
<1>16. count * size \in Nat
  OBVIOUS
<1>17. Size(Tail(r)) >= count * size /\ Size(Tail(r)) # count * size
  BY <1>1, <1>11, <1>15, <1>16
<1>18. r[1] = Header(count, size)
  BY <1>1, <1>13
<1>19. r[1].content.count = count /\ r[1].content.max = size
  BY <1>18, PieceFacts
<1>20. ReadFrames(r) = {}
  BY <1>17, <1>19 DEF ReadFrames, WellFormed
<1>21. e = [m_data |-> e.m_data, m_Finished |-> TRUE] /\ e.m_Finished
  BY <1>1, <1>10
<1>22. Spent(e)
  <2>1. Len(e.m_data) \in 2 .. C + 1
    BY <1>1, <1>10
  <2> DEFINE a == e.m_data
  <2>2. /\ e = [m_data |-> a, m_Finished |-> TRUE] /\ a \in Seq(Seq(Pieces))
        /\ Len(a) \in 2 .. C + 1 /\ a[1] # <<>> /\ a[1][1] = Header(count, size)
        /\ Size(Tail(a[1])) >= count * size
    BY <1>10, <1>13, <1>17, <1>18, <1>21, <2>1
  <2> HIDE DEF a
  <2> QED
    BY <2>2 DEF Spent, C
<1>23. Modified(e) /\ Result(e) = e
  BY <1>4, <1>10, <1>21 DEF Modified, Result
<1> QED
  BY <1>13, <1>20, <1>22, <1>23 DEF e
\* The stream of Build and SendSingle before the header: one frame is in it.
SingleStream(name) ==
    [NewStream EXCEPT !.m_data = Append(@, <<FramePiece(Frame(name, 0))>>)]

LEMMA SingleOpened ==
    ASSUME NEW name \in ListFrames, NEW stream, stream = SingleStream(name)
    PROVE  /\ Frame(name, 0) \in Frames /\ Frame(name, 0).name = name
           /\ stream \in [m_data : Seq(Seq(Pieces)), m_Finished : BOOLEAN]
           /\ ~stream.m_Finished
           /\ Opened(stream.m_data, <<Frame(name, 0)>>)
<1> DEFINE f == Frame(name, 0)
           e == FramePiece(f)
           S == Seq(Pieces)
           d == << <<>> >>
           t == <<e>>
           a == Append(d, t)
<1>1. f \in Frames /\ f.name = name
  BY FramingAssumption DEF Frames, Frame
<1>2. e \in Pieces
  BY <1>1, PieceFacts
<1> HIDE DEF e, f
<1>3. t \in S /\ d \in Seq(S) /\ Len(d) = 1 /\ d[1] = <<>>
  BY <1>2
<1>4. NewStream = [m_data |-> d, m_Finished |-> FALSE]
  BY DEF NewStream
<1>5. SingleStream(name) = [NewStream EXCEPT !.m_data = Append(@, t)]
  BY DEF SingleStream, e, f
<1> HIDE DEF t, d, S
<1>6. a \in Seq(S) /\ Len(a) = 2 /\ a[1] = <<>> /\ a[2] = t
  <2>3. t \in S /\ d \in Seq(S)
    BY <1>3
  <2>1. /\ a \in Seq(S) /\ Len(a) = Len(d) + 1 /\ a[Len(d) + 1] = t
        /\ \A i \in 1 .. Len(d) : a[i] = d[i]
    BY <2>3, AppendProperties
  <2>2. Len(d) + 1 = 2 /\ 1 \in 1 .. Len(d)
    BY <1>3
  <2> HIDE DEF a
  <2> QED
    BY <1>3, <2>1, <2>2
<1>7. stream = [m_data |-> a, m_Finished |-> FALSE]
  BY <1>4, <1>5
<1> HIDE DEF a
<1>8. stream.m_data = a /\ ~stream.m_Finished
  BY <1>7
<1>9. stream \in [m_data : Seq(Seq(Pieces)), m_Finished : BOOLEAN]
  BY <1>6, <1>7 DEF S
<1>10. Opened(a, <<f>>)
  <2> DEFINE q == <<f>>
  <2>1. q \in Seq(Frames) /\ Len(q) = 1 /\ q[1] = f
    BY <1>1
  <2>2. 1 .. 1 = {1} /\ 1 + 1 = 2
    OBVIOUS
  <2> HIDE DEF q
  <2>3. \A k \in 1 .. Len(q) : a[k + 1] = <<FramePiece(q[k])>>
    BY <1>6, <2>1, <2>2 DEF t, e
  <2>4. Opened(a, q)
    BY <1>6, <2>1, <2>2, <2>3 DEF Opened, S
  <2> QED
    BY <2>4 DEF q
<1> QED
  BY <1>1, <1>8, <1>9, <1>10 DEF f

LEMMA SingleReadBack ==
    ASSUME NEW name \in ListFrames, NEW stream, stream = SingleStream(name)
    PROVE  LET e == Generate(stream, 1, FrameSize[name])
           IN  /\ Modified(e)
               /\ Result(e).m_data[1] \in Seq(Pieces)
               /\ ReadFrames(Result(e).m_data[1]) = {Frame(name, 0)}
<1> DEFINE f == Frame(name, 0)
           q == <<f>>
           a == stream.m_data
           max == FrameSize[name]
           e == Generate(stream, 1, max)
<1>1. f \in Frames /\ f.name = name /\ ~stream.m_Finished /\ Opened(a, q)
  BY SingleOpened
<1>2. max \in Nat /\ max <= max
  BY <1>1, FrameFacts
<1> HIDE DEF f
<1>3. q # <<>> /\ Len(q) = 1 /\ q[1] = f
  OBVIOUS
<1> HIDE DEF q
<1>4. \A k \in 1 .. Len(q) : FrameSize[q[k].name] <= max
  <2>1. \A k \in 1 .. Len(q) : k = 1
    BY <1>3
  <2> QED
    BY <1>1, <1>2, <1>3, <2>1
<1>5. {q[k] : k \in 1 .. Len(q)} = {f}
  <2>1. 1 .. Len(q) = {1}
    BY <1>3
  <2> QED
    BY <1>3, <2>1
<1>6. e = Generate(stream, Len(q), max)
  BY <1>3
<1>7. stream.m_data = a
  OBVIOUS
<1> HIDE DEF e, a, max
<1>8. /\ Modified(e)
      /\ Result(e).m_data[1] \in Seq(Pieces)
      /\ ReadFrames(Result(e).m_data[1]) = {q[k] : k \in 1 .. Len(q)}
  <2>1. Opened(a, q) /\ q # <<>> /\ stream.m_data = a /\ ~stream.m_Finished
    BY <1>1, <1>3, <1>7
  <2> QED
    BY <1>2, <1>4, <1>6, <2>1, GenerateReadBack
<1> QED
  BY <1>5, <1>8 DEF e, f, max

LEMMA BuildReadBack ==
    ASSUME StateTypes, NEW i, Cardinality(Vars) + 1 < CountMod,
           NEW name \in ListFrames, NEW stream, stream = SingleStream(name)
    PROVE  LET e == DoSnapshot(stream, i)
           IN  /\ Modified(e)
               /\ Result(e).m_data[1] \in Seq(Pieces)
               /\ ReadFrames(Result(e).m_data[1]) = {Frame(name, 0)} \cup Taken(i)
<1> DEFINE f == Frame(name, 0)
           q == <<f>>
           e == DoSnapshot(stream, i)
<1>1. /\ stream \in [m_data : Seq(Seq(Pieces)), m_Finished : BOOLEAN]
      /\ ~stream.m_Finished /\ Opened(stream.m_data, q)
  BY SingleOpened
<1> HIDE DEF f
<1>2. q # <<>> /\ Len(q) = 1 /\ q[1] = f
  OBVIOUS
<1> HIDE DEF q
<1>3. Cardinality(Vars) + Len(q) < CountMod
  BY <1>2
<1>4. {q[k] : k \in 1 .. Len(q)} = {f}
  <2>1. 1 .. Len(q) = {1}
    BY <1>2
  <2> QED
    BY <1>2, <2>1
<1>5. /\ Modified(e)
      /\ Result(e).m_data[1] \in Seq(Pieces)
      /\ ReadFrames(Result(e).m_data[1]) = {q[k] : k \in 1 .. Len(q)} \cup Taken(i)
  BY <1>1, <1>2, <1>3, OpenSnapshot
<1> HIDE DEF e
<1> QED
  BY <1>4, <1>5 DEF e, f

LEMMA UpdateReadBack ==
    ASSUME StateTypes, NEW i, Cardinality(Vars) + 1 < CountMod, Taken(i) # {}
    PROVE  LET e == DoSnapshot(NewStream, i)
           IN  /\ Modified(e)
               /\ Result(e).m_data[1] \in Seq(Pieces)
               /\ ReadFrames(Result(e).m_data[1]) = Taken(i)
               /\ Spent(Result(e))
<1> DEFINE q == <<>>
           d == << <<>> >>
           e == DoSnapshot(NewStream, i)
<1>1. NewStream = [m_data |-> d, m_Finished |-> FALSE]
  BY DEF NewStream
<1>2. d \in Seq(Seq(Pieces)) /\ Len(d) = 1 /\ d[1] = <<>>
  OBVIOUS
<1>3. q \in Seq(Frames) /\ Len(q) = 0 /\ q = <<>>
  OBVIOUS
<1> HIDE DEF d, q
<1>4. Opened(d, q)
  BY <1>2, <1>3 DEF Opened
<1>5. /\ NewStream \in [m_data : Seq(Seq(Pieces)), m_Finished : BOOLEAN]
      /\ ~NewStream.m_Finished /\ NewStream.m_data = d
  BY <1>1, <1>2
<1>6. Cardinality(Vars) + Len(q) < CountMod
  <2>1. Cardinality(Vars) \in Nat /\ CountMod \in Nat
    BY FramingAssumption, FS_CardinalityType
  <2> QED
    BY <1>3, <2>1
<1>7. {q[k] : k \in 1 .. Len(q)} = {}
  BY <1>3
<1>8. Opened(NewStream.m_data, q)
  BY <1>4, <1>5
<1>9. /\ Modified(e)
      /\ Result(e).m_data[1] \in Seq(Pieces)
      /\ ReadFrames(Result(e).m_data[1]) = {q[k] : k \in 1 .. Len(q)} \cup Taken(i)
      /\ q = <<>> => Spent(Result(e))
  BY <1>5, <1>6, <1>8, OpenSnapshot
<1> HIDE DEF e
<1> QED
  BY <1>3, <1>7, <1>9 DEF e
-----------------------------------------------------------------------------
(* The inductive invariant.                                                 *)

OneEach(frames) == \A f, g \in frames : f.name = g.name => f = g

Packets == [packet : Seq(Pieces), frames : SUBSET Frames]

\* A packet in flight: read back, with at most one frame for a name.
InFlight(p) ==
    /\ p \in Packets /\ ReadFrames(p.packet) = p.frames /\ OneEach(p.frames)

NoFrameOf(v, frames) == \A f \in frames : f.name # v

\* The stream of the loop is new, or spent and no variable is in an instance that
\* is still to come.
TickInv ==
    /\ tick.next \in 1 .. Instances
    /\ \/ tick.stream = NewStream
       \/ Spent(tick.stream) /\ \A v \in Vars : InstanceOf[v] < tick.next

WireInv ==
    /\ wire \in Seq(Packets)
    /\ \A k \in 1 .. Len(wire) : InFlight(wire[k])

\* The last version of a variable is flagged, or received with nothing of the
\* variable in flight, or the last of the variable in flight.
Latest(v) ==
    \/ v \in pending
    \/ got[v] = version[v] /\ \A k \in 1 .. Len(wire) : NoFrameOf(v, wire[k].frames)
    \/ \E k \in 1 .. Len(wire) :
           /\ Frame(v, version[v]) \in wire[k].frames
           /\ \A j \in k + 1 .. Len(wire) : NoFrameOf(v, wire[j].frames)

PacketInv ==
    /\ StateTypes
    /\ got \in [Vars -> 0 .. MaxVersion]
    /\ TickInv /\ WireInv
    /\ \A v \in Vars : Latest(v)

LEMMA PacketInit == Init => PacketInv
<1> SUFFICES ASSUME Init PROVE PacketInv
  OBVIOUS
<1>1. StateTypes /\ got \in [Vars -> 0 .. MaxVersion]
  BY FramingAssumption DEF Init, StateTypes
<1>2. TickInv
  BY FramingAssumption DEF Init, NoTick, TickInv
<1>3. wire \in Seq(Packets) /\ Len(wire) = 0
  BY DEF Init
<1>4. WireInv
  BY <1>3 DEF WireInv
<1>5. \A v \in Vars : Latest(v)
  BY <1>3 DEF Latest, Init
<1> QED
  BY <1>1, <1>2, <1>4, <1>5 DEF PacketInv

LEMMA FrameNames ==
    ASSUME StateTypes, NEW i
    PROVE  /\ OneEach(Taken(i))
           /\ \A v \in Vars : v \in pending /\ InstanceOf[v] = i
                                  => Frame(v, version[v]) \in Taken(i)
           /\ \A v \in Vars : ~(v \in pending /\ InstanceOf[v] = i) => NoFrameOf(v, Taken(i))
           /\ \A f \in Taken(i) : f.name \in Vars
<1>1. \A f \in Taken(i) : \E v \in pending : InstanceOf[v] = i /\ f = Frame(v, version[v])
  BY DEF Taken
<1>2. \A v \in pending : InstanceOf[v] = i => Frame(v, version[v]) \in Taken(i)
  BY DEF Taken
<1>3. \A f \in Taken(i) : /\ f.name \in pending /\ InstanceOf[f.name] = i
                          /\ f = Frame(f.name, version[f.name])
  BY <1>1 DEF Frame
<1>4. OneEach(Taken(i))
  BY <1>3 DEF OneEach
<1>5. \A f \in Taken(i) : f.name \in Vars
  BY <1>3 DEF StateTypes
<1> QED
  BY <1>2, <1>3, <1>4, <1>5 DEF NoFrameOf

\* A packet is sent: every variable that lost its flag is in it, and no variable
\* without one.
LEMMA SentKeeps ==
    ASSUME PacketInv, NEW p, InFlight(p), wire' = Append(wire, p),
           version' = version, got' = got, pending' \in SUBSET pending,
           \A v \in pending : v \in pending' \/ Frame(v, version[v]) \in p.frames,
           \A v \in Vars \ pending : NoFrameOf(v, p.frames)
    PROVE  /\ StateTypes' /\ (got \in [Vars -> 0 .. MaxVersion])'
           /\ WireInv' /\ (\A v \in Vars : Latest(v))'
<1>1. StateTypes' /\ (got \in [Vars -> 0 .. MaxVersion])'
  BY DEF PacketInv, StateTypes
<1> DEFINE n == Len(wire)
           w == Append(wire, p)
<1>2. wire \in Seq(Packets) /\ p \in Packets /\ n \in Nat /\ \A k \in 1 .. n : InFlight(wire[k])
  BY LenProperties DEF PacketInv, WireInv, InFlight
<1>3. w \in Seq(Packets) /\ Len(w) = n + 1 /\ w[n + 1] = p /\ \A k \in 1 .. n : w[k] = wire[k]
  BY <1>2, AppendProperties
<1>4. wire' = w
  OBVIOUS
<1> HIDE DEF w, n
<1>5. WireInv'
  <2>1. ASSUME NEW k \in 1 .. n + 1 PROVE InFlight(w[k])
    <3>1. CASE k = n + 1
      BY <1>3, <3>1
    <3>2. CASE k # n + 1
      <4>1. k \in 1 .. n
        BY <1>2, <3>2
      <4> QED
        BY <1>2, <1>3, <4>1
    <3> QED
      BY <3>1, <3>2
  <2>2. wire' \in Seq(Packets) /\ \A k \in 1 .. Len(wire') : InFlight(wire'[k])
    BY <1>3, <1>4, <2>1
  <2> QED
    BY <2>2 DEF WireInv, InFlight, ReadFrames, WellFormed
<1>6. ASSUME NEW v \in Vars PROVE Latest(v)'
  <2>1. CASE v \in pending'
    BY <2>1 DEF Latest
  <2>2. CASE v \in pending /\ v \notin pending'
    <3>1. Frame(v, version'[v]) \in wire'[n + 1].frames /\ Len(wire') = n + 1
      BY <1>3, <1>4, <2>2
    <3>2. n + 1 \in 1 .. n + 1 /\ n + 1 + 1 .. n + 1 = {}
      BY <1>2
    <3> QED
      BY <3>1, <3>2 DEF Latest
  <2>3. CASE v \notin pending
    <3>1. NoFrameOf(v, p.frames)
      BY <2>3
    <3>2. CASE got[v] = version[v] /\ \A k \in 1 .. n : NoFrameOf(v, wire[k].frames)
      <4>1. \A k \in 1 .. n + 1 : k \in 1 .. n \/ k = n + 1
        BY <1>2
      <4>2. \A k \in 1 .. n + 1 : NoFrameOf(v, w[k].frames)
        BY <1>3, <3>1, <3>2, <4>1
      <4>3. got'[v] = version'[v] /\ \A k \in 1 .. Len(wire') : NoFrameOf(v, wire'[k].frames)
        BY <1>3, <1>4, <3>2, <4>2
      <4> QED
        BY <4>3 DEF Latest, NoFrameOf
    <3>3. CASE \E k \in 1 .. n : /\ Frame(v, version[v]) \in wire[k].frames
                                 /\ \A j \in k + 1 .. n : NoFrameOf(v, wire[j].frames)
      <4>1. PICK k \in 1 .. n : /\ Frame(v, version[v]) \in wire[k].frames
                                /\ \A j \in k + 1 .. n : NoFrameOf(v, wire[j].frames)
        BY <3>3
      <4>2. k \in 1 .. n + 1 /\ \A j \in k + 1 .. n + 1 : (j \in k + 1 .. n /\ j \in 1 .. n) \/ j = n + 1
        BY <1>2
      <4>3. Frame(v, version'[v]) \in w[k].frames
        BY <1>3, <4>1
      <4>4. \A j \in k + 1 .. n + 1 : NoFrameOf(v, w[j].frames)
        BY <1>3, <3>1, <4>1, <4>2
      <4>5. \E m \in 1 .. Len(wire') : /\ Frame(v, version'[v]) \in wire'[m].frames
                                       /\ \A j \in m + 1 .. Len(wire') : NoFrameOf(v, wire'[j].frames)
        BY <1>3, <1>4, <4>2, <4>3, <4>4
      <4> QED
        BY <4>5 DEF Latest, NoFrameOf, Frame
    <3> QED
      BY <2>3, <3>2, <3>3 DEF PacketInv, Latest, n
  <2> QED
    BY <2>1, <2>2, <2>3
<1> QED
  BY <1>1, <1>5, <1>6
\* When packets can be read back: the number of frames of a packet (an Alloc frame and
\* one per variable) fits in num_updates, and the variables are in one instance.
Supported ==
    /\ Cardinality(Vars) + 1 < CountMod
    /\ \A v, w \in Vars : InstanceOf[v] = InstanceOf[w]

LEMMA PacketInFlight ==
    ASSUME NEW packet \in Seq(Pieces), NEW frames \in SUBSET Frames,
           ReadFrames(packet) = frames, OneEach(frames)
    PROVE  InFlight([packet |-> packet, frames |-> frames])
BY DEF InFlight, Packets

LEMMA SetKeeps ==
    ASSUME PacketInv, NEW u \in Vars, Set(u)
    PROVE  PacketInv'
<1>1. StateTypes' /\ (got \in [Vars -> 0 .. MaxVersion])'
  BY FramingAssumption DEF PacketInv, StateTypes, Set
<1>2. TickInv'
  BY DEF PacketInv, TickInv, Set
<1>3. WireInv'
  BY DEF PacketInv, WireInv, Set
<1>4. ASSUME NEW v \in Vars PROVE Latest(v)'
  <2>1. CASE v = u
    BY <2>1 DEF Set, Latest
  <2>2. CASE v # u
    <3>1. version'[v] = version[v]
      BY <2>2 DEF Set, PacketInv, StateTypes
    <3>2. wire' = wire /\ got' = got /\ (v \in pending => v \in pending')
      BY DEF Set
    <3>3. Latest(v)
      BY DEF PacketInv
    <3> QED
      BY <3>1, <3>2, <3>3 DEF Latest
  <2> QED
    BY <2>1, <2>2
<1> QED
  BY <1>1, <1>2, <1>3, <1>4 DEF PacketInv

\* What a packet with the changes of an instance, and maybe another frame, does to
\* the flags.
LEMMA TakenPending ==
    ASSUME PacketInv, NEW i, pending' = {v \in pending : InstanceOf[v] # i},
           NEW frames, Taken(i) \subseteq frames,
           \A f \in frames : f \in Taken(i) \/ f.name \notin Vars
    PROVE  /\ pending' \in SUBSET pending
           /\ \A v \in pending : v \in pending' \/ Frame(v, version[v]) \in frames
           /\ \A v \in Vars \ pending : NoFrameOf(v, frames)
<1>1. StateTypes
  BY DEF PacketInv
<1>2. ASSUME NEW v \in pending PROVE v \in pending' \/ Frame(v, version[v]) \in frames
  <2>1. v \in Vars
    BY <1>1 DEF StateTypes
  <2>2. InstanceOf[v] = i => Frame(v, version[v]) \in Taken(i)
    BY <1>1, <2>1, FrameNames
  <2> QED
    BY <2>2
<1>3. ASSUME NEW v \in Vars \ pending PROVE NoFrameOf(v, frames)
  <2>1. NoFrameOf(v, Taken(i))
    BY <1>1, FrameNames
  <2> QED
    BY <2>1 DEF NoFrameOf
<1> QED
  BY <1>2, <1>3

LEMMA BuildKeeps ==
    ASSUME Supported, PacketInv, NEW i, NEW name \in ListFrames, Build(i, name)
    PROVE  PacketInv'
<1> DEFINE e == DoSnapshot(SingleStream(name), i)
           packet == Result(e).m_data[1]
           frames == {Frame(name, 0)} \cup Taken(i)
           p == [packet |-> packet, frames |-> frames]
<1>1. StateTypes
  BY DEF PacketInv
<1>2. Modified(e) /\ packet \in Seq(Pieces) /\ ReadFrames(packet) = frames
  BY <1>1, BuildReadBack DEF Supported
<1>3. Frame(name, 0) \in Frames /\ Frame(name, 0).name = name /\ name \notin Vars
  BY SingleOpened, FramingAssumption
<1>4. frames \in SUBSET Frames
  BY <1>1, <1>3, TakenFacts
<1>5. OneEach(frames)
  BY <1>1, <1>3, FrameNames DEF OneEach
<1>6. /\ wire' = IF Modified(e) THEN Append(wire, p) ELSE wire
      /\ pending' = {v \in pending : InstanceOf[v] # i}
      /\ version' = version /\ tick' = tick /\ got' = got
  BY DEF Build, Transmit, SingleStream
<1>7. \A f \in frames : f \in Taken(i) \/ f.name \notin Vars
  BY <1>3
<1>8. Taken(i) \subseteq frames
  OBVIOUS
<1> HIDE DEF e, packet, frames
<1>9. InFlight(p) /\ p.frames = frames
  BY <1>2, <1>4, <1>5, PacketInFlight
<1>10. wire' = Append(wire, p)
  BY <1>2, <1>6
<1> HIDE DEF p
<1>11. /\ pending' \in SUBSET pending
       /\ \A v \in pending : v \in pending' \/ Frame(v, version[v]) \in frames
       /\ \A v \in Vars \ pending : NoFrameOf(v, frames)
  BY <1>6, <1>7, <1>8, TakenPending
<1>12. /\ StateTypes' /\ (got \in [Vars -> 0 .. MaxVersion])'
       /\ WireInv' /\ (\A v \in Vars : Latest(v))'
  BY <1>6, <1>9, <1>10, <1>11, SentKeeps
<1>13. TickInv'
  BY <1>6 DEF PacketInv, TickInv
<1> QED
  BY <1>12, <1>13 DEF PacketInv

LEMMA SendSingleKeeps ==
    ASSUME PacketInv, NEW name \in ListFrames, SendSingle(name)
    PROVE  PacketInv'
<1> DEFINE e == Generate(SingleStream(name), 1, FrameSize[name])
           packet == Result(e).m_data[1]
           frames == {Frame(name, 0)}
           p == [packet |-> packet, frames |-> frames]
<1>1. Modified(e) /\ packet \in Seq(Pieces) /\ ReadFrames(packet) = frames
  BY SingleReadBack
<1>2. Frame(name, 0) \in Frames /\ Frame(name, 0).name = name /\ name \notin Vars
  BY SingleOpened, FramingAssumption
<1>3. frames \in SUBSET Frames /\ OneEach(frames) /\ \A v \in Vars : NoFrameOf(v, frames)
  BY <1>2 DEF OneEach, NoFrameOf
<1>4. /\ wire' = IF Modified(e) THEN Append(wire, p) ELSE wire
      /\ pending' = pending /\ version' = version /\ tick' = tick /\ got' = got
  BY DEF SendSingle, Transmit, SingleStream
<1> HIDE DEF e, packet, frames
<1>5. InFlight(p) /\ p.frames = frames
  BY <1>1, <1>3, PacketInFlight
<1>6. wire' = Append(wire, p)
  BY <1>1, <1>4
<1> HIDE DEF p
<1>7. /\ pending' \in SUBSET pending
      /\ \A v \in pending : v \in pending'
      /\ \A v \in Vars \ pending : NoFrameOf(v, frames)
  BY <1>3, <1>4
<1>8. /\ StateTypes' /\ (got \in [Vars -> 0 .. MaxVersion])'
      /\ WireInv' /\ (\A v \in Vars : Latest(v))'
  BY <1>4, <1>5, <1>6, <1>7, SentKeeps
<1>9. TickInv'
  BY <1>4 DEF PacketInv, TickInv
<1> QED
  BY <1>8, <1>9 DEF PacketInv
\* The next instance after the one whose packet was sent, if there is one.
LEMMA NextTick ==
    ASSUME NEW i \in 1 .. Instances, NEW s,
           tick' = IF i = Instances THEN NoTick ELSE [next |-> i + 1, stream |-> s],
           s = NewStream \/ (Spent(s) /\ \A v \in Vars : InstanceOf[v] <= i)
    PROVE  TickInv'
<1>1. Instances \in Nat \ {0} /\ \A v \in Vars : InstanceOf[v] \in 1 .. Instances
  BY FramingAssumption
<1>2. CASE i = Instances
  <2>1. tick'.next = 1 /\ tick'.stream = NewStream
    BY <1>2 DEF NoTick
  <2> QED
    BY <1>1, <2>1 DEF TickInv
<1>3. CASE i # Instances
  <2>1. tick'.next = i + 1 /\ tick'.stream = s
    BY <1>3
  <2>2. i + 1 \in 1 .. Instances /\ \A v \in Vars : InstanceOf[v] <= i => InstanceOf[v] < i + 1
    BY <1>1, <1>3
  <2>3. tick'.next \in 1 .. Instances
    BY <2>1, <2>2
  <2>4. \/ tick'.stream = NewStream
        \/ Spent(tick'.stream) /\ \A v \in Vars : InstanceOf[v] < tick'.next
    BY <2>1, <2>2
  <2> QED
    BY <2>3, <2>4 DEF TickInv
<1> QED
  BY <1>2, <1>3

LEMMA SnapshotUpdateKeeps ==
    ASSUME Supported, PacketInv, SnapshotUpdate
    PROVE  PacketInv'
<1> DEFINE i == tick.next
           e == DoSnapshot(tick.stream, i)
           packet == Result(e).m_data[1]
           p == [packet |-> packet, frames |-> Taken(i)]
           s == IF Modified(e) THEN Result(e) ELSE e
<1>1. StateTypes /\ i \in 1 .. Instances /\ \A v \in Vars : InstanceOf[v] \in 1 .. Instances
  BY FramingAssumption DEF PacketInv, TickInv
<1>2. /\ wire' = IF Modified(e) THEN Append(wire, p) ELSE wire
      /\ tick' = IF i = Instances THEN NoTick ELSE [next |-> i + 1, stream |-> s]
      /\ pending' = {v \in pending : InstanceOf[v] # i}
      /\ version' = version /\ got' = got
  BY DEF SnapshotUpdate, Transmit
<1>3. Taken(i) \in SUBSET Frames /\ OneEach(Taken(i)) /\ \A f \in Taken(i) : f \in Taken(i)
  BY <1>1, TakenFacts, FrameNames
<1>4. /\ pending' \in SUBSET pending
      /\ \A v \in pending : v \in pending' \/ Frame(v, version[v]) \in Taken(i)
      /\ \A v \in Vars \ pending : NoFrameOf(v, Taken(i))
  BY <1>2, <1>3, TakenPending
<1>5. ASSUME Modified(e), packet \in Seq(Pieces), ReadFrames(packet) = Taken(i)
      PROVE  /\ StateTypes' /\ (got \in [Vars -> 0 .. MaxVersion])'
             /\ WireInv' /\ (\A v \in Vars : Latest(v))'
  <2>1. wire' = Append(wire, p)
    BY <1>2, <1>5
  <2> HIDE DEF packet, e, i
  <2>2. InFlight(p) /\ p.frames = Taken(i)
    BY <1>3, <1>5, PacketInFlight
  <2> HIDE DEF p
  <2> QED
    BY <1>2, <1>4, <2>1, <2>2, SentKeeps
<1>6. CASE tick.stream = NewStream /\ Taken(i) = {}
  <2>1. e = NewStream /\ ~Modified(e)
    BY <1>6, EmptySnapshot
  <2>2. s = NewStream
    BY <2>1
  <2>3. TickInv'
    <3> HIDE DEF i, s
    <3> QED
      BY <1>1, <1>2, <2>2, NextTick
  <2>4. wire' = wire
    BY <1>2, <2>1
  <2>5. pending' = pending
    <3>1. \A v \in pending : Frame(v, version[v]) \notin Taken(i)
      BY <1>6
    <3> QED
      BY <1>4, <3>1
  <2>6. StateTypes' /\ (got \in [Vars -> 0 .. MaxVersion])'
    BY <1>2, <2>5 DEF PacketInv, StateTypes
  <2>7. WireInv'
    BY <2>4 DEF PacketInv, WireInv
  <2>8. \A v \in Vars : Latest(v)'
    BY <1>2, <2>4, <2>5 DEF PacketInv, Latest
  <2> QED
    BY <2>3, <2>6, <2>7, <2>8 DEF PacketInv
<1>7. CASE tick.stream = NewStream /\ Taken(i) # {}
  <2>1. Modified(e) /\ packet \in Seq(Pieces) /\ ReadFrames(packet) = Taken(i) /\ Spent(Result(e))
    BY <1>1, <1>7, UpdateReadBack DEF Supported
  <2>2. \A v \in Vars : InstanceOf[v] <= i
    <3>1. PICK f \in Taken(i) : TRUE
      BY <1>7
    <3>2. PICK w \in pending : InstanceOf[w] = i
      BY <3>1 DEF Taken
    <3>3. \A v \in Vars : InstanceOf[v] = i
      BY <1>1, <3>2 DEF Supported, StateTypes
    <3> QED
      BY <1>1, <3>3
  <2>3. s = Result(e)
    BY <2>1
  <2>4. TickInv'
    <3>1. Spent(s)
      BY <2>1, <2>3
    <3> HIDE DEF i, s
    <3> QED
      BY <1>1, <1>2, <2>2, <3>1, NextTick
  <2> QED
    BY <1>5, <2>1, <2>4 DEF PacketInv
<1>8. CASE Spent(tick.stream) /\ \A v \in Vars : InstanceOf[v] < i
  <2>1. \A v \in Vars : InstanceOf[v] # i /\ InstanceOf[v] <= i
    BY <1>1, <1>8
  <2>2. Taken(i) = {}
    BY <1>1, <2>1 DEF Taken, StateTypes
  <2>3. /\ Modified(e) /\ Result(e) = e /\ Spent(e)
        /\ e.m_data[1] \in Seq(Pieces) /\ ReadFrames(e.m_data[1]) = {}
    BY <1>8, <2>2, SpentSnapshot DEF Supported
  <2>4. packet \in Seq(Pieces) /\ ReadFrames(packet) = Taken(i)
    BY <2>2, <2>3
  <2>5. TickInv'
    <3>1. Spent(s)
      BY <2>3
    <3> HIDE DEF i, s
    <3> QED
      BY <1>1, <1>2, <2>1, <3>1, NextTick
  <2> QED
    BY <1>5, <2>3, <2>4, <2>5 DEF PacketInv
<1> QED
  BY <1>6, <1>7, <1>8 DEF PacketInv, TickInv

LEMMA ReceiveKeeps ==
    ASSUME PacketInv, Receive
    PROVE  PacketInv'
<1> DEFINE n == Len(wire)
           p == wire[1]
           F == p.frames
           t == Tail(wire)
<1>1. /\ wire \in Seq(Packets) /\ wire # <<>>
      /\ version' = version /\ pending' = pending /\ tick' = tick /\ wire' = t
  BY DEF PacketInv, WireInv, Receive
<1>2. n \in Nat \ {0} /\ \A k \in 1 .. n : InFlight(wire[k])
  BY <1>1, EmptySeq DEF PacketInv, WireInv
<1>3. t \in Seq(Packets) /\ Len(t) = n - 1 /\ \A k \in 1 .. n - 1 : t[k] = wire[k + 1]
  BY <1>1, HeadTailProperties
<1>4. Head(wire) = p
  BY <1>1
<1>5. InFlight(p)
  <2>1. 1 \in 1 .. n
    BY <1>2
  <2> QED
    BY <1>2, <2>1
<1>6. ReadFrames(p.packet) = F /\ F \in SUBSET Frames /\ OneEach(F)
  BY <1>5 DEF InFlight, Packets
<1>7. got' = [v \in Vars |-> IF \E f \in F : f.name = v
                             THEN (CHOOSE f \in F : f.name = v).version ELSE got[v]]
  BY <1>4, <1>6 DEF Receive
<1> HIDE DEF n, F, t, p
<1>8. ASSUME NEW v \in Vars PROVE got'[v] \in 0 .. MaxVersion
  <2>1. CASE \E f \in F : f.name = v
    <3>1. (CHOOSE f \in F : f.name = v) \in F
      BY <2>1
    <3>2. (CHOOSE f \in F : f.name = v).version \in 0 .. MaxVersion
      BY <1>6, <3>1, FrameFacts
    <3> QED
      BY <1>7, <2>1, <3>2
  <2>2. CASE ~\E f \in F : f.name = v
    BY <1>7, <2>2 DEF PacketInv
  <2> QED
    BY <2>1, <2>2
<1>9. StateTypes' /\ (got \in [Vars -> 0 .. MaxVersion])'
  BY <1>1, <1>7, <1>8 DEF PacketInv, StateTypes
<1>10. TickInv'
  BY <1>1 DEF PacketInv, TickInv
<1>11. WireInv'
  <2>1. ASSUME NEW k \in 1 .. n - 1 PROVE InFlight(t[k])
    <3>1. k + 1 \in 1 .. n
      BY <1>2
    <3> QED
      BY <1>2, <1>3, <3>1
  <2>2. wire' \in Seq(Packets) /\ \A k \in 1 .. Len(wire') : InFlight(wire'[k])
    BY <1>1, <1>3, <2>1
  <2> QED
    BY <2>2 DEF WireInv, InFlight
<1>12. ASSUME NEW v \in Vars PROVE Latest(v)'
  <2>1. CASE v \in pending
    BY <1>1, <2>1 DEF Latest
  <2>2. CASE got[v] = version[v] /\ \A k \in 1 .. n : NoFrameOf(v, wire[k].frames)
    <3>1. 1 \in 1 .. n /\ \A k \in 1 .. n - 1 : k + 1 \in 1 .. n
      BY <1>2
    <3>2. NoFrameOf(v, F)
      BY <2>2, <3>1 DEF F, p
    <3>3. got'[v] = got[v]
      BY <1>7, <3>2 DEF NoFrameOf
    <3>4. \A k \in 1 .. n - 1 : NoFrameOf(v, t[k].frames)
      BY <1>3, <2>2, <3>1
    <3>5. got'[v] = version'[v] /\ \A k \in 1 .. Len(wire') : NoFrameOf(v, wire'[k].frames)
      BY <1>1, <1>3, <2>2, <3>3, <3>4
    <3> QED
      BY <3>5 DEF Latest
  <2>3. ASSUME NEW k \in 1 .. n, Frame(v, version[v]) \in wire[k].frames,
               \A j \in k + 1 .. n : NoFrameOf(v, wire[j].frames)
        PROVE  Latest(v)'
    <3>1. CASE k = 1
      <4>1. Frame(v, version[v]) \in F
        BY <2>3, <3>1 DEF F, p
      <4>2. Frame(v, version[v]).name = v /\ Frame(v, version[v]).version = version[v]
        BY DEF Frame
      <4>3. (CHOOSE f \in F : f.name = v) \in F /\ (CHOOSE f \in F : f.name = v).name = v
        BY <4>1, <4>2
      <4>4. (CHOOSE f \in F : f.name = v) = Frame(v, version[v])
        BY <1>6, <4>1, <4>2, <4>3 DEF OneEach
      <4>5. got'[v] = version[v]
        BY <1>7, <4>1, <4>2, <4>4
      <4>6. \A j \in 1 .. n - 1 : j + 1 \in k + 1 .. n
        BY <1>2, <3>1
      <4>7. \A j \in 1 .. n - 1 : NoFrameOf(v, t[j].frames)
        BY <1>3, <2>3, <4>6
      <4>8. got'[v] = version'[v] /\ \A j \in 1 .. Len(wire') : NoFrameOf(v, wire'[j].frames)
        BY <1>1, <1>3, <4>5, <4>7
      <4> QED
        BY <4>8 DEF Latest
    <3>2. CASE k # 1
      <4>1. k - 1 \in 1 .. n - 1 /\ k - 1 + 1 = k
        BY <1>2, <3>2
      <4>2. \A j \in k - 1 + 1 .. n - 1 : j \in 1 .. n - 1 /\ j + 1 \in k + 1 .. n
        BY <1>2, <3>2
      <4>3. Frame(v, version'[v]) \in t[k - 1].frames
        BY <1>1, <1>3, <2>3, <4>1
      <4>4. \A j \in k - 1 + 1 .. n - 1 : NoFrameOf(v, t[j].frames)
        BY <1>3, <2>3, <4>2
      <4>5. \E m \in 1 .. Len(wire') : /\ Frame(v, version'[v]) \in wire'[m].frames
                                       /\ \A j \in m + 1 .. Len(wire') : NoFrameOf(v, wire'[j].frames)
        BY <1>1, <1>3, <4>1, <4>3, <4>4
      <4> QED
        BY <4>5 DEF Latest
    <3> QED
      BY <3>1, <3>2
  <2> QED
    BY <2>1, <2>2, <2>3 DEF PacketInv, Latest, n
<1> QED
  BY <1>9, <1>10, <1>11, <1>12 DEF PacketInv

LEMMA PacketStep ==
    ASSUME Supported, PacketInv, [Next]_vars
    PROVE  PacketInv'
<1>1. CASE \E v \in Vars : Set(v)
  BY <1>1, SetKeeps
<1>2. CASE SnapshotUpdate
  BY <1>2, SnapshotUpdateKeeps
<1>3. CASE \E i \in 1 .. Instances, name \in ListFrames : Build(i, name)
  BY <1>3, BuildKeeps
<1>4. CASE \E name \in ListFrames : SendSingle(name)
  BY <1>4, SendSingleKeeps
<1>5. CASE Receive
  BY <1>5, ReceiveKeeps
<1>6. CASE UNCHANGED vars
  <2>1. /\ version' = version /\ pending' = pending /\ tick' = tick /\ wire' = wire
        /\ got' = got
    BY <1>6 DEF vars
  <2>2. StateTypes' /\ (got \in [Vars -> 0 .. MaxVersion])'
    BY <2>1 DEF PacketInv, StateTypes
  <2>3. TickInv'
    BY <2>1 DEF PacketInv, TickInv
  <2>4. WireInv'
    BY <2>1 DEF PacketInv, WireInv
  <2>5. \A v \in Vars : Latest(v)'
    BY <2>1 DEF PacketInv, Latest
  <2> QED
    BY <2>2, <2>3, <2>4, <2>5 DEF PacketInv
<1> QED
  BY <1>1, <1>2, <1>3, <1>4, <1>5, <1>6 DEF Next

\* The receiver takes from every packet that is in flight exactly the frames which
\* Build, FreeEntity, SendObjectLists or SnapshotUpdate put in it, whatever the names
\* are and however many variables have changed: the count and the padding of
\* SnapshotHeader agree with the size check and the cutting of HandleEntSnapshot.
THEOREM ReadBackCorrect ==
    ASSUME Supported
    PROVE  Spec => []PacketsReadBack
<1>1. PacketInv => PacketsReadBack
  BY DEF PacketInv, WireInv, InFlight, PacketsReadBack
<1>2. PacketInv /\ [Next]_vars => PacketInv'
  BY PacketStep
<1> QED
  BY PacketInit, <1>1, <1>2, PTL DEF Spec

\* The last change of every variable is flagged, received, or in a packet that the
\* receiver will understand, although TakeVariableSnapshot clears the flag before the
\* packet is made.
THEOREM NothingLostCorrect ==
    ASSUME Supported
    PROVE  Spec => []NothingLost
<1>1. PacketInv => NothingLost
  <2> SUFFICES ASSUME PacketInv, NEW v \in Vars
               PROVE  \/ got[v] = version[v] \/ v \in pending
                      \/ \E k \in 1 .. Len(wire) :
                             Frame(v, version[v]) \in ReadFrames(wire[k].packet)
    BY DEF NothingLost
  <2>1. Latest(v) /\ \A k \in 1 .. Len(wire) : ReadFrames(wire[k].packet) = wire[k].frames
    BY DEF PacketInv, WireInv, InFlight
  <2> QED
    BY <2>1 DEF Latest
<1>2. PacketInv /\ [Next]_vars => PacketInv'
  BY PacketStep
<1> QED
  BY PacketInit, <1>1, <1>2, PTL DEF Spec
=============================================================================
