--------------------------- MODULE VarListProofs ---------------------------
(***************************************************************************)
(* Theorems of VarList: the owner hears no echo, the first peer follows    *)
(* the server, and the server follows the owner.                           *)
(***************************************************************************)
EXTENDS VarList, FiniteSetTheorems, InductionLemmas, TLAPS

Packets == {op \in [type : {"add", "update", "remove"}, key : Keys,
                    value : Values \cup {Absent}] :
                (op.type = "remove") = (op.value = Absent)}
Data == [Keys -> Values \cup {Absent}]

-----------------------------------------------------------------------------
(* Replay.                                                                  *)

\* The first n steps of Replay.
IsReplay(f, data, ops, n) ==
    f = [i \in 0 .. n |-> IF i = 0 THEN data ELSE Applied(f[i - 1], ops[i])]

\* The recursion of Replay has a solution of every length.
LEMMA ReplayExists ==
    ASSUME NEW data, NEW ops, NEW n \in Nat
    PROVE  \E f : IsReplay(f, data, ops, n)
<1> DEFINE S == {m \in Nat : \E f : IsReplay(f, data, ops, m)}
<1>1. 0 \in S
  <2> DEFINE f == [i \in 0 .. 0 |-> data]
  <2>1. IsReplay(f, data, ops, 0)
    BY DEF IsReplay
  <2> QED
    BY <2>1
<1>2. ASSUME NEW m \in Nat, m \in S PROVE m + 1 \in S
  <2>1. PICK f : IsReplay(f, data, ops, m)
    BY <1>2
  <2> DEFINE g == [i \in 0 .. m + 1 |-> IF i = m + 1 THEN Applied(f[m], ops[m + 1]) ELSE f[i]]
  <2>2. ASSUME NEW i \in 0 .. m + 1
        PROVE  g[i] = IF i = 0 THEN data ELSE Applied(g[i - 1], ops[i])
    <3>1. CASE i = 0
      BY <2>1, <3>1 DEF IsReplay
    <3>2. CASE i = m + 1
      <4>1. g[i - 1] = f[m]
        BY <3>2
      <4> QED
        BY <3>2, <4>1
    <3>3. CASE i # 0 /\ i # m + 1
      <4>1. i \in 0 .. m /\ i - 1 \in 0 .. m + 1 /\ i - 1 # m + 1
        BY <3>3
      <4>2. f[i] = Applied(f[i - 1], ops[i])
        BY <2>1, <3>3, <4>1 DEF IsReplay
      <4>3. g[i] = f[i] /\ g[i - 1] = f[i - 1]
        BY <3>3, <4>1
      <4> QED
        BY <3>3, <4>2, <4>3
    <3> QED
      BY <3>1, <3>2, <3>3
  <2>3. IsReplay(g, data, ops, m + 1)
    BY <2>2 DEF IsReplay
  <2> QED
    BY <2>3
<1> HIDE DEF S
<1>3. Nat \subseteq S
  BY <1>1, <1>2, SetInduction
<1> QED
  BY <1>3 DEF S

\* Two replays of sequences that begin alike begin alike.
LEMMA ReplayUnique ==
    ASSUME NEW data, NEW ops, NEW others, NEW m \in Nat, NEW n \in Nat, m <= n,
           NEW f, IsReplay(f, data, ops, m), NEW g, IsReplay(g, data, others, n),
           \A i \in 1 .. m : ops[i] = others[i]
    PROVE  f[m] = g[m]
<1> DEFINE S == {k \in Nat : k <= m => f[k] = g[k]}
<1>1. 0 \in S
  BY DEF IsReplay
<1>2. ASSUME NEW k \in Nat, k \in S PROVE k + 1 \in S
  <2> SUFFICES ASSUME k + 1 <= m PROVE f[k + 1] = g[k + 1]
    OBVIOUS
  <2>1. /\ k + 1 \in 0 .. m /\ k + 1 \in 0 .. n /\ k + 1 \in 1 .. m
        /\ k + 1 # 0 /\ k + 1 - 1 = k /\ k <= m
    OBVIOUS
  <2>2. f[k] = g[k]
    BY <1>2, <2>1
  <2>3. f[k + 1] = Applied(f[k], ops[k + 1])
    BY <2>1 DEF IsReplay
  <2>4. g[k + 1] = Applied(g[k], others[k + 1])
    BY <2>1 DEF IsReplay
  <2> QED
    BY <2>1, <2>2, <2>3, <2>4
<1> HIDE DEF S
<1>3. Nat \subseteq S
  BY <1>1, <1>2, SetInduction
<1> QED
  BY <1>3 DEF S

\* What Replay returns is the last step of a replay.
LEMMA ReplayIs ==
    ASSUME NEW data, NEW S, NEW ops \in Seq(S)
    PROVE  \E f : IsReplay(f, data, ops, Len(ops)) /\ Replay(data, ops) = f[Len(ops)]
<1>1. Len(ops) \in Nat
  BY LenProperties
<1>2. \E f : IsReplay(f, data, ops, Len(ops))
  BY <1>1, ReplayExists
<1> DEFINE f == CHOOSE f : IsReplay(f, data, ops, Len(ops))
<1>3. IsReplay(f, data, ops, Len(ops))
  BY <1>2
<1>4. Replay(data, ops) = f[Len(ops)]
  BY DEF Replay, IsReplay
<1> HIDE DEF f
<1> QED
  BY <1>3, <1>4

LEMMA ReplayEmpty ==
    ASSUME NEW data
    PROVE  Replay(data, <<>>) = data
<1>1. <<>> \in Seq({}) /\ Len(<<>>) = 0
  OBVIOUS
<1>2. PICK f : IsReplay(f, data, <<>>, 0) /\ Replay(data, <<>>) = f[0]
  BY <1>1, ReplayIs
<1> QED
  BY <1>2 DEF IsReplay

LEMMA ReplayAppend ==
    ASSUME NEW data, NEW S, NEW ops \in Seq(S), NEW op \in S
    PROVE  Replay(data, Append(ops, op)) = Applied(Replay(data, ops), op)
<1> DEFINE n == Len(ops)
           more == Append(ops, op)
<1>1. n \in Nat /\ more \in Seq(S) /\ Len(more) = n + 1 /\ more[n + 1] = op
  BY AppendProperties, LenProperties
<1>2. \A i \in 1 .. n : ops[i] = more[i]
  BY AppendProperties
<1> HIDE DEF n, more
<1>3. PICK f : IsReplay(f, data, ops, n) /\ Replay(data, ops) = f[n]
  BY ReplayIs DEF n
<1>4. PICK g : IsReplay(g, data, more, n + 1) /\ Replay(data, more) = g[n + 1]
  BY <1>1, ReplayIs
<1>5. f[n] = g[n]
  <2>1. n <= n + 1 /\ n + 1 \in Nat
    BY <1>1
  <2> QED
    BY <1>1, <1>2, <1>3, <1>4, <2>1, ReplayUnique
<1>6. g[n + 1] = Applied(g[n], op)
  BY <1>1, <1>4 DEF IsReplay
<1> QED
  BY <1>3, <1>4, <1>5, <1>6 DEF more

\* The packets of two sequences, one after the other.
LEMMA ReplayConcat ==
    ASSUME NEW data, NEW S, NEW first \in Seq(S), NEW second \in Seq(S)
    PROVE  Replay(data, first \o second) = Replay(Replay(data, first), second)
<1> DEFINE T == {s \in Seq(S) : Replay(data, first \o s) = Replay(Replay(data, first), s)}
<1>1. <<>> \in T
  <2>1. first \o <<>> = first /\ <<>> \in Seq(S)
    BY ConcatEmptySeq
  <2>2. Replay(Replay(data, first), <<>>) = Replay(data, first)
    BY ReplayEmpty
  <2> QED
    BY <2>1, <2>2
<1>2. ASSUME NEW s \in Seq(S), NEW op \in S, s \in T PROVE Append(s, op) \in T
  <2>1. /\ Append(s, op) \in Seq(S) /\ Append(s, op) = s \o <<op>>
        /\ <<op>> \in Seq(S)
    BY AppendProperties, AppendIsConcat
  <2>2. first \o s \in Seq(S)
    BY ConcatProperties
  <2>3. first \o Append(s, op) = Append(first \o s, op)
    <3>1. (first \o s) \o <<op>> = first \o (s \o <<op>>)
      BY <2>1, ConcatAssociative
    <3>2. Append(first \o s, op) = (first \o s) \o <<op>>
      BY <2>2, AppendIsConcat
    <3> QED
      BY <2>1, <3>1, <3>2
  <2>4. Replay(data, Append(first \o s, op)) = Applied(Replay(data, first \o s), op)
    BY <2>2, ReplayAppend
  <2>5. Replay(Replay(data, first), Append(s, op)) = Applied(Replay(Replay(data, first), s), op)
    BY ReplayAppend
  <2> QED
    BY <1>2, <2>1, <2>3, <2>4, <2>5
<1> HIDE DEF T
<1>3. Seq(S) \subseteq T
  BY <1>1, <1>2, SeqInduction
<1> QED
  BY <1>3 DEF T

LEMMA ReplayOne ==
    ASSUME NEW data, NEW op
    PROVE  Replay(data, <<op>>) = Applied(data, op)
<1>1. <<>> \in Seq({op}) /\ op \in {op} /\ Append(<<>>, op) = <<op>>
  OBVIOUS
<1>2. Replay(data, Append(<<>>, op)) = Applied(Replay(data, <<>>), op)
  BY <1>1, ReplayAppend
<1> QED
  BY <1>1, <1>2, ReplayEmpty

LEMMA ReplayTail ==
    ASSUME NEW data, NEW S, NEW ops \in Seq(S), ops # <<>>
    PROVE  Replay(data, ops) = Replay(Applied(data, Head(ops)), Tail(ops))
<1> DEFINE one == <<Head(ops)>>
           others == Tail(ops)
<1>1. one \in Seq(S) /\ others \in Seq(S)
  BY HeadTailProperties
<1>2. ops = one \o others
  BY HeadTailConcat
<1>3. Replay(data, one) = Applied(data, Head(ops))
  BY ReplayOne
<1> HIDE DEF one, others
<1>4. Replay(data, one \o others) = Replay(Replay(data, one), others)
  BY <1>1, ReplayConcat
<1> QED
  BY <1>2, <1>3, <1>4 DEF others

-----------------------------------------------------------------------------
(* Applied.                                                                 *)

\* A handler leaves a list a list, and every element but its own alone.
LEMMA AppliedIs ==
    ASSUME NEW data \in Data, NEW op \in Packets
    PROVE  /\ Applied(data, op) \in Data
           /\ \A k \in Keys : k # op.key => Applied(data, op)[k] = data[k]
           /\ Applied(data, op)[op.key] =
                  IF op.type = "update" /\ data[op.key] = Absent THEN Absent ELSE op.value
<1>1. /\ op.key \in Keys /\ op.value \in Values \cup {Absent}
      /\ op.type \in {"add", "update", "remove"} /\ (op.type = "remove") = (op.value = Absent)
  BY DEF Packets
<1>2. CASE op.type = "add"
  <2>1. Applied(data, op) = [data EXCEPT ![op.key] = op.value]
    BY <1>2 DEF Applied
  <2> QED
    BY <1>1, <1>2, <2>1 DEF Data
<1>3. CASE op.type = "remove"
  <2>1. Applied(data, op) = [data EXCEPT ![op.key] = Absent]
    BY <1>3 DEF Applied
  <2> QED
    BY <1>1, <1>3, <2>1 DEF Data
<1>4. CASE op.type = "update" /\ data[op.key] # Absent
  <2>1. Applied(data, op) = [data EXCEPT ![op.key] = op.value]
    BY <1>4 DEF Applied
  <2> QED
    BY <1>1, <1>4, <2>1 DEF Data
<1>5. CASE op.type = "update" /\ data[op.key] = Absent
  <2>1. Applied(data, op) = data
    BY <1>5 DEF Applied
  <2> QED
    BY <1>1, <1>5, <2>1 DEF Data
<1> QED
  BY <1>1, <1>2, <1>3, <1>4, <1>5

\* Two lists with the same elements are the same.
LEMMA DataEqual ==
    ASSUME NEW d \in Data, NEW e \in Data, \A k \in Keys : d[k] = e[k]
    PROVE  d = e
BY DEF Data

\* Packets about different elements commute.
LEMMA AppliedCommutes ==
    ASSUME NEW data \in Data, NEW a \in Packets, NEW b \in Packets, a.key # b.key
    PROVE  Applied(Applied(data, a), b) = Applied(Applied(data, b), a)
<1> DEFINE A == Applied(data, a)
           B == Applied(data, b)
           AB == Applied(A, b)
           BA == Applied(B, a)
<1>0. a.key \in Keys /\ b.key \in Keys
  BY DEF Packets
<1>1. /\ A \in Data /\ \A k \in Keys : k # a.key => A[k] = data[k]
      /\ A[a.key] = IF a.type = "update" /\ data[a.key] = Absent THEN Absent ELSE a.value
  BY AppliedIs
<1>2. /\ B \in Data /\ \A k \in Keys : k # b.key => B[k] = data[k]
      /\ B[b.key] = IF b.type = "update" /\ data[b.key] = Absent THEN Absent ELSE b.value
  BY AppliedIs
<1> HIDE DEF A, B
<1>3. /\ AB \in Data /\ \A k \in Keys : k # b.key => AB[k] = A[k]
      /\ AB[b.key] = IF b.type = "update" /\ A[b.key] = Absent THEN Absent ELSE b.value
  BY <1>1, AppliedIs
<1>4. /\ BA \in Data /\ \A k \in Keys : k # a.key => BA[k] = B[k]
      /\ BA[a.key] = IF a.type = "update" /\ B[a.key] = Absent THEN Absent ELSE a.value
  BY <1>2, AppliedIs
<1> HIDE DEF AB, BA
<1>5. ASSUME NEW k \in Keys PROVE AB[k] = BA[k]
  <2>1. CASE k = a.key
    BY <1>0, <1>1, <1>2, <1>3, <1>4, <2>1
  <2>2. CASE k = b.key
    BY <1>0, <1>1, <1>2, <1>3, <1>4, <2>2
  <2>3. CASE k # a.key /\ k # b.key
    BY <1>1, <1>2, <1>3, <1>4, <2>3
  <2> QED
    BY <2>1, <2>2, <2>3
<1>6. AB = BA
  BY <1>3, <1>4, <1>5, DataEqual
<1> QED
  BY <1>6 DEF A, B, AB, BA

\* A packet that is applied twice does what it does once.
LEMMA AppliedTwice ==
    ASSUME NEW data \in Data, NEW op \in Packets
    PROVE  Applied(Applied(data, op), op) = Applied(data, op)
<1> DEFINE A == Applied(data, op)
           B == Applied(A, op)
<1>0. op.key \in Keys /\ (op.type = "remove") = (op.value = Absent)
  BY DEF Packets
<1>1. /\ A \in Data
      /\ A[op.key] = IF op.type = "update" /\ data[op.key] = Absent THEN Absent ELSE op.value
  BY AppliedIs
<1> HIDE DEF A
<1>2. /\ B \in Data /\ \A k \in Keys : k # op.key => B[k] = A[k]
      /\ B[op.key] = IF op.type = "update" /\ A[op.key] = Absent THEN Absent ELSE op.value
  BY <1>1, AppliedIs
<1> HIDE DEF B
<1>3. B[op.key] = A[op.key]
  BY <1>0, <1>1, <1>2
<1>4. B = A
  BY <1>1, <1>2, <1>3, DataEqual
<1> QED
  BY <1>4 DEF A, B

\* An add or an update of an element that has the value already does nothing.
LEMMA AppliedAgain ==
    ASSUME NEW data \in Data, NEW op \in Packets, data[op.key] = op.value
    PROVE  Applied(data, op) = data
<1> DEFINE A == Applied(data, op)
<1>1. /\ A \in Data /\ \A k \in Keys : k # op.key => A[k] = data[k]
      /\ A[op.key] = IF op.type = "update" /\ data[op.key] = Absent THEN Absent ELSE op.value
  BY AppliedIs
<1> HIDE DEF A
<1>2. A = data
  BY <1>1, DataEqual
<1> QED
  BY <1>2 DEF A

LEMMA ReplayType ==
    ASSUME NEW data \in Data, NEW ops \in Seq(Packets)
    PROVE  Replay(data, ops) \in Data
<1> DEFINE T == {s \in Seq(Packets) : Replay(data, s) \in Data}
<1>1. <<>> \in T
  BY ReplayEmpty
<1>2. ASSUME NEW s \in Seq(Packets), NEW op \in Packets, s \in T PROVE Append(s, op) \in T
  BY <1>2, ReplayAppend, AppliedIs, AppendProperties
<1> HIDE DEF T
<1>3. Seq(Packets) \subseteq T
  BY <1>1, <1>2, SeqInduction
<1> QED
  BY <1>3 DEF T

\* A packet commutes with packets about other elements.
LEMMA ReplayCommutes ==
    ASSUME NEW data \in Data, NEW op \in Packets, NEW S, S \subseteq Packets,
           \A other \in S : other.key # op.key, NEW ops \in Seq(S)
    PROVE  Replay(Applied(data, op), ops) = Applied(Replay(data, ops), op)
<1> DEFINE T == {s \in Seq(S) : Replay(Applied(data, op), s) = Applied(Replay(data, s), op)}
<1>1. <<>> \in T
  BY ReplayEmpty
<1>2. ASSUME NEW s \in Seq(S), NEW e \in S, s \in T PROVE Append(s, e) \in T
  <2>1. s \in Seq(Packets) /\ e \in Packets /\ Append(s, e) \in Seq(S)
    BY SeqMonotonic, AppendProperties
  <2>2. Replay(data, s) \in Data
    BY <2>1, ReplayType
  <2>3. Replay(data, Append(s, e)) = Applied(Replay(data, s), e)
    BY ReplayAppend
  <2>4. Replay(Applied(data, op), Append(s, e)) = Applied(Replay(Applied(data, op), s), e)
    BY ReplayAppend
  <2>5. Applied(Applied(Replay(data, s), op), e) = Applied(Applied(Replay(data, s), e), op)
    BY <2>1, <2>2, AppliedCommutes
  <2> QED
    BY <1>2, <2>1, <2>3, <2>4, <2>5
<1> HIDE DEF T
<1>3. Seq(S) \subseteq T
  BY <1>1, <1>2, SeqInduction
<1> QED
  BY <1>3 DEF T

\* What becomes of an element depends on that element alone.
LEMMA ReplayLocal ==
    ASSUME NEW d \in Data, NEW e \in Data, NEW k \in Keys, d[k] = e[k],
           NEW ops \in Seq(Packets)
    PROVE  Replay(d, ops)[k] = Replay(e, ops)[k]
<1> DEFINE T == {s \in Seq(Packets) : Replay(d, s)[k] = Replay(e, s)[k]}
<1>1. <<>> \in T
  BY ReplayEmpty
<1>2. ASSUME NEW s \in Seq(Packets), NEW op \in Packets, s \in T PROVE Append(s, op) \in T
  <2> DEFINE D == Replay(d, s)
             E == Replay(e, s)
  <2>1. D \in Data /\ E \in Data /\ D[k] = E[k]
    BY <1>2, ReplayType
  <2>2. Replay(d, Append(s, op)) = Applied(D, op) /\ Replay(e, Append(s, op)) = Applied(E, op)
    BY ReplayAppend
  <2> HIDE DEF D, E
  <2>3. Applied(D, op)[k] = Applied(E, op)[k]
    <3>1. /\ k # op.key => Applied(D, op)[k] = D[k]
          /\ Applied(D, op)[op.key] =
                 IF op.type = "update" /\ D[op.key] = Absent THEN Absent ELSE op.value
      BY <2>1, AppliedIs
    <3>2. /\ k # op.key => Applied(E, op)[k] = E[k]
          /\ Applied(E, op)[op.key] =
                 IF op.type = "update" /\ E[op.key] = Absent THEN Absent ELSE op.value
      BY <2>1, AppliedIs
    <3>3. CASE k = op.key
      BY <2>1, <3>1, <3>2, <3>3
    <3> QED
      BY <2>1, <3>1, <3>2, <3>3
  <2> QED
    BY <2>2, <2>3, AppendProperties
<1> HIDE DEF T
<1>3. Seq(Packets) \subseteq T
  BY <1>1, <1>2, SeqInduction
<1> QED
  BY <1>3 DEF T

\* Packets about other elements leave an element alone.
LEMMA ReplayOthers ==
    ASSUME NEW data \in Data, NEW k \in Keys, NEW S, S \subseteq Packets,
           \A op \in S : op.key # k, NEW ops \in Seq(S)
    PROVE  Replay(data, ops)[k] = data[k]
<1> DEFINE T == {s \in Seq(S) : Replay(data, s)[k] = data[k]}
<1>1. <<>> \in T
  BY ReplayEmpty
<1>2. ASSUME NEW s \in Seq(S), NEW op \in S, s \in T PROVE Append(s, op) \in T
  <2>1. s \in Seq(Packets) /\ op \in Packets /\ Append(s, op) \in Seq(S)
    BY SeqMonotonic, AppendProperties
  <2>2. Replay(data, s) \in Data
    BY <2>1, ReplayType
  <2>3. Replay(data, Append(s, op)) = Applied(Replay(data, s), op)
    BY ReplayAppend
  <2>4. Applied(Replay(data, s), op)[k] = Replay(data, s)[k]
    BY <2>1, <2>2, AppliedIs
  <2> QED
    BY <1>2, <2>1, <2>3, <2>4
<1> HIDE DEF T
<1>3. Seq(S) \subseteq T
  BY <1>1, <1>2, SeqInduction
<1> QED
  BY <1>3 DEF T

-----------------------------------------------------------------------------
(* Ops and OpsFor.                                                          *)

LEMMA OpsIs ==
    ASSUME NEW E, NEW S, \A e \in E : e.op \in S, NEW queue \in Seq(E)
    PROVE  /\ Ops(queue) \in Seq(S) /\ Len(Ops(queue)) = Len(queue)
           /\ \A i \in 1 .. Len(queue) : Ops(queue)[i] = queue[i].op
<1>1. Len(queue) \in Nat /\ DOMAIN queue = 1 .. Len(queue)
  BY LenProperties
<1>2. \A i \in 1 .. Len(queue) : queue[i] \in E
  BY ElementOfSeq
<1>3. Ops(queue) = [i \in 1 .. Len(queue) |-> queue[i].op]
  BY <1>1 DEF Ops
<1> QED
  BY <1>1, <1>2, <1>3

LEMMA OpsConcat ==
    ASSUME NEW E, NEW S, \A e \in E : e.op \in S, NEW q \in Seq(E), NEW r \in Seq(E)
    PROVE  Ops(q \o r) = Ops(q) \o Ops(r)
<1>1. /\ q \o r \in Seq(E) /\ Len(q \o r) = Len(q) + Len(r)
      /\ Len(q) \in Nat /\ Len(r) \in Nat
  BY ConcatProperties, LenProperties
<1>2. /\ Ops(q \o r) \in Seq(S) /\ Len(Ops(q \o r)) = Len(q) + Len(r)
      /\ \A i \in 1 .. Len(q) + Len(r) : Ops(q \o r)[i] = (q \o r)[i].op
  BY <1>1, OpsIs
<1>3. /\ Ops(q) \in Seq(S) /\ Len(Ops(q)) = Len(q)
      /\ \A i \in 1 .. Len(q) : Ops(q)[i] = q[i].op
  BY OpsIs
<1>4. /\ Ops(r) \in Seq(S) /\ Len(Ops(r)) = Len(r)
      /\ \A i \in 1 .. Len(r) : Ops(r)[i] = r[i].op
  BY OpsIs
<1>5. /\ Ops(q) \o Ops(r) \in Seq(S) /\ Len(Ops(q) \o Ops(r)) = Len(q) + Len(r)
      /\ \A i \in 1 .. Len(q) + Len(r) :
            (Ops(q) \o Ops(r))[i] = IF i <= Len(q) THEN Ops(q)[i] ELSE Ops(r)[i - Len(q)]
  <2> DEFINE qo == Ops(q)
             ro == Ops(r)
  <2>1. qo \in Seq(S) /\ ro \in Seq(S) /\ Len(qo) = Len(q) /\ Len(ro) = Len(r)
    BY <1>3, <1>4
  <2> HIDE DEF qo, ro
  <2>2. /\ qo \o ro \in Seq(S) /\ Len(qo \o ro) = Len(qo) + Len(ro)
        /\ \A i \in 1 .. Len(qo) + Len(ro) :
              (qo \o ro)[i] = IF i <= Len(qo) THEN qo[i] ELSE ro[i - Len(qo)]
    BY <2>1, ConcatProperties
  <2> QED
    BY <2>1, <2>2 DEF qo, ro
<1>6. ASSUME NEW i \in 1 .. Len(q) + Len(r)
      PROVE  Ops(q \o r)[i] = (Ops(q) \o Ops(r))[i]
  <2>1. (q \o r)[i] = IF i <= Len(q) THEN q[i] ELSE r[i - Len(q)]
    BY ConcatProperties
  <2>2. CASE i <= Len(q)
    <3>1. i \in 1 .. Len(q)
      BY <1>1, <2>2
    <3> QED
      BY <1>2, <1>3, <1>5, <2>1, <2>2, <3>1
  <2>3. CASE ~(i <= Len(q))
    <3>1. i - Len(q) \in 1 .. Len(r)
      BY <1>1, <2>3
    <3> QED
      BY <1>2, <1>4, <1>5, <2>1, <2>3, <3>1
  <2> QED
    BY <2>2, <2>3
<1> QED
  BY <1>2, <1>5, <1>6, SeqEqual

\* What is sent once the i-th entry of the queue is destroyed, and the first n steps
\* of OpsFor.
SentWith(s, p, queue, i) ==
    IF p \in Targets(queue[i]) THEN Append(s, queue[i].op) ELSE s
IsSending(f, p, queue, n) ==
    f = [i \in 0 .. n |-> IF i = 0 THEN <<>> ELSE SentWith(f[i - 1], p, queue, i)]

\* The recursion of OpsFor has a solution of every length.
LEMMA SendingExists ==
    ASSUME NEW p, NEW queue, NEW n \in Nat
    PROVE  \E f : IsSending(f, p, queue, n)
<1> DEFINE S == {m \in Nat : \E f : IsSending(f, p, queue, m)}
<1>1. 0 \in S
  <2> DEFINE f == [i \in 0 .. 0 |-> <<>>]
  <2>1. IsSending(f, p, queue, 0)
    BY DEF IsSending
  <2> QED
    BY <2>1
<1>2. ASSUME NEW m \in Nat, m \in S PROVE m + 1 \in S
  <2>1. PICK f : IsSending(f, p, queue, m)
    BY <1>2
  <2> DEFINE g == [i \in 0 .. m + 1 |->
                      IF i = m + 1 THEN SentWith(f[m], p, queue, m + 1) ELSE f[i]]
  <2>2. ASSUME NEW i \in 0 .. m + 1
        PROVE  g[i] = IF i = 0 THEN <<>> ELSE SentWith(g[i - 1], p, queue, i)
    <3>1. CASE i = 0
      BY <2>1, <3>1 DEF IsSending
    <3>2. CASE i = m + 1
      <4>1. g[i - 1] = f[m]
        BY <3>2
      <4> QED
        BY <3>2, <4>1
    <3>3. CASE i # 0 /\ i # m + 1
      <4>1. i \in 0 .. m /\ i - 1 \in 0 .. m + 1 /\ i - 1 # m + 1
        BY <3>3
      <4>2. f[i] = SentWith(f[i - 1], p, queue, i)
        BY <2>1, <3>3, <4>1 DEF IsSending
      <4>3. g[i] = f[i] /\ g[i - 1] = f[i - 1]
        BY <3>3, <4>1
      <4> QED
        BY <3>3, <4>2, <4>3
    <3> QED
      BY <3>1, <3>2, <3>3
  <2>3. IsSending(g, p, queue, m + 1)
    BY <2>2 DEF IsSending
  <2> QED
    BY <2>3
<1> HIDE DEF S
<1>3. Nat \subseteq S
  BY <1>1, <1>2, SetInduction
<1> QED
  BY <1>3 DEF S

\* One step of the recursion.
LEMMA SendingStep ==
    ASSUME NEW p, NEW queue, NEW n \in Nat, NEW f, IsSending(f, p, queue, n)
    PROVE  f[0] = <<>> /\ \A i \in 0 .. n - 1 : f[i + 1] = SentWith(f[i], p, queue, i + 1)
<1>1. f[0] = <<>>
  BY DEF IsSending
<1>2. ASSUME NEW i \in 0 .. n - 1 PROVE f[i + 1] = SentWith(f[i], p, queue, i + 1)
  <2>1. i + 1 \in 0 .. n /\ i + 1 # 0 /\ i + 1 - 1 = i
    OBVIOUS
  <2> QED
    BY <2>1 DEF IsSending
<1> QED
  BY <1>1, <1>2

LEMMA OpsForIs ==
    ASSUME NEW p, NEW E, NEW queue \in Seq(E)
    PROVE  \E f : /\ f[0] = <<>> /\ OpsFor(p, queue) = f[Len(queue)]
                 /\ \A i \in 0 .. Len(queue) - 1 : f[i + 1] = SentWith(f[i], p, queue, i + 1)
<1>1. Len(queue) \in Nat
  BY LenProperties
<1>2. \E f : IsSending(f, p, queue, Len(queue))
  BY <1>1, SendingExists
<1> DEFINE f == CHOOSE f : IsSending(f, p, queue, Len(queue))
<1>3. IsSending(f, p, queue, Len(queue))
  BY <1>2
<1>4. OpsFor(p, queue) = f[Len(queue)]
  BY DEF OpsFor, IsSending, SentWith
<1> HIDE DEF f
<1>5. f[0] = <<>> /\ \A i \in 0 .. Len(queue) - 1 : f[i + 1] = SentWith(f[i], p, queue, i + 1)
  <2> DEFINE n == Len(queue)
  <2>1. n \in Nat /\ IsSending(f, p, queue, n)
    BY <1>1, <1>3
  <2> HIDE DEF n
  <2>2. f[0] = <<>> /\ \A i \in 0 .. n - 1 : f[i + 1] = SentWith(f[i], p, queue, i + 1)
    BY <2>1, SendingStep
  <2> QED
    BY <2>2 DEF n
<1> QED
  BY <1>4, <1>5

\* A peer is sent packets of entries that have it as a target only.
LEMMA OpsForType ==
    ASSUME NEW p, NEW E, NEW S, \A e \in E : p \in Targets(e) => e.op \in S,
           NEW queue \in Seq(E)
    PROVE  OpsFor(p, queue) \in Seq(S)
<1> DEFINE n == Len(queue)
<1>1. n \in Nat /\ \A i \in 1 .. n : queue[i] \in E
  BY LenProperties, ElementOfSeq
<1>2. PICK f : /\ f[0] = <<>> /\ OpsFor(p, queue) = f[n]
               /\ \A i \in 0 .. n - 1 : f[i + 1] = SentWith(f[i], p, queue, i + 1)
  BY OpsForIs
<1> HIDE DEF n
<1> DEFINE T == {i \in Nat : i <= n => f[i] \in Seq(S)}
<1>3. 0 \in T
  BY <1>2, EmptySeq
<1>4. ASSUME NEW i \in Nat, i \in T PROVE i + 1 \in T
  <2> SUFFICES ASSUME i + 1 <= n PROVE f[i + 1] \in Seq(S)
    OBVIOUS
  <2>1. i \in 0 .. n - 1 /\ i + 1 \in 1 .. n /\ i <= n
    BY <1>1
  <2>2. f[i] \in Seq(S) /\ queue[i + 1] \in E
    BY <1>1, <1>4, <2>1
  <2>3. CASE p \in Targets(queue[i + 1])
    <3>1. queue[i + 1].op \in S
      BY <2>2, <2>3
    <3>2. f[i + 1] = Append(f[i], queue[i + 1].op)
      BY <1>2, <2>1, <2>3 DEF SentWith
    <3> QED
      BY <2>2, <3>1, <3>2, AppendProperties
  <2>4. CASE p \notin Targets(queue[i + 1])
    <3>1. f[i + 1] = f[i]
      BY <1>2, <2>1, <2>4 DEF SentWith
    <3> QED
      BY <2>2, <3>1
  <2> QED
    BY <2>3, <2>4
<1> HIDE DEF T
<1>5. n \in T
  BY <1>1, <1>3, <1>4, SetInduction
<1> QED
  BY <1>1, <1>2, <1>5 DEF T

\* A peer that is a target of every entry is sent every packet, in order.
LEMMA OpsForAll ==
    ASSUME NEW p, NEW E, NEW S, \A e \in E : p \in Targets(e) /\ e.op \in S,
           NEW queue \in Seq(E)
    PROVE  OpsFor(p, queue) = Ops(queue)
<1> DEFINE n == Len(queue)
<1>1. n \in Nat /\ \A i \in 1 .. n : queue[i] \in E
  BY LenProperties, ElementOfSeq
<1>2. PICK f : /\ f[0] = <<>> /\ OpsFor(p, queue) = f[n]
               /\ \A i \in 0 .. n - 1 : f[i + 1] = SentWith(f[i], p, queue, i + 1)
  BY OpsForIs
<1>3. /\ Ops(queue) \in Seq(S) /\ Len(Ops(queue)) = n
      /\ \A i \in 1 .. n : Ops(queue)[i] = queue[i].op
  BY OpsIs
<1> HIDE DEF n
<1> DEFINE T == {i \in Nat : i <= n => /\ f[i] \in Seq(S) /\ Len(f[i]) = i
                                       /\ \A j \in 1 .. i : f[i][j] = queue[j].op}
<1>4. 0 \in T
  <2>1. f[0] = <<>>
    BY <1>2
  <2>2. f[0] \in Seq(S) /\ Len(f[0]) = 0
    BY <2>1, EmptySeq
  <2>3. \A j \in 1 .. 0 : f[0][j] = queue[j].op
    OBVIOUS
  <2> QED
    BY <2>2, <2>3
<1>5. ASSUME NEW i \in Nat, i \in T PROVE i + 1 \in T
  <2> SUFFICES ASSUME i + 1 <= n
               PROVE  /\ f[i + 1] \in Seq(S) /\ Len(f[i + 1]) = i + 1
                      /\ \A j \in 1 .. i + 1 : f[i + 1][j] = queue[j].op
    OBVIOUS
  <2>1. i \in 0 .. n - 1 /\ i + 1 \in 1 .. n /\ i <= n
    BY <1>1
  <2>2. f[i] \in Seq(S) /\ Len(f[i]) = i /\ \A j \in 1 .. i : f[i][j] = queue[j].op
    BY <1>5, <2>1
  <2>3. queue[i + 1] \in E /\ queue[i + 1].op \in S /\ p \in Targets(queue[i + 1])
    BY <1>1, <2>1
  <2>4. f[i + 1] = Append(f[i], queue[i + 1].op)
    BY <1>2, <2>1, <2>3 DEF SentWith
  <2>5. /\ f[i + 1] \in Seq(S) /\ Len(f[i + 1]) = i + 1
        /\ \A j \in 1 .. i : f[i + 1][j] = f[i][j]
        /\ f[i + 1][i + 1] = queue[i + 1].op
    BY <2>2, <2>3, <2>4, AppendProperties
  <2>6. ASSUME NEW j \in 1 .. i + 1 PROVE f[i + 1][j] = queue[j].op
    <3>1. CASE j = i + 1
      BY <2>5, <3>1
    <3>2. CASE j # i + 1
      <4>1. j \in 1 .. i
        BY <3>2
      <4> QED
        BY <2>2, <2>5, <4>1
    <3> QED
      BY <3>1, <3>2
  <2> QED
    BY <2>5, <2>6
<1> HIDE DEF T
<1>6. n \in T
  BY <1>1, <1>4, <1>5, SetInduction
<1>7. f[n] \in Seq(S) /\ Len(f[n]) = n /\ \A j \in 1 .. n : f[n][j] = queue[j].op
  BY <1>1, <1>6 DEF T
<1> DEFINE sent == f[n]
           all == Ops(queue)
<1>8. /\ sent \in Seq(S) /\ all \in Seq(S) /\ Len(sent) = Len(all)
      /\ \A j \in 1 .. Len(sent) : sent[j] = all[j]
  BY <1>3, <1>7
<1> HIDE DEF sent, all
<1>9. sent = all
  BY <1>8, SeqEqual
<1> QED
  BY <1>2, <1>9 DEF sent, all

-----------------------------------------------------------------------------
(* Where packets come from and where they go.                               *)

Entries == [op : Packets, filter : {NoPeer, Owner}, peers : SUBSET Peers]

\* What a host's application makes, and the entries it queues.
PacketsBy(h) == {op \in Packets : Writer[op.key] = h}
EntriesBy(h) == {e \in Entries : e.op \in PacketsBy(h)}

\* The entries of the server's queue: its own go to everybody, those of a client
\* to everybody but the owner, and before SendDelta they have no peers yet.
ServerEntries ==
    {e \in Entries : /\ e.filter = IF Writer[e.op.key] = Server THEN NoPeer ELSE Owner
                     /\ e.peers = {} \/ e.peers = Peers \ {e.filter}}

NetStates == [stage : {"idle", "dispatch", "erase"},
              op : Packets \cup {Op("None", Absent, Absent)}]

TypeInv ==
    /\ m_Data \in [Hosts -> Data]
    /\ m_UpdateQueue \in [Hosts -> Seq(Entries)]
    /\ down \in [Peers -> Seq(Packets)]
    /\ up \in [Peers -> Seq(Packets)]
    /\ net \in NetStates

OriginInv ==
    /\ m_UpdateQueue[Server] \in Seq(ServerEntries)
    /\ \A p \in Peers : m_UpdateQueue[p] \in Seq(EntriesBy(p))
    /\ \A p \in Peers : up[p] \in Seq(PacketsBy(p))

\* What the network thread works on is a client's, and it has been applied already
\* unless it is a removal.
NetInv ==
    /\ net.stage # "idle" => net.op \in Packets /\ Writer[net.op.key] \in Peers
    /\ net.stage = "erase" => net.op.type = "remove"
    /\ net.stage = "dispatch" /\ net.op.type # "remove" =>
           m_Data[Server][net.op.key] = net.op.value

ListInv == TypeInv /\ OriginInv /\ NetInv

LEMMA HostFacts ==
    /\ Server \in Hosts /\ Peers \subseteq Hosts /\ Server \notin Peers
    /\ FirstPeer \in Peers
BY ListAssumption DEF Hosts

LEMMA InitListInv == Init => ListInv
<1> SUFFICES ASSUME Init PROVE ListInv
  OBVIOUS
<1>1. \A S : <<>> \in Seq(S)
  BY EmptySeq
<1>2. [k \in Keys |-> Absent] \in Data
  BY DEF Data
<1>3. TypeInv
  BY <1>1, <1>2 DEF Init, TypeInv, NetStates, IdleNet, Hosts
<1>4. OriginInv
  BY <1>1, HostFacts DEF Init, OriginInv, Hosts
<1>5. NetInv
  BY DEF Init, NetInv, IdleNet
<1> QED
  BY <1>3, <1>4, <1>5 DEF ListInv

\* The entries that a call queues.
Queued(ops) == [i \in DOMAIN ops |-> Entry(ops[i], NoPeer)]

LEMMA QueuedIs ==
    ASSUME NEW S, NEW E, \A op \in S : Entry(op, NoPeer) \in E, NEW ops \in Seq(S)
    PROVE  /\ Queued(ops) \in Seq(E)
           /\ Ops(Queued(ops)) = ops
<1>1. Len(ops) \in Nat /\ DOMAIN ops = 1 .. Len(ops)
  BY LenProperties
<1>2. \A i \in 1 .. Len(ops) : ops[i] \in S
  BY ElementOfSeq
<1>3. Queued(ops) = [i \in 1 .. Len(ops) |-> Entry(ops[i], NoPeer)]
  BY <1>1 DEF Queued
<1>4. Queued(ops) \in Seq(E) /\ Len(Queued(ops)) = Len(ops) /\ DOMAIN Queued(ops) = 1 .. Len(ops)
  BY <1>1, <1>2, <1>3
<1>5. \A i \in 1 .. Len(ops) : Queued(ops)[i].op = ops[i]
  BY <1>3 DEF Entry
<1>6. Ops(Queued(ops)) = [i \in 1 .. Len(ops) |-> ops[i]]
  BY <1>4, <1>5 DEF Ops
<1>7. ops = [i \in 1 .. Len(ops) |-> ops[i]]
  BY LenProperties
<1> QED
  BY <1>4, <1>6, <1>7

\* Every call of an application makes packets of its own.
LEMMA AppMakes ==
    ASSUME TypeInv, App
    PROVE  \E h \in Hosts : \E ops \in Seq(PacketsBy(h)) : ops # <<>> /\ Call(h, ops)
<1> USE DEF Op
<1>1. PICK h \in Hosts : \/ \E k \in Keys, v \in Values : Create(h, k, v) \/ Set(h, k, v)
                         \/ \E k \in Keys : Remove(h, k)
                         \/ RemoveAll(h)
  BY DEF App
<1>2. ASSUME NEW op \in Packets, Call(h, <<op>>)
      PROVE  <<op>> \in Seq(PacketsBy(h)) /\ <<op>> # <<>>
  <2>1. Writer[op.key] = h
    <3>1. 1 \in DOMAIN <<op>> /\ <<op>>[1] = op
      OBVIOUS
    <3> QED
      BY <1>2, <3>1 DEF Call
  <2>2. op \in PacketsBy(h)
    BY <2>1 DEF PacketsBy
  <2> QED
    BY <2>2
<1>3. ASSUME NEW k \in Keys, NEW v \in Values, Create(h, k, v) \/ Set(h, k, v)
      PROVE  \E op \in Packets : Call(h, <<op>>)
  <2>1. Op("add", k, v) \in Packets /\ Op("update", k, v) \in Packets
    BY ListAssumption DEF Packets
  <2> QED
    BY <1>3, <2>1 DEF Create, Set
<1>4. ASSUME NEW k \in Keys PROVE Op("remove", k, Absent) \in Packets
  BY DEF Packets
<1>5. ASSUME NEW k \in Keys, Remove(h, k)
      PROVE  \E op \in Packets : Call(h, <<op>>)
  BY <1>4, <1>5 DEF Remove
<1>6. ASSUME RemoveAll(h)
      PROVE  \E ops \in Seq(PacketsBy(h)) : ops # <<>> /\ Call(h, ops)
  <2> DEFINE present == {k \in Keys : m_Data[h][k] # Absent}
             n == Cardinality(present)
  <2>1. /\ present # {}
        /\ \E keys \in [1 .. n -> present] :
              /\ \A k \in present : \E i \in DOMAIN keys : keys[i] = k
              /\ Call(h, [i \in DOMAIN keys |-> Op("remove", keys[i], Absent)])
    BY <1>6 DEF RemoveAll
  <2>2. IsFiniteSet(present) /\ present \subseteq Keys
    <3>1. IsFiniteSet(Keys) /\ present \in SUBSET Keys
      BY ListAssumption
    <3> QED
      BY <3>1, FS_Subset
  <2> HIDE DEF present
  <2>3. n \in Nat
    BY <2>2, FS_CardinalityType
  <2> HIDE DEF n
  <2>4. PICK keys \in [1 .. n -> present] :
              /\ \A k \in present : \E i \in DOMAIN keys : keys[i] = k
              /\ Call(h, [i \in DOMAIN keys |-> Op("remove", keys[i], Absent)])
    BY <2>1
  <2> DEFINE ops == [i \in 1 .. n |-> Op("remove", keys[i], Absent)]
  <2>5. Call(h, ops) /\ DOMAIN ops = 1 .. n
    BY <2>4
  <2>6. ASSUME NEW i \in 1 .. n PROVE ops[i] \in PacketsBy(h)
    <3>1. keys[i] \in Keys
      BY <2>2
    <3>2. ops[i] \in Packets
      BY <1>4, <3>1
    <3>3. Writer[ops[i].key] = h
      BY <2>5 DEF Call
    <3> QED
      BY <3>2, <3>3 DEF PacketsBy
  <2>7. ops \in Seq(PacketsBy(h))
    BY <2>3, <2>6
  <2>8. ops # <<>>
    <3>1. PICK k : k \in present
      BY <2>1
    <3>2. PICK i \in DOMAIN keys : keys[i] = k
      BY <2>4, <3>1
    <3>3. i \in DOMAIN ops
      BY <2>5, <3>2
    <3> QED
      BY <3>3
  <2> QED
    BY <2>5, <2>7, <2>8
<1>7. CASE \E op \in Packets : Call(h, <<op>>)
  BY <1>2, <1>7
<1> QED
  BY <1>1, <1>3, <1>5, <1>6, <1>7

\* What a call does, once its packets are its own.
LEMMA CallIs ==
    ASSUME NEW h \in Hosts, NEW ops \in Seq(PacketsBy(h)), Call(h, ops), TypeInv
    PROVE  /\ ops \in Seq(Packets)
           /\ m_Data' = [m_Data EXCEPT ![h] = Replay(m_Data[h], ops)]
           /\ m_UpdateQueue' = [m_UpdateQueue EXCEPT ![h] = m_UpdateQueue[h] \o Queued(ops)]
           /\ UNCHANGED <<down, up, sync, net>>
           /\ Replay(m_Data[h], ops) \in Data
<1>1. ops \in Seq(Packets)
  <2>1. PacketsBy(h) \subseteq Packets
    BY DEF PacketsBy
  <2> QED
    BY <2>1, SeqMonotonic
<1>2. m_Data[h] \in Data
  BY DEF TypeInv
<1> QED
  BY <1>1, <1>2, ReplayType DEF Call, Queued

LEMMA CallListInv ==
    ASSUME NEW h \in Hosts, NEW ops \in Seq(PacketsBy(h)), Call(h, ops), ListInv
    PROVE  ListInv'
<1> USE DEF ListInv
<1>1. /\ ops \in Seq(Packets)
      /\ m_Data' = [m_Data EXCEPT ![h] = Replay(m_Data[h], ops)]
      /\ m_UpdateQueue' = [m_UpdateQueue EXCEPT ![h] = m_UpdateQueue[h] \o Queued(ops)]
      /\ UNCHANGED <<down, up, sync, net>>
      /\ Replay(m_Data[h], ops) \in Data
  BY CallIs
<1>2. \A op \in PacketsBy(h) : Entry(op, NoPeer) \in EntriesBy(h)
  BY DEF PacketsBy, EntriesBy, Entries, Entry
<1>3. Queued(ops) \in Seq(EntriesBy(h))
  BY <1>2, QueuedIs
<1>4. Queued(ops) \in Seq(Entries)
  BY <1>3, SeqMonotonic DEF EntriesBy
<1>5. m_UpdateQueue[h] \in Seq(Entries)
  BY DEF TypeInv
<1>6. m_UpdateQueue[h] \o Queued(ops) \in Seq(Entries)
  BY <1>4, <1>5, ConcatProperties
<1>7. TypeInv'
  BY <1>1, <1>6 DEF TypeInv
<1>8. CASE h = Server
  <2>1. \A op \in PacketsBy(h) : Entry(op, NoPeer) \in ServerEntries
    BY <1>8 DEF PacketsBy, ServerEntries, Entries, Entry
  <2>2. Queued(ops) \in Seq(ServerEntries)
    BY <2>1, QueuedIs
  <2>3. m_UpdateQueue[h] \o Queued(ops) \in Seq(ServerEntries)
    BY <1>8, <2>2, ConcatProperties DEF OriginInv
  <2>4. OriginInv'
    BY <1>1, <1>8, <2>3, HostFacts DEF OriginInv, TypeInv
  <2>5. NetInv'
    <3>1. CASE net.stage = "dispatch" /\ net.op.type # "remove"
      <4>1. net.op \in Packets /\ Writer[net.op.key] \in Peers /\ net.op.key \in Keys
        BY <3>1 DEF NetInv, Packets
      <4>2. \A op \in PacketsBy(h) : op.key # net.op.key
        BY <1>8, <4>1, HostFacts DEF PacketsBy
      <4>3. PacketsBy(h) \subseteq Packets /\ m_Data[Server] \in Data
        BY HostFacts DEF PacketsBy, TypeInv
      <4>4. Replay(m_Data[Server], ops)[net.op.key] = m_Data[Server][net.op.key]
        BY <4>1, <4>2, <4>3, ReplayOthers
      <4>5. m_Data'[Server] = Replay(m_Data[Server], ops)
        BY <1>1, <1>8, HostFacts DEF TypeInv
      <4> QED
        BY <1>1, <3>1, <4>4, <4>5 DEF NetInv
    <3> QED
      BY <1>1, <3>1 DEF NetInv
  <2> QED
    BY <1>7, <2>4, <2>5
<1>9. CASE h # Server
  <2>1. h \in Peers
    BY <1>9 DEF Hosts
  <2>2. m_UpdateQueue[h] \o Queued(ops) \in Seq(EntriesBy(h))
    BY <1>3, <2>1, ConcatProperties DEF OriginInv
  <2>3. OriginInv'
    BY <1>1, <1>9, <2>1, <2>2, HostFacts DEF OriginInv, TypeInv
  <2>4. NetInv'
    BY <1>1, <1>9, HostFacts DEF NetInv, TypeInv
  <2> QED
    BY <1>7, <2>3, <2>4
<1> QED
  BY <1>8, <1>9

LEMMA SendDeltaListInv == ListInv /\ SendDelta => ListInv'
<1> SUFFICES ASSUME ListInv, SendDelta PROVE ListInv'
  OBVIOUS
<1> DEFINE queue == m_UpdateQueue[Server]
           addressed == [i \in DOMAIN queue |-> [queue[i] EXCEPT !.peers = Peers \ {queue[i].filter}]]
<1>1. /\ m_UpdateQueue' = [m_UpdateQueue EXCEPT ![Server] = addressed]
      /\ UNCHANGED <<m_Data, down, up, net>>
  BY DEF SendDelta
<1>2. queue \in Seq(ServerEntries)
  BY DEF ListInv, OriginInv
<1>3. \A e \in ServerEntries : [e EXCEPT !.peers = Peers \ {e.filter}] \in ServerEntries
  BY DEF ServerEntries, Entries
<1>4. Len(queue) \in Nat /\ DOMAIN queue = 1 .. Len(queue)
  BY <1>2, LenProperties
<1>5. \A i \in 1 .. Len(queue) : queue[i] \in ServerEntries
  BY <1>2, ElementOfSeq
<1>6. addressed \in Seq(ServerEntries)
  BY <1>3, <1>4, <1>5
<1>7. addressed \in Seq(Entries)
  BY <1>6, SeqMonotonic DEF ServerEntries
<1> HIDE DEF addressed, queue
<1>8. TypeInv'
  BY <1>1, <1>7, HostFacts DEF ListInv, TypeInv
<1>9. OriginInv'
  BY <1>1, <1>6, HostFacts DEF ListInv, TypeInv, OriginInv
<1>10. NetInv'
  BY <1>1 DEF ListInv, NetInv
<1> QED
  BY <1>8, <1>9, <1>10 DEF ListInv

LEMMA FlushListInv == ListInv /\ Flush => ListInv'
<1> SUFFICES ASSUME ListInv, Flush PROVE ListInv'
  OBVIOUS
<1>1. /\ down' = [p \in Peers |-> down[p] \o OpsFor(p, m_UpdateQueue[Server])]
      /\ m_UpdateQueue' = [m_UpdateQueue EXCEPT ![Server] = <<>>]
      /\ UNCHANGED <<m_Data, up, net>>
  BY DEF Flush
<1>2. m_UpdateQueue[Server] \in Seq(Entries)
  BY HostFacts DEF ListInv, TypeInv
<1>3. ASSUME NEW p \in Peers PROVE down[p] \o OpsFor(p, m_UpdateQueue[Server]) \in Seq(Packets)
  <2>1. \A e \in Entries : p \in Targets(e) => e.op \in Packets
    BY DEF Entries
  <2>2. OpsFor(p, m_UpdateQueue[Server]) \in Seq(Packets)
    BY <1>2, <2>1, OpsForType
  <2>3. down[p] \in Seq(Packets)
    BY DEF ListInv, TypeInv
  <2> QED
    BY <2>2, <2>3, ConcatProperties
<1>4. \A S : <<>> \in Seq(S)
  BY EmptySeq
<1>5. TypeInv'
  BY <1>1, <1>3, <1>4, HostFacts DEF ListInv, TypeInv
<1>6. OriginInv'
  BY <1>1, <1>4, HostFacts DEF ListInv, TypeInv, OriginInv
<1>7. NetInv'
  BY <1>1 DEF ListInv, NetInv
<1> QED
  BY <1>5, <1>6, <1>7 DEF ListInv

LEMMA ClientFlushListInv ==
    ASSUME NEW p \in Peers, ListInv, ClientFlush(p)
    PROVE  ListInv'
<1>1. /\ up' = [up EXCEPT ![p] = up[p] \o Ops(m_UpdateQueue[p])]
      /\ m_UpdateQueue' = [m_UpdateQueue EXCEPT ![p] = <<>>]
      /\ UNCHANGED <<m_Data, down, net>>
  BY DEF ClientFlush, Uplinked
<1>2. p \in Hosts /\ p # Server
  BY HostFacts
<1>3. Ops(m_UpdateQueue[p]) \in Seq(PacketsBy(p))
  <2>1. m_UpdateQueue[p] \in Seq(EntriesBy(p)) /\ \A e \in EntriesBy(p) : e.op \in PacketsBy(p)
    BY DEF ListInv, OriginInv, EntriesBy
  <2> QED
    BY <2>1, OpsIs
<1>4. up[p] \o Ops(m_UpdateQueue[p]) \in Seq(PacketsBy(p))
  BY <1>3, ConcatProperties DEF ListInv, OriginInv
<1>5. up[p] \o Ops(m_UpdateQueue[p]) \in Seq(Packets)
  BY <1>4, SeqMonotonic DEF PacketsBy
<1>6. \A S : <<>> \in Seq(S)
  BY EmptySeq
<1>7. TypeInv'
  BY <1>1, <1>2, <1>5, <1>6 DEF ListInv, TypeInv
<1>8. OriginInv'
  BY <1>1, <1>2, <1>4, <1>6 DEF ListInv, TypeInv, OriginInv
<1>9. NetInv'
  BY <1>1 DEF ListInv, NetInv
<1> QED
  BY <1>7, <1>8, <1>9 DEF ListInv

LEMMA ClientReceiveListInv ==
    ASSUME NEW p \in Peers, ListInv, ClientReceive(p)
    PROVE  ListInv'
<1>1. /\ down[p] # <<>>
      /\ m_Data' = [m_Data EXCEPT ![p] = Applied(m_Data[p], Head(down[p]))]
      /\ down' = [down EXCEPT ![p] = Tail(down[p])]
      /\ UNCHANGED <<m_UpdateQueue, up, net>>
  BY DEF ClientReceive
<1>2. p \in Hosts /\ p # Server /\ m_Data[p] \in Data /\ down[p] \in Seq(Packets)
  BY HostFacts DEF ListInv, TypeInv
<1>3. Head(down[p]) \in Packets /\ Tail(down[p]) \in Seq(Packets)
  BY <1>1, <1>2, HeadTailProperties
<1>4. Applied(m_Data[p], Head(down[p])) \in Data
  BY <1>2, <1>3, AppliedIs
<1>5. TypeInv'
  BY <1>1, <1>2, <1>3, <1>4 DEF ListInv, TypeInv
<1>6. OriginInv'
  BY <1>1 DEF ListInv, OriginInv
<1>7. NetInv'
  BY <1>1, <1>2, HostFacts DEF ListInv, TypeInv, NetInv
<1> QED
  BY <1>5, <1>6, <1>7 DEF ListInv

\* What the server makes of a packet of a client.
LEMMA ServerReceiveIs ==
    ASSUME NEW p \in Peers, ListInv, ServerReceive(p)
    PROVE  LET op == Head(up[p])
               data == m_Data[Server]
           IN  /\ net = IdleNet /\ op \in PacketsBy(p) /\ op \in Packets /\ data \in Data
               /\ up[p] # <<>> /\ Tail(up[p]) \in Seq(PacketsBy(p)) /\ up[p] \in Seq(Packets)
               /\ up' = [up EXCEPT ![p] = Tail(up[p])]
               /\ m_Data' = [m_Data EXCEPT ![Server] = m_Data'[Server]]
               /\ m_Data'[Server] = IF op.type = "remove" THEN data ELSE Applied(data, op)
               /\ UNCHANGED <<m_UpdateQueue, down, sync>>
               /\ net' = IF op.type = "update" /\ data[op.key] = Absent THEN IdleNet
                         ELSE [stage |-> "dispatch", op |-> op]
<1> DEFINE op == Head(up[p])
           data == m_Data[Server]
<1>1. net = IdleNet /\ up[p] # <<>> /\ up' = [up EXCEPT ![p] = Tail(up[p])]
  BY DEF ServerReceive
<1>2. /\ m_Data' = IF op.type = "remove" THEN m_Data
                   ELSE [m_Data EXCEPT ![Server] = Applied(data, op)]
      /\ net' = IF op.type = "update" /\ data[op.key] = Absent THEN IdleNet
                ELSE [stage |-> "dispatch", op |-> op]
      /\ UNCHANGED <<m_UpdateQueue, down, sync>>
  BY DEF ServerReceive
<1>3. up[p] \in Seq(PacketsBy(p)) /\ up[p] \in Seq(Packets) /\ data \in Data
  BY HostFacts DEF ListInv, TypeInv, OriginInv
<1>4. op \in PacketsBy(p) /\ Tail(up[p]) \in Seq(PacketsBy(p))
  BY <1>1, <1>3, HeadTailProperties
<1>5. op \in Packets
  BY <1>4 DEF PacketsBy
<1> HIDE DEF op
<1>6. /\ m_Data' = [m_Data EXCEPT ![Server] = m_Data'[Server]]
      /\ m_Data'[Server] = IF op.type = "remove" THEN data ELSE Applied(data, op)
  BY <1>2, HostFacts DEF ListInv, TypeInv
<1> QED
  BY <1>1, <1>2, <1>3, <1>4, <1>5, <1>6 DEF op

LEMMA ServerReceiveListInv ==
    ASSUME NEW p \in Peers, ListInv, ServerReceive(p)
    PROVE  ListInv'
<1> DEFINE op == Head(up[p])
           data == m_Data[Server]
<1>1. /\ net = IdleNet /\ op \in PacketsBy(p) /\ op \in Packets /\ data \in Data
      /\ up[p] # <<>> /\ Tail(up[p]) \in Seq(PacketsBy(p)) /\ up[p] \in Seq(Packets)
      /\ up' = [up EXCEPT ![p] = Tail(up[p])]
      /\ m_Data' = [m_Data EXCEPT ![Server] = m_Data'[Server]]
      /\ m_Data'[Server] = IF op.type = "remove" THEN data ELSE Applied(data, op)
      /\ UNCHANGED <<m_UpdateQueue, down, sync>>
      /\ net' = IF op.type = "update" /\ data[op.key] = Absent THEN IdleNet
                ELSE [stage |-> "dispatch", op |-> op]
  BY ServerReceiveIs
<1> HIDE DEF op, data
<1>2. Applied(data, op) \in Data
  BY <1>1, AppliedIs
<1>3. m_Data'[Server] \in Data
  BY <1>1, <1>2
<1>4. Tail(up[p]) \in Seq(Packets)
  BY <1>1, SeqMonotonic DEF PacketsBy
<1>5. m_Data' \in [Hosts -> Data]
  BY <1>1, <1>3 DEF ListInv, TypeInv
<1>6. net' \in NetStates
  BY <1>1 DEF NetStates, IdleNet
<1>7. TypeInv'
  BY <1>1, <1>4, <1>5, <1>6 DEF ListInv, TypeInv
<1>8. OriginInv'
  BY <1>1 DEF ListInv, TypeInv, OriginInv
<1>9. NetInv'
  <2>1. CASE op.type = "update" /\ data[op.key] = Absent
    BY <1>1, <2>1 DEF NetInv, IdleNet
  <2>2. CASE ~(op.type = "update" /\ data[op.key] = Absent)
    <3>1. net' = [stage |-> "dispatch", op |-> op] /\ Writer[op.key] \in Peers
      BY <1>1, <2>2 DEF PacketsBy
    <3>2. op.type # "remove" => m_Data'[Server][op.key] = op.value
      BY <1>1, <2>2, AppliedIs
    <3> QED
      BY <1>1, <3>1, <3>2 DEF NetInv
  <2> QED
    BY <2>1, <2>2
<1> QED
  BY <1>7, <1>8, <1>9 DEF ListInv

\* What the callbacks of a handler do: the relayed packet is the one received.
LEMMA DispatchIs ==
    ASSUME ListInv, Dispatch
    PROVE  LET op == net.op
               data == m_Data[Server]
           IN  /\ net.stage = "dispatch" /\ data \in Data
               /\ op \in Packets /\ op.key \in Keys /\ Writer[op.key] \in Peers
               /\ m_Data' = [m_Data EXCEPT ![Server] = m_Data'[Server]]
               /\ m_Data'[Server] \in Data
               /\ \A k \in Keys : k # op.key => m_Data'[Server][k] = data[k]
               /\ op.type # "remove" => m_Data'[Server] = data /\ data[op.key] = op.value
               /\ m_UpdateQueue' = IF Cardinality(Peers) <= 1 THEN m_UpdateQueue
                      ELSE [m_UpdateQueue EXCEPT ![Server] = Append(@, Entry(op, Owner))]
               /\ net' = IF op.type = "remove" THEN [stage |-> "erase", op |-> op] ELSE IdleNet
               /\ UNCHANGED <<down, up, sync>>
<1> DEFINE op == net.op
           data == m_Data[Server]
           k == op.key
           v == IF data[k] = Absent THEN Default ELSE data[k]
           relayed == Op(op.type, k, IF op.type = "remove" THEN Absent ELSE v)
<1>1. /\ net.stage = "dispatch" /\ data \in Data
      /\ op \in Packets /\ k \in Keys /\ Writer[k] \in Peers
  BY HostFacts DEF Dispatch, ListInv, TypeInv, NetInv, Packets
<1>2. op.type # "remove" => data[k] = op.value
  BY <1>1 DEF ListInv, NetInv
<1>3. v \in Values
  BY <1>1, ListAssumption DEF Data
<1>4. /\ m_Data' = [m_Data EXCEPT ![Server][k] = v]
      /\ m_UpdateQueue' = IF Cardinality(Peers) <= 1 THEN m_UpdateQueue
             ELSE [m_UpdateQueue EXCEPT ![Server] = Append(@, Entry(relayed, Owner))]
      /\ net' = IF op.type = "remove" THEN [stage |-> "erase", op |-> op] ELSE IdleNet
      /\ UNCHANGED <<down, up, sync>>
  BY DEF Dispatch, Filter
<1>5. relayed = op
  <2>1. op.type # "remove" => v = op.value
    BY <1>1, <1>2 DEF Packets
  <2>2. op.type = "remove" => op.value = Absent
    BY <1>1 DEF Packets
  <2>3. op = [type |-> op.type, key |-> op.key, value |-> op.value]
    BY <1>1 DEF Packets
  <2> QED
    BY <2>1, <2>2, <2>3 DEF Op
<1>7. m_Data'[Server] = [data EXCEPT ![k] = v]
  BY <1>4, HostFacts DEF ListInv, TypeInv
<1>8. m_Data' = [m_Data EXCEPT ![Server] = m_Data'[Server]]
  BY <1>4, <1>7, HostFacts DEF ListInv, TypeInv
<1>9. /\ m_Data'[Server] \in Data
      /\ \A j \in Keys : j # k => m_Data'[Server][j] = data[j]
  BY <1>1, <1>3, <1>7 DEF Data
<1>10. op.type # "remove" => m_Data'[Server] = data
  <2>1. op.type # "remove" => v = data[k]
    BY <1>1, <1>2 DEF Packets
  <2> QED
    BY <1>1, <1>7, <2>1 DEF Data
<1> HIDE DEF op, data, v, relayed
<1> QED
  BY <1>1, <1>2, <1>4, <1>5, <1>8, <1>9, <1>10 DEF op, data

LEMMA DispatchListInv == ListInv /\ Dispatch => ListInv'
<1> SUFFICES ASSUME ListInv, Dispatch PROVE ListInv'
  OBVIOUS
<1> DEFINE op == net.op
<1>1. /\ net.stage = "dispatch" /\ op \in Packets /\ Writer[op.key] \in Peers
      /\ m_Data' = [m_Data EXCEPT ![Server] = m_Data'[Server]] /\ m_Data'[Server] \in Data
      /\ m_UpdateQueue' = IF Cardinality(Peers) <= 1 THEN m_UpdateQueue
             ELSE [m_UpdateQueue EXCEPT ![Server] = Append(@, Entry(op, Owner))]
      /\ net' = IF op.type = "remove" THEN [stage |-> "erase", op |-> op] ELSE IdleNet
      /\ UNCHANGED <<down, up, sync>>
  BY DispatchIs
<1> HIDE DEF op
<1>2. Entry(op, Owner) \in ServerEntries
  BY <1>1, HostFacts DEF ServerEntries, Entries, Entry
<1>3. Append(m_UpdateQueue[Server], Entry(op, Owner)) \in Seq(ServerEntries)
  BY <1>2, AppendProperties DEF ListInv, OriginInv
<1>4. Append(m_UpdateQueue[Server], Entry(op, Owner)) \in Seq(Entries)
  BY <1>3, SeqMonotonic DEF ServerEntries
<1>5. m_UpdateQueue' \in [Hosts -> Seq(Entries)]
  BY <1>1, <1>4 DEF ListInv, TypeInv
<1>6. net' \in NetStates
  BY <1>1 DEF NetStates, IdleNet
<1>7. TypeInv'
  BY <1>1, <1>5, <1>6 DEF ListInv, TypeInv
<1>8. OriginInv'
  BY <1>1, <1>3, HostFacts DEF ListInv, TypeInv, OriginInv
<1>9. NetInv'
  <2>1. CASE op.type = "remove"
    BY <1>1, <2>1 DEF NetInv
  <2>2. CASE op.type # "remove"
    BY <1>1, <2>2 DEF NetInv, IdleNet
  <2> QED
    BY <2>1, <2>2
<1> QED
  BY <1>7, <1>8, <1>9 DEF ListInv

LEMMA EraseIs ==
    ASSUME ListInv, Erase
    PROVE  LET op == net.op
               data == m_Data[Server]
           IN  /\ net.stage = "erase" /\ data \in Data /\ op \in Packets
               /\ m_Data' = [m_Data EXCEPT ![Server] = Applied(data, op)]
               /\ m_Data'[Server] = Applied(data, op) /\ Applied(data, op) \in Data
               /\ net' = IdleNet /\ UNCHANGED <<m_UpdateQueue, down, up, sync>>
<1> DEFINE op == net.op
           data == m_Data[Server]
<1>1. /\ net.stage = "erase" /\ data \in Data /\ op \in Packets /\ op.type = "remove"
  BY HostFacts DEF Erase, ListInv, TypeInv, NetInv
<1>2. Applied(data, op) = [data EXCEPT ![op.key] = Absent]
  BY <1>1 DEF Applied
<1>3. /\ m_Data' = [m_Data EXCEPT ![Server][op.key] = Absent]
      /\ net' = IdleNet /\ UNCHANGED <<m_UpdateQueue, down, up, sync>>
  BY DEF Erase
<1>4. m_Data' = [m_Data EXCEPT ![Server] = [data EXCEPT ![op.key] = Absent]]
  BY <1>3
<1>5. Applied(data, op) \in Data
  BY <1>1, AppliedIs
<1>6. m_Data'[Server] = Applied(data, op)
  BY <1>2, <1>4, HostFacts DEF ListInv, TypeInv
<1> HIDE DEF op, data
<1> QED
  BY <1>1, <1>2, <1>3, <1>4, <1>5, <1>6 DEF op, data

LEMMA EraseListInv == ListInv /\ Erase => ListInv'
<1> SUFFICES ASSUME ListInv, Erase PROVE ListInv'
  OBVIOUS
<1>1. /\ m_Data' = [m_Data EXCEPT ![Server] = Applied(m_Data[Server], net.op)]
      /\ Applied(m_Data[Server], net.op) \in Data
      /\ net' = IdleNet /\ UNCHANGED <<m_UpdateQueue, down, up, sync>>
  BY EraseIs
<1>2. TypeInv'
  BY <1>1 DEF ListInv, TypeInv, NetStates, IdleNet
<1>3. OriginInv'
  BY <1>1 DEF ListInv, OriginInv
<1>4. NetInv'
  BY <1>1 DEF NetInv, IdleNet
<1> QED
  BY <1>2, <1>3, <1>4 DEF ListInv

LEMMA NextListInv == ListInv /\ [Next]_vars => ListInv'
<1> SUFFICES ASSUME ListInv, [Next]_vars PROVE ListInv'
  OBVIOUS
<1>1. CASE App
  <2>1. PICK h \in Hosts : \E ops \in Seq(PacketsBy(h)) : Call(h, ops)
    BY <1>1, AppMakes DEF ListInv
  <2>2. PICK ops \in Seq(PacketsBy(h)) : Call(h, ops)
    BY <2>1
  <2> QED
    BY <2>2, CallListInv
<1>2. CASE SendDelta
  BY <1>2, SendDeltaListInv
<1>3. CASE Flush
  BY <1>3, FlushListInv
<1>4. ASSUME NEW p \in Peers, ServerReceive(p) PROVE ListInv'
  BY <1>4, ServerReceiveListInv
<1>5. CASE Dispatch
  BY <1>5, DispatchListInv
<1>6. CASE Erase
  BY <1>6, EraseListInv
<1>7. ASSUME NEW p \in Peers, Client(p) PROVE ListInv'
  BY <1>7, ClientFlushListInv, ClientReceiveListInv DEF Client
<1>8. CASE UNCHANGED vars
  BY <1>8 DEF vars, ListInv, TypeInv, OriginInv, NetInv
<1> QED
  BY <1>1, <1>2, <1>3, <1>4, <1>5, <1>6, <1>7, <1>8 DEF Next, Net

-----------------------------------------------------------------------------
(* No echo.                                                                 *)

\* What a peer may be sent.
PacketsTo(p) == {op \in Packets : Writer[op.key] = p => p # Owner}

EchoInv == \A p \in Peers : down[p] \in Seq(PacketsTo(p))

LEMMA NextEchoInv ==
    ASSUME FirstPeer # Owner, ListInv, EchoInv, [Next]_vars
    PROVE  EchoInv'
<1>1. CASE Flush
  <2>1. down' = [p \in Peers |-> down[p] \o OpsFor(p, m_UpdateQueue[Server])]
    BY <1>1 DEF Flush
  <2>2. ASSUME NEW p \in Peers PROVE down[p] \o OpsFor(p, m_UpdateQueue[Server]) \in Seq(PacketsTo(p))
    <3>1. ASSUME NEW e \in ServerEntries, p \in Targets(e) PROVE e.op \in PacketsTo(p)
      <4>1. SUFFICES ASSUME Writer[e.op.key] = p, p = Owner PROVE FALSE
        BY DEF PacketsTo, ServerEntries, Entries
      <4>2. e.filter = Owner
        BY <4>1, HostFacts DEF ServerEntries
      <4>3. CASE e.peers = {}
        BY <3>1, <4>1, <4>3 DEF Targets
      <4>4. CASE e.peers # {}
        BY <3>1, <4>1, <4>2, <4>4 DEF Targets, ServerEntries
      <4> QED
        BY <4>3, <4>4
    <3>2. m_UpdateQueue[Server] \in Seq(ServerEntries)
      BY DEF ListInv, OriginInv
    <3>3. OpsFor(p, m_UpdateQueue[Server]) \in Seq(PacketsTo(p))
      BY <3>1, <3>2, OpsForType
    <3> QED
      BY <3>3, ConcatProperties DEF EchoInv
  <2> QED
    BY <2>1, <2>2 DEF EchoInv
<1>2. ASSUME NEW p \in Peers, ClientReceive(p) PROVE EchoInv'
  <2>1. down[p] # <<>> /\ down' = [down EXCEPT ![p] = Tail(down[p])]
    BY <1>2 DEF ClientReceive
  <2>2. Tail(down[p]) \in Seq(PacketsTo(p))
    BY <2>1, HeadTailProperties DEF EchoInv
  <2> QED
    BY <2>1, <2>2 DEF EchoInv, ListInv, TypeInv
<1>3. ASSUME UNCHANGED down PROVE EchoInv'
  <2>1. ASSUME NEW p \in Peers PROVE down'[p] \in Seq(PacketsTo(p))
    <3>1. down'[p] = down[p] /\ down[p] \in Seq(PacketsTo(p))
      BY <1>3 DEF EchoInv
    <3> QED
      BY <3>1
  <2> QED
    BY <2>1 DEF EchoInv
<1>4. CASE App
  <2>1. PICK h \in Hosts : \E ops \in Seq(PacketsBy(h)) : Call(h, ops)
    BY <1>4, AppMakes DEF ListInv
  <2>2. UNCHANGED down
    BY <2>1 DEF Call
  <2> QED
    BY <1>3, <2>2
<1>5. CASE SendDelta
  <2>1. UNCHANGED down
    BY <1>5 DEF SendDelta
  <2> QED
    BY <1>3, <2>1
<1>6. CASE Net
  <2>1. UNCHANGED down
    BY <1>6 DEF Net, ServerReceive, Dispatch, Erase
  <2> QED
    BY <1>3, <2>1
<1>7. ASSUME NEW p \in Peers, ClientFlush(p) PROVE EchoInv'
  <2>1. UNCHANGED down
    BY <1>7 DEF ClientFlush
  <2> QED
    BY <1>3, <2>1
<1>8. CASE UNCHANGED vars
  <2>1. UNCHANGED down
    BY <1>8 DEF vars
  <2> QED
    BY <1>3, <2>1
<1> QED
  BY <1>1, <1>2, <1>4, <1>5, <1>6, <1>7, <1>8 DEF Next, Client

\* The owner is not sent what it has written itself: the filter of the dispatch_*
\* calls holds through SendDelta and Flush, for any peers, elements and values, as
\* long as the owner is not the first peer, to which packets without peers go.
THEOREM NoEchoCorrect ==
    ASSUME FirstPeer # Owner
    PROVE  Spec => []NoEcho
<1>1. Init => ListInv
  BY InitListInv
<1>2. Init => EchoInv
  BY EmptySeq DEF Init, EchoInv
<1>3. ListInv /\ [Next]_vars => ListInv'
  BY NextListInv
<1>4. ListInv /\ EchoInv /\ [Next]_vars => EchoInv'
  BY NextEchoInv
<1>5. EchoInv => NoEcho
  <2> SUFFICES ASSUME EchoInv, NEW p \in Peers, NEW i \in 1 .. Len(down[p])
               PROVE  Writer[down[p][i].key] = p => p # Owner
    BY DEF NoEcho
  <2>1. down[p][i] \in PacketsTo(p)
    BY ElementOfSeq DEF EchoInv
  <2> QED
    BY <2>1 DEF PacketsTo
<1> QED
  BY <1>1, <1>2, <1>3, <1>4, <1>5, PTL DEF Spec

-----------------------------------------------------------------------------
(* The server's list, once the handler that is running has ended.           *)

Settled == IF net.stage = "idle" THEN m_Data[Server] ELSE Applied(m_Data[Server], net.op)

LEMMA SettledType ==
    ASSUME ListInv
    PROVE  Settled \in Data
<1>1. m_Data[Server] \in Data
  BY HostFacts DEF ListInv, TypeInv
<1>2. net.stage # "idle" => net.op \in Packets
  BY DEF ListInv, NetInv
<1> QED
  BY <1>1, <1>2, AppliedIs DEF Settled

LEMMA SettledCall ==
    ASSUME ListInv, NEW ops \in Seq(PacketsBy(Server)), Call(Server, ops)
    PROVE  Settled' = Replay(Settled, ops)
<1>1. Server \in Hosts /\ m_Data[Server] \in Data
  BY HostFacts DEF ListInv, TypeInv
<1>2. m_Data'[Server] = Replay(m_Data[Server], ops) /\ net' = net
  <2>1. m_Data' = [m_Data EXCEPT ![Server] = Replay(m_Data[Server], ops)] /\ net' = net
    BY <1>1, CallIs DEF ListInv
  <2> QED
    BY <1>1, <2>1 DEF ListInv, TypeInv
<1>3. CASE net.stage = "idle"
  BY <1>2, <1>3 DEF Settled
<1>4. CASE net.stage # "idle"
  <2>1. net.op \in Packets /\ Writer[net.op.key] \in Peers
    BY <1>4 DEF ListInv, NetInv
  <2>2. PacketsBy(Server) \subseteq Packets /\ \A op \in PacketsBy(Server) : op.key # net.op.key
    BY <2>1, HostFacts DEF PacketsBy
  <2>3. Replay(Applied(m_Data[Server], net.op), ops) = Applied(Replay(m_Data[Server], ops), net.op)
    BY <1>1, <2>1, <2>2, ReplayCommutes
  <2> QED
    BY <1>2, <1>4, <2>3 DEF Settled
<1> QED
  BY <1>3, <1>4

LEMMA SettledReceive ==
    ASSUME ListInv, NEW p \in Peers, ServerReceive(p)
    PROVE  Settled' = Applied(Settled, Head(up[p]))
<1> DEFINE op == Head(up[p])
           data == m_Data[Server]
<1>1. /\ net = IdleNet /\ op \in Packets /\ data \in Data
      /\ m_Data'[Server] = IF op.type = "remove" THEN data ELSE Applied(data, op)
      /\ net' = IF op.type = "update" /\ data[op.key] = Absent THEN IdleNet
                ELSE [stage |-> "dispatch", op |-> op]
  BY ServerReceiveIs
<1>2. Settled = data
  BY <1>1 DEF Settled, IdleNet
<1> HIDE DEF op, data
<1>3. Applied(Applied(data, op), op) = Applied(data, op)
  BY <1>1, AppliedTwice
<1>4. CASE op.type = "update" /\ data[op.key] = Absent
  <2>1. Settled' = m_Data'[Server]
    BY <1>1, <1>4 DEF Settled, IdleNet
  <2> QED
    BY <1>1, <1>2, <1>4, <2>1 DEF op
<1>5. CASE ~(op.type = "update" /\ data[op.key] = Absent)
  <2>1. net' = [stage |-> "dispatch", op |-> op]
    BY <1>1, <1>5
  <2>2. Settled' = Applied(m_Data'[Server], op)
    BY <2>1 DEF Settled
  <2> QED
    BY <1>1, <1>2, <1>3, <2>2 DEF op
<1> QED
  BY <1>4, <1>5

LEMMA SettledDispatch ==
    ASSUME ListInv, Dispatch
    PROVE  Settled' = Settled /\ Settled = Applied(m_Data[Server], net.op)
<1> DEFINE op == net.op
           data == m_Data[Server]
           after == m_Data'[Server]
<1>1. /\ net.stage = "dispatch" /\ data \in Data /\ op \in Packets /\ op.key \in Keys
      /\ after \in Data /\ \A k \in Keys : k # op.key => after[k] = data[k]
      /\ op.type # "remove" => after = data /\ data[op.key] = op.value
      /\ net' = IF op.type = "remove" THEN [stage |-> "erase", op |-> op] ELSE IdleNet
  BY DispatchIs
<1>2. Settled = Applied(data, op)
  BY <1>1 DEF Settled
<1> HIDE DEF op, data, after
<1>3. CASE op.type # "remove"
  <2>1. Applied(data, op) = data
    BY <1>1, <1>3, AppliedAgain
  <2>2. Settled' = after
    BY <1>1, <1>3 DEF Settled, IdleNet, after
  <2> QED
    BY <1>1, <1>2, <1>3, <2>1, <2>2 DEF op, data
<1>4. CASE op.type = "remove"
  <2> DEFINE A == Applied(data, op)
             B == Applied(after, op)
  <2>1. /\ A \in Data /\ \A k \in Keys : k # op.key => A[k] = data[k]
        /\ A[op.key] = op.value
    BY <1>1, <1>4, AppliedIs
  <2>2. /\ B \in Data /\ \A k \in Keys : k # op.key => B[k] = after[k]
        /\ B[op.key] = op.value
    BY <1>1, <1>4, AppliedIs
  <2> HIDE DEF A, B
  <2>3. A = B
    BY <1>1, <2>1, <2>2, DataEqual
  <2>4. net' = [stage |-> "erase", op |-> op]
    BY <1>1, <1>4
  <2>5. Settled' = Applied(after, op)
    BY <2>4 DEF Settled, after
  <2> QED
    BY <1>2, <2>3, <2>5 DEF A, B, op, data
<1> QED
  BY <1>3, <1>4

LEMMA SettledErase ==
    ASSUME ListInv, Erase
    PROVE  Settled' = Settled
<1>1. /\ net.stage = "erase" /\ net' = IdleNet
      /\ m_Data'[Server] = Applied(m_Data[Server], net.op)
  BY EraseIs
<1> QED
  BY <1>1 DEF Settled, IdleNet

LEMMA SettledSame ==
    ASSUME m_Data'[Server] = m_Data[Server], net' = net
    PROVE  Settled' = Settled
BY DEF Settled

-----------------------------------------------------------------------------
(* The first peer.                                                          *)

\* The first peer's list, once it has all that is queued for it.
Coming == Replay(m_Data[FirstPeer], down[FirstPeer] \o Ops(m_UpdateQueue[Server]))

FirstPeerInv == IF net.stage = "dispatch" THEN Applied(Coming, net.op) = Settled
                                          ELSE Coming = Settled

LEMMA ComingType ==
    ASSUME ListInv
    PROVE  /\ m_Data[FirstPeer] \in Data /\ down[FirstPeer] \in Seq(Packets)
           /\ m_UpdateQueue[Server] \in Seq(Entries)
           /\ Ops(m_UpdateQueue[Server]) \in Seq(Packets)
           /\ down[FirstPeer] \o Ops(m_UpdateQueue[Server]) \in Seq(Packets)
           /\ Coming \in Data
<1>1. /\ m_Data[FirstPeer] \in Data /\ down[FirstPeer] \in Seq(Packets)
      /\ m_UpdateQueue[Server] \in Seq(Entries)
  BY HostFacts DEF ListInv, TypeInv
<1>2. \A e \in Entries : e.op \in Packets
  BY DEF Entries
<1>3. Ops(m_UpdateQueue[Server]) \in Seq(Packets)
  BY <1>1, <1>2, OpsIs
<1>4. down[FirstPeer] \o Ops(m_UpdateQueue[Server]) \in Seq(Packets)
  BY <1>1, <1>3, ConcatProperties
<1> QED
  BY <1>1, <1>3, <1>4, ReplayType DEF Coming

\* The invariant is the property, written with one list per side.
LEMMA FirstPeerIs ==
    ASSUME ListInv, FirstPeerInv
    PROVE  FirstPeerInStep
<1> DEFINE sent == down[FirstPeer] \o Ops(m_UpdateQueue[Server])
           data == m_Data[Server]
           mine == m_Data[FirstPeer]
<1>1. sent \in Seq(Packets) /\ data \in Data /\ mine \in Data /\ Coming = Replay(mine, sent)
  BY ComingType, HostFacts DEF ListInv, TypeInv, Coming
<1>2. FirstPeerInStep <=> Replay(mine, sent \o Unqueued) = Replay(data, Unmade \o Unqueued)
  BY DEF FirstPeerInStep
<1> HIDE DEF sent, data, mine
<1>3. net.stage \in {"idle", "dispatch", "erase"}
  BY DEF ListInv, TypeInv, NetStates
<1>4. CASE net.stage = "idle"
  <2>1. Unqueued = <<>> /\ Unmade = <<>> /\ Settled = data
    BY <1>4 DEF Unqueued, Unmade, Settled, data
  <2>2. sent \o <<>> = sent /\ <<>> \o <<>> = <<>>
    BY <1>1, ConcatEmptySeq
  <2> QED
    BY <1>1, <1>2, <1>4, <2>1, <2>2, ReplayEmpty DEF FirstPeerInv
<1>5. CASE net.stage = "dispatch"
  <2>1. Unqueued = <<net.op>> /\ Unmade = <<>> /\ Settled = Applied(data, net.op)
    BY <1>5 DEF Unqueued, Unmade, Settled, data
  <2>2. net.op \in Packets
    BY <1>5 DEF ListInv, NetInv
  <2>3. sent \o <<net.op>> = Append(sent, net.op) /\ <<>> \o <<net.op>> = <<net.op>>
    BY <1>1, <2>2, AppendIsConcat
  <2>4. Replay(mine, Append(sent, net.op)) = Applied(Coming, net.op)
    BY <1>1, <2>2, ReplayAppend
  <2> QED
    BY <1>2, <1>5, <2>1, <2>3, <2>4, ReplayOne DEF FirstPeerInv
<1>6. CASE net.stage = "erase"
  <2>1. Unqueued = <<>> /\ Unmade = <<net.op>> /\ Settled = Applied(data, net.op)
    BY <1>6 DEF Unqueued, Unmade, Settled, data
  <2>2. sent \o <<>> = sent /\ <<net.op>> \o <<>> = <<net.op>>
    BY <1>1, ConcatEmptySeq
  <2> QED
    BY <1>1, <1>2, <1>6, <2>1, <2>2, ReplayOne DEF FirstPeerInv
<1> QED
  BY <1>3, <1>4, <1>5, <1>6

\* More entries in the queue: their packets come after the others.
LEMMA ComingQueued ==
    ASSUME ListInv, NEW more \in Seq(Entries),
           m_UpdateQueue'[Server] = m_UpdateQueue[Server] \o more,
           m_Data'[FirstPeer] = m_Data[FirstPeer], down'[FirstPeer] = down[FirstPeer]
    PROVE  Coming' = Replay(Coming, Ops(more))
<1> DEFINE D == down[FirstPeer]
           Q == Ops(m_UpdateQueue[Server])
           R == Ops(more)
<1>1. \A e \in Entries : e.op \in Packets
  BY DEF Entries
<1>2. D \in Seq(Packets) /\ Q \in Seq(Packets) /\ m_UpdateQueue[Server] \in Seq(Entries)
  BY ComingType
<1>3. R \in Seq(Packets)
  BY <1>1, OpsIs
<1>4. Ops(m_UpdateQueue[Server] \o more) = Q \o R
  BY <1>1, <1>2, OpsConcat
<1>5. Coming' = Replay(m_Data[FirstPeer], D \o (Q \o R))
  BY <1>4 DEF Coming
<1>6. Coming = Replay(m_Data[FirstPeer], D \o Q)
  BY DEF Coming
<1> HIDE DEF D, Q, R
<1>7. (D \o Q) \o R = D \o (Q \o R)
  <2>1. D \in Seq(Packets) /\ Q \in Seq(Packets) /\ R \in Seq(Packets)
    BY <1>2, <1>3
  <2> QED
    BY <2>1, ConcatAssociative, SMTT(30)
<1> DEFINE DQ == D \o Q
<1>8. DQ \in Seq(Packets)
  BY <1>2, ConcatProperties
<1> HIDE DEF DQ
<1>9. Replay(m_Data[FirstPeer], DQ \o R) = Replay(Replay(m_Data[FirstPeer], DQ), R)
  BY <1>3, <1>8, ReplayConcat
<1> QED
  BY <1>5, <1>6, <1>7, <1>9 DEF DQ, R

LEMMA ComingSame ==
    ASSUME m_UpdateQueue'[Server] = m_UpdateQueue[Server],
           m_Data'[FirstPeer] = m_Data[FirstPeer], down'[FirstPeer] = down[FirstPeer]
    PROVE  Coming' = Coming
BY DEF Coming

LEMMA FirstPeerCall ==
    ASSUME ListInv, FirstPeerInv, NEW ops \in Seq(PacketsBy(Server)), Call(Server, ops)
    PROVE  FirstPeerInv'
<1>1. /\ Server \in Hosts /\ FirstPeer \in Hosts /\ FirstPeer # Server
      /\ \A op \in PacketsBy(Server) : Entry(op, NoPeer) \in Entries
  BY HostFacts DEF PacketsBy, Entries, Entry
<1>2. Queued(ops) \in Seq(Entries) /\ Ops(Queued(ops)) = ops
  BY <1>1, QueuedIs
<1>3. /\ m_Data' = [m_Data EXCEPT ![Server] = Replay(m_Data[Server], ops)]
      /\ m_UpdateQueue' = [m_UpdateQueue EXCEPT ![Server] = m_UpdateQueue[Server] \o Queued(ops)]
      /\ down' = down /\ net' = net
  BY <1>1, CallIs DEF ListInv
<1>4. /\ m_UpdateQueue'[Server] = m_UpdateQueue[Server] \o Queued(ops)
      /\ m_Data'[FirstPeer] = m_Data[FirstPeer] /\ down'[FirstPeer] = down[FirstPeer]
  BY <1>1, <1>3 DEF ListInv, TypeInv
<1>5. Coming' = Replay(Coming, ops)
  BY <1>2, <1>4, ComingQueued
<1>6. Settled' = Replay(Settled, ops)
  BY SettledCall
<1>7. CASE net.stage = "dispatch"
  <2>1. net.op \in Packets /\ Writer[net.op.key] \in Peers
    BY <1>7 DEF ListInv, NetInv
  <2>2. PacketsBy(Server) \subseteq Packets /\ \A op \in PacketsBy(Server) : op.key # net.op.key
    BY <2>1, HostFacts DEF PacketsBy
  <2>3. Coming \in Data
    BY ComingType
  <2>4. Replay(Applied(Coming, net.op), ops) = Applied(Replay(Coming, ops), net.op)
    BY <2>1, <2>2, <2>3, ReplayCommutes
  <2> QED
    BY <1>3, <1>5, <1>6, <1>7, <2>4 DEF FirstPeerInv
<1>8. CASE net.stage # "dispatch"
  BY <1>3, <1>5, <1>6, <1>8 DEF FirstPeerInv
<1> QED
  BY <1>7, <1>8

LEMMA FirstPeerSendDelta ==
    ASSUME ListInv, FirstPeerInv, SendDelta
    PROVE  FirstPeerInv'
<1> DEFINE queue == m_UpdateQueue[Server]
           addressed == [i \in DOMAIN queue |-> [queue[i] EXCEPT !.peers = Peers \ {queue[i].filter}]]
<1>1. /\ m_UpdateQueue' = [m_UpdateQueue EXCEPT ![Server] = addressed]
      /\ UNCHANGED <<m_Data, down, net>>
  BY DEF SendDelta
<1>2. queue \in Seq(Entries)
  BY ComingType
<1>3. Len(queue) \in Nat /\ DOMAIN queue = 1 .. Len(queue)
  BY <1>2, LenProperties
<1>4. \A i \in 1 .. Len(queue) : queue[i] \in Entries
  BY <1>2, ElementOfSeq
<1>5. ASSUME NEW e \in Entries
      PROVE  [e EXCEPT !.peers = Peers \ {e.filter}].op = e.op
  BY DEF Entries
<1>6. DOMAIN addressed = DOMAIN queue
  OBVIOUS
<1>7. \A i \in DOMAIN queue : addressed[i].op = queue[i].op
  BY <1>3, <1>4, <1>5
<1> HIDE DEF addressed
<1>8. Ops(addressed) = Ops(queue)
  BY <1>6, <1>7 DEF Ops
<1>9. m_UpdateQueue'[Server] = addressed
  BY <1>1, HostFacts DEF ListInv, TypeInv
<1>10. Coming' = Coming
  BY <1>1, <1>8, <1>9 DEF Coming
<1>11. Settled' = Settled
  BY <1>1, SettledSame
<1> QED
  BY <1>1, <1>10, <1>11 DEF FirstPeerInv

LEMMA FirstPeerFlush ==
    ASSUME FirstPeer # Owner, ListInv, FirstPeerInv, Flush
    PROVE  FirstPeerInv'
<1> DEFINE queue == m_UpdateQueue[Server]
<1>1. /\ down' = [p \in Peers |-> down[p] \o OpsFor(p, queue)]
      /\ m_UpdateQueue' = [m_UpdateQueue EXCEPT ![Server] = <<>>]
      /\ UNCHANGED <<m_Data, net>>
  BY DEF Flush
<1>2. queue \in Seq(ServerEntries)
  BY DEF ListInv, OriginInv
<1>3. ASSUME NEW e \in ServerEntries PROVE FirstPeer \in Targets(e) /\ e.op \in Packets
  <2>1. e.op \in Packets /\ e.filter # FirstPeer
    BY HostFacts, ListAssumption DEF ServerEntries, Entries
  <2>2. CASE e.peers = {}
    BY <2>1, <2>2 DEF Targets
  <2>3. CASE e.peers # {}
    BY <2>1, <2>3, HostFacts DEF Targets, ServerEntries
  <2> QED
    BY <2>1, <2>2, <2>3
<1>4. OpsFor(FirstPeer, queue) = Ops(queue)
  BY <1>2, <1>3, OpsForAll
<1>5. down'[FirstPeer] = down[FirstPeer] \o Ops(queue) /\ m_UpdateQueue'[Server] = <<>>
  BY <1>1, <1>4, HostFacts DEF ListInv, TypeInv
<1>6. Ops(<<>>) = <<>>
  BY DEF Ops
<1>7. down[FirstPeer] \o Ops(queue) \in Seq(Packets)
  BY ComingType
<1>8. (down[FirstPeer] \o Ops(queue)) \o <<>> = down[FirstPeer] \o Ops(queue)
  BY <1>7, ConcatEmptySeq
<1>9. Coming' = Coming
  BY <1>1, <1>5, <1>6, <1>8 DEF Coming
<1>10. Settled' = Settled
  BY <1>1, SettledSame
<1> QED
  BY <1>1, <1>9, <1>10 DEF FirstPeerInv

LEMMA FirstPeerReceive ==
    ASSUME ListInv, FirstPeerInv, NEW p \in Peers, ClientReceive(p)
    PROVE  FirstPeerInv'
<1>1. /\ down[p] # <<>>
      /\ m_Data' = [m_Data EXCEPT ![p] = Applied(m_Data[p], Head(down[p]))]
      /\ down' = [down EXCEPT ![p] = Tail(down[p])]
      /\ UNCHANGED <<m_UpdateQueue, net>>
  BY DEF ClientReceive
<1>2. p \in Hosts /\ p # Server /\ FirstPeer \in Peers /\ FirstPeer \in Hosts
  BY HostFacts
<1>3. m_Data'[Server] = m_Data[Server]
  BY <1>1, <1>2, HostFacts DEF ListInv, TypeInv
<1>4. Settled' = Settled
  BY <1>1, <1>3, SettledSame
<1>5. CASE p = FirstPeer
  <2> DEFINE D == down[FirstPeer]
             Q == Ops(m_UpdateQueue[Server])
             mine == m_Data[FirstPeer]
             after == Applied(mine, Head(D))
  <2>1. D \in Seq(Packets) /\ Q \in Seq(Packets) /\ D # <<>>
    BY <1>1, <1>5, ComingType
  <2>2. Tail(D) \in Seq(Packets)
    BY <2>1, HeadTailProperties
  <2>3. Coming = Replay(mine, D \o Q)
    BY DEF Coming
  <2>4. m_Data'[FirstPeer] = after /\ down'[FirstPeer] = Tail(D)
    BY <1>1, <1>2, <1>5 DEF ListInv, TypeInv
  <2>5. Coming' = Replay(after, Tail(D) \o Q)
    BY <1>1, <2>4 DEF Coming
  <2>6. Replay(mine, D) = Replay(after, Tail(D))
    BY <2>1, ReplayTail
  <2> HIDE DEF D, Q, mine, after
  <2>7. Replay(mine, D \o Q) = Replay(Replay(mine, D), Q)
    BY <2>1, ReplayConcat
  <2>8. Replay(after, Tail(D) \o Q) = Replay(Replay(after, Tail(D)), Q)
    <3> DEFINE T == Tail(D)
    <3>1. T \in Seq(Packets)
      BY <2>2
    <3> HIDE DEF T
    <3>2. Replay(after, T \o Q) = Replay(Replay(after, T), Q)
      BY <2>1, <3>1, ReplayConcat
    <3> QED
      BY <3>2 DEF T
  <2>9. Coming' = Coming
    BY <2>3, <2>5, <2>6, <2>7, <2>8
  <2> QED
    BY <1>1, <1>4, <2>9 DEF FirstPeerInv
<1>6. CASE p # FirstPeer
  <2>1. Coming' = Coming
    BY <1>1, <1>2, <1>6, ComingSame DEF ListInv, TypeInv
  <2> QED
    BY <1>1, <1>4, <2>1 DEF FirstPeerInv
<1> QED
  BY <1>5, <1>6

LEMMA FirstPeerServerReceive ==
    ASSUME ListInv, FirstPeerInv, NEW p \in Peers, ServerReceive(p)
    PROVE  FirstPeerInv'
<1> DEFINE op == Head(up[p])
           data == m_Data[Server]
<1>1. /\ net = IdleNet /\ op \in Packets /\ data \in Data
      /\ m_Data' = [m_Data EXCEPT ![Server] = m_Data'[Server]]
      /\ UNCHANGED <<m_UpdateQueue, down, sync>>
      /\ net' = IF op.type = "update" /\ data[op.key] = Absent THEN IdleNet
                ELSE [stage |-> "dispatch", op |-> op]
  BY ServerReceiveIs
<1>2. Settled' = Applied(Settled, op)
  BY SettledReceive
<1>3. Settled = data /\ Coming = Settled
  BY <1>1 DEF Settled, FirstPeerInv, IdleNet
<1> HIDE DEF op, data
<1>4. m_Data'[FirstPeer] = m_Data[FirstPeer]
  BY <1>1, HostFacts DEF ListInv, TypeInv
<1>5. Coming' = Coming
  BY <1>1, <1>4, ComingSame
<1>6. CASE op.type = "update" /\ data[op.key] = Absent
  <2>1. Applied(data, op) = data
    BY <1>6 DEF Applied
  <2> QED
    BY <1>1, <1>2, <1>3, <1>5, <1>6, <2>1 DEF FirstPeerInv, IdleNet
<1>7. CASE ~(op.type = "update" /\ data[op.key] = Absent)
  <2>1. net' = [stage |-> "dispatch", op |-> op]
    BY <1>1, <1>7
  <2> QED
    BY <1>2, <1>3, <1>5, <2>1 DEF FirstPeerInv
<1> QED
  BY <1>6, <1>7

LEMMA FirstPeerDispatch ==
    ASSUME \A k \in Keys : Writer[k] # FirstPeer, ListInv, FirstPeerInv, Dispatch
    PROVE  FirstPeerInv'
<1> DEFINE op == net.op
<1>1. /\ net.stage = "dispatch" /\ op \in Packets /\ op.key \in Keys /\ Writer[op.key] \in Peers
      /\ m_Data' = [m_Data EXCEPT ![Server] = m_Data'[Server]]
      /\ m_UpdateQueue' = IF Cardinality(Peers) <= 1 THEN m_UpdateQueue
             ELSE [m_UpdateQueue EXCEPT ![Server] = Append(@, Entry(op, Owner))]
      /\ net' = IF op.type = "remove" THEN [stage |-> "erase", op |-> op] ELSE IdleNet
      /\ UNCHANGED <<down, up, sync>>
  BY DispatchIs
<1>2. Settled' = Settled /\ Applied(Coming, op) = Settled
  BY <1>1, SettledDispatch DEF FirstPeerInv
<1> HIDE DEF op
<1>3. Cardinality(Peers) > 1
  <2>1. IsFiniteSet(Peers) /\ FirstPeer \in Peers /\ Writer[op.key] # FirstPeer
    BY <1>1, ListAssumption
  <2>2. Cardinality(Peers) \in Nat
    BY <2>1, FS_CardinalityType
  <2>3. Cardinality(Peers) # 0
    BY <2>1, FS_EmptySet
  <2>4. Cardinality(Peers) # 1
    <3>1. SUFFICES ASSUME Cardinality(Peers) = 1 PROVE FALSE
      OBVIOUS
    <3>2. PICK x : Peers = {x}
      BY <2>1, <3>1, FS_Singleton
    <3> QED
      BY <1>1, <2>1, <3>2
  <2> QED
    BY <2>2, <2>3, <2>4
<1>4. m_UpdateQueue' = [m_UpdateQueue EXCEPT ![Server] = Append(@, Entry(op, Owner))]
  <2>1. ~(Cardinality(Peers) <= 1)
    <3>1. Cardinality(Peers) \in Nat
      BY ListAssumption, FS_CardinalityType
    <3> QED
      BY <1>3, <3>1
  <2> QED
    BY <1>1, <2>1
<1>5. Entry(op, Owner) \in Entries /\ Entry(op, Owner).op = op
  BY <1>1 DEF Entries, Entry
<1> DEFINE more == <<Entry(op, Owner)>>
<1>6. more \in Seq(Entries)
  BY <1>5
<1>7. m_UpdateQueue'[Server] = m_UpdateQueue[Server] \o more
  <2>1. m_UpdateQueue'[Server] = Append(m_UpdateQueue[Server], Entry(op, Owner))
    BY <1>4, HostFacts DEF ListInv, TypeInv
  <2> QED
    BY <1>5, <2>1, ComingType, AppendIsConcat
<1>8. m_Data'[FirstPeer] = m_Data[FirstPeer] /\ down'[FirstPeer] = down[FirstPeer]
  BY <1>1, HostFacts DEF ListInv, TypeInv
<1>9. Ops(more) = <<op>>
  BY <1>5 DEF Ops
<1> HIDE DEF more
<1>10. Coming' = Replay(Coming, Ops(more))
  BY <1>6, <1>7, <1>8, ComingQueued
<1>11. Coming' = Applied(Coming, op)
  BY <1>9, <1>10, ReplayOne
<1>12. net'.stage # "dispatch"
  BY <1>1 DEF IdleNet
<1> QED
  BY <1>2, <1>11, <1>12 DEF FirstPeerInv

LEMMA NextFirstPeerInv ==
    ASSUME FirstPeer # Owner, \A k \in Keys : Writer[k] # FirstPeer,
           ListInv, FirstPeerInv, [Next]_vars
    PROVE  FirstPeerInv'
<1>1. CASE App
  <2>1. PICK h \in Hosts : \E ops \in Seq(PacketsBy(h)) : ops # <<>> /\ Call(h, ops)
    BY <1>1, AppMakes DEF ListInv
  <2>2. PICK ops \in Seq(PacketsBy(h)) : ops # <<>> /\ Call(h, ops)
    BY <2>1
  <2>3. CASE h = Server
    BY <2>2, <2>3, FirstPeerCall
  <2>4. CASE h # Server
    <3>1. h # FirstPeer
      <4>1. Head(ops) \in PacketsBy(h)
        BY <2>2, HeadTailProperties
      <4> QED
        BY <4>1 DEF PacketsBy, Packets
    <3>2. /\ m_Data' = [m_Data EXCEPT ![h] = Replay(m_Data[h], ops)]
          /\ m_UpdateQueue' = [m_UpdateQueue EXCEPT ![h] = m_UpdateQueue[h] \o Queued(ops)]
          /\ down' = down /\ net' = net
      BY <2>2, CallIs DEF ListInv
    <3>3. /\ m_UpdateQueue'[Server] = m_UpdateQueue[Server] /\ m_Data'[Server] = m_Data[Server]
          /\ m_Data'[FirstPeer] = m_Data[FirstPeer] /\ down'[FirstPeer] = down[FirstPeer]
      BY <2>4, <3>1, <3>2, HostFacts DEF ListInv, TypeInv
    <3>4. Coming' = Coming /\ Settled' = Settled
      BY <3>2, <3>3, ComingSame, SettledSame
    <3> QED
      BY <3>2, <3>4 DEF FirstPeerInv
  <2> QED
    BY <2>3, <2>4
<1>2. CASE SendDelta
  BY <1>2, FirstPeerSendDelta
<1>3. CASE Flush
  BY <1>3, FirstPeerFlush
<1>4. ASSUME NEW p \in Peers, ServerReceive(p) PROVE FirstPeerInv'
  BY <1>4, FirstPeerServerReceive
<1>5. CASE Dispatch
  BY <1>5, FirstPeerDispatch
<1>6. CASE Erase
  <2>1. /\ net.stage = "erase" /\ net' = IdleNet /\ UNCHANGED <<m_UpdateQueue, down>>
        /\ m_Data' = [m_Data EXCEPT ![Server] = Applied(m_Data[Server], net.op)]
    BY <1>6, EraseIs
  <2>2. m_Data'[FirstPeer] = m_Data[FirstPeer]
    BY <2>1, HostFacts DEF ListInv, TypeInv
  <2>3. Coming' = Coming /\ Settled' = Settled
    BY <1>6, <2>1, <2>2, ComingSame, SettledErase
  <2> QED
    BY <2>1, <2>3 DEF FirstPeerInv, IdleNet
<1>7. ASSUME NEW p \in Peers, ClientReceive(p) PROVE FirstPeerInv'
  BY <1>7, FirstPeerReceive
<1>8. ASSUME NEW p \in Peers, ClientFlush(p) PROVE FirstPeerInv'
  <2>1. /\ m_UpdateQueue' = [m_UpdateQueue EXCEPT ![p] = <<>>]
        /\ UNCHANGED <<m_Data, down, net>>
    BY <1>8 DEF ClientFlush
  <2>2. m_UpdateQueue'[Server] = m_UpdateQueue[Server]
    BY <2>1, HostFacts DEF ListInv, TypeInv
  <2>3. Coming' = Coming /\ Settled' = Settled
    BY <2>1, <2>2, ComingSame, SettledSame
  <2> QED
    BY <2>1, <2>3 DEF FirstPeerInv
<1>9. CASE UNCHANGED vars
  BY <1>9 DEF vars, FirstPeerInv, Coming, Settled
<1> QED
  BY <1>1, <1>2, <1>3, <1>4, <1>5, <1>6, <1>7, <1>8, <1>9 DEF Next, Net, Client

\* The first peer misses nothing that the server's list goes through, for any peers,
\* elements, values and number of calls, whatever the three threads of the server do
\* between SendDelta and Flush and between a handler's steps.  The first peer writes
\* nothing itself, and is not the owner, whom Dispatch leaves out.
THEOREM FirstPeerCorrect ==
    ASSUME FirstPeer # Owner, \A k \in Keys : Writer[k] # FirstPeer
    PROVE  Spec => []FirstPeerInStep
<1>1. Init => ListInv
  BY InitListInv
<1>2. Init => FirstPeerInv
  <2> SUFFICES ASSUME Init PROVE FirstPeerInv
    OBVIOUS
  <2>1. /\ down[FirstPeer] = <<>> /\ m_UpdateQueue[Server] = <<>>
        /\ m_Data[FirstPeer] = m_Data[Server] /\ net = IdleNet
    BY HostFacts DEF Init
  <2>2. Ops(<<>>) = <<>> /\ <<>> \o <<>> = <<>>
    BY DEF Ops
  <2>3. Coming = m_Data[FirstPeer]
    BY <2>1, <2>2, ReplayEmpty DEF Coming
  <2> QED
    BY <2>1, <2>3 DEF FirstPeerInv, Settled, IdleNet
<1>3. ListInv /\ [Next]_vars => ListInv'
  BY NextListInv
<1>4. ListInv /\ FirstPeerInv /\ [Next]_vars => FirstPeerInv'
  BY NextFirstPeerInv
<1>5. ListInv /\ FirstPeerInv => FirstPeerInStep
  BY FirstPeerIs
<1> QED
  BY <1>1, <1>2, <1>3, <1>4, <1>5, PTL DEF Spec

-----------------------------------------------------------------------------
(* The server and its clients.                                              *)

\* What a client has queued and sent.
Leaving(p) == up[p] \o Ops(m_UpdateQueue[p])

ServerInv ==
    \A p \in Peers, k \in Keys : Writer[k] = p => Replay(Settled, Leaving(p))[k] = m_Data[p][k]

LEMMA LeavingType ==
    ASSUME ListInv, NEW p \in Peers
    PROVE  /\ up[p] \in Seq(Packets) /\ Ops(m_UpdateQueue[p]) \in Seq(Packets)
           /\ m_UpdateQueue[p] \in Seq(Entries) /\ m_Data[p] \in Data /\ p \in Hosts
           /\ Leaving(p) \in Seq(Packets)
<1>1. /\ up[p] \in Seq(Packets) /\ m_UpdateQueue[p] \in Seq(Entries) /\ m_Data[p] \in Data
      /\ p \in Hosts
  BY HostFacts DEF ListInv, TypeInv
<1>2. \A e \in Entries : e.op \in Packets
  BY DEF Entries
<1>3. Ops(m_UpdateQueue[p]) \in Seq(Packets)
  BY <1>1, <1>2, OpsIs
<1> QED
  BY <1>1, <1>3, ConcatProperties DEF Leaving

\* The invariant is the property, with the handler's packet applied.
LEMMA ServerIs ==
    ASSUME ListInv, ServerInv
    PROVE  ServerInStep
<1> SUFFICES ASSUME NEW p \in Peers, NEW k \in Keys, Writer[k] = p
             PROVE  Replay(m_Data[Server], Unqueued \o Unmade \o up[p] \o Ops(m_UpdateQueue[p]))[k]
                        = m_Data[p][k]
  BY DEF ServerInStep
<1> DEFINE data == m_Data[Server]
           running == Unqueued \o Unmade
           A == up[p]
           B == Ops(m_UpdateQueue[p])
<1>1. A \in Seq(Packets) /\ B \in Seq(Packets) /\ Leaving(p) = A \o B
  BY LeavingType DEF Leaving
<1>2. Replay(Settled, Leaving(p))[k] = m_Data[p][k]
  BY DEF ServerInv
<1>3. running \in Seq(Packets) /\ Replay(data, running) = Settled
  <2>1. net.stage \in {"idle", "dispatch", "erase"}
    BY DEF ListInv, TypeInv, NetStates
  <2>2. CASE net.stage = "idle"
    <3>1. running = <<>> /\ Settled = data
      BY <2>2 DEF Unqueued, Unmade, Settled
    <3> HIDE DEF running
    <3> QED
      BY <3>1, ReplayEmpty, EmptySeq
  <2>3. CASE net.stage # "idle"
    <3>1. running = <<net.op>>
      <4>1. CASE net.stage = "dispatch"
        <5>1. Unqueued = <<net.op>> /\ Unmade = <<>>
          BY <4>1 DEF Unqueued, Unmade
        <5> QED
          BY <5>1
      <4>2. CASE net.stage = "erase"
        <5>1. Unqueued = <<>> /\ Unmade = <<net.op>>
          BY <4>2 DEF Unqueued, Unmade
        <5> QED
          BY <5>1
      <4> QED
        BY <2>1, <2>3, <4>1, <4>2
    <3>2. net.op \in Packets /\ Settled = Applied(data, net.op)
      BY <2>3 DEF ListInv, NetInv, Settled
    <3> HIDE DEF running
    <3> QED
      BY <3>1, <3>2, ReplayOne
  <2> QED
    BY <2>2, <2>3
<1> HIDE DEF data, running, A, B
<1>4. (running \o A) \o B = running \o (A \o B)
  <2>1. running \in Seq(Packets) /\ A \in Seq(Packets) /\ B \in Seq(Packets)
    BY <1>1, <1>3
  <2> QED
    BY <2>1, ConcatAssociative, SMTT(30)
<1> DEFINE AB == A \o B
<1>5. AB \in Seq(Packets)
  BY <1>1, ConcatProperties
<1> HIDE DEF AB
<1>6. Replay(data, running \o AB) = Replay(Replay(data, running), AB)
  BY <1>3, <1>5, ReplayConcat
<1>7. Replay(data, running \o AB) = Replay(Settled, Leaving(p))
  BY <1>1, <1>3, <1>6 DEF AB
<1>8. (Unqueued \o Unmade \o up[p]) \o Ops(m_UpdateQueue[p]) = running \o AB
  BY <1>4 DEF running, A, B, AB
<1> QED
  BY <1>2, <1>7, <1>8 DEF data

LEMMA ServerCall ==
    ASSUME ListInv, ServerInv, NEW h \in Hosts, NEW ops \in Seq(PacketsBy(h)), Call(h, ops)
    PROVE  ServerInv'
<1>1. /\ ops \in Seq(Packets)
      /\ m_Data' = [m_Data EXCEPT ![h] = Replay(m_Data[h], ops)]
      /\ m_UpdateQueue' = [m_UpdateQueue EXCEPT ![h] = m_UpdateQueue[h] \o Queued(ops)]
      /\ up' = up /\ net' = net
  BY CallIs DEF ListInv
<1> SUFFICES ASSUME NEW p \in Peers, NEW k \in Keys, Writer[k] = p
             PROVE  Replay(Settled', Leaving(p)')[k] = m_Data'[p][k]
  BY DEF ServerInv
<1>2. Replay(Settled, Leaving(p))[k] = m_Data[p][k]
  BY DEF ServerInv
<1>3. p \in Hosts /\ p # Server /\ Server \in Hosts
  BY HostFacts
<1>4. Settled \in Data /\ Leaving(p) \in Seq(Packets)
  BY SettledType, LeavingType
<1>5. CASE h = Server
  <2>1. m_Data'[p] = m_Data[p] /\ m_UpdateQueue'[p] = m_UpdateQueue[p]
    BY <1>1, <1>3, <1>5 DEF ListInv, TypeInv
  <2>2. Leaving(p)' = Leaving(p)
    BY <1>1, <2>1 DEF Leaving
  <2>3. Settled' = Replay(Settled, ops)
    BY <1>5, SettledCall
  <2>4. PacketsBy(h) \subseteq Packets /\ \A op \in PacketsBy(h) : op.key # k
    BY <1>3, <1>5 DEF PacketsBy
  <2>5. Replay(Settled, ops)[k] = Settled[k]
    BY <1>4, <2>4, ReplayOthers
  <2>6. Replay(Settled, ops) \in Data
    BY <1>1, <1>4, ReplayType
  <2>7. Replay(Replay(Settled, ops), Leaving(p))[k] = Replay(Settled, Leaving(p))[k]
    BY <1>4, <2>5, <2>6, ReplayLocal
  <2> QED
    BY <1>2, <2>1, <2>2, <2>3, <2>7
<1>6. CASE h # Server
  <2>1. m_Data'[Server] = m_Data[Server]
    BY <1>1, <1>3, <1>6 DEF ListInv, TypeInv
  <2>2. Settled' = Settled
    BY <1>1, <2>1, SettledSame
  <2>3. CASE h = p
    <3> DEFINE A == up[p]
               B == Ops(m_UpdateQueue[p])
               before == Replay(Settled, Leaving(p))
    <3>1. \A op \in PacketsBy(h) : Entry(op, NoPeer) \in Entries
      BY DEF PacketsBy, Entries, Entry
    <3>2. Queued(ops) \in Seq(Entries) /\ Ops(Queued(ops)) = ops
      BY <3>1, QueuedIs
    <3>3. m_UpdateQueue'[p] = m_UpdateQueue[p] \o Queued(ops) /\ m_Data'[p] = Replay(m_Data[p], ops)
      BY <1>1, <1>3, <2>3 DEF ListInv, TypeInv
    <3>4. \A e \in Entries : e.op \in Packets
      BY DEF Entries
    <3>5. A \in Seq(Packets) /\ B \in Seq(Packets) /\ m_UpdateQueue[p] \in Seq(Entries)
          /\ m_Data[p] \in Data
      BY LeavingType
    <3>6. Ops(m_UpdateQueue[p] \o Queued(ops)) = B \o ops
      BY <3>2, <3>4, <3>5, OpsConcat
    <3>7. Leaving(p)' = A \o (B \o ops) /\ Leaving(p) = A \o B
      BY <1>1, <3>3, <3>6 DEF Leaving
    <3> HIDE DEF A, B
    <3>8. (A \o B) \o ops = A \o (B \o ops)
      <4>1. A \in Seq(Packets) /\ B \in Seq(Packets) /\ ops \in Seq(Packets)
        BY <1>1, <3>5
      <4> QED
        BY <4>1, ConcatAssociative, SMTT(30)
    <3>9. Leaving(p)' = Leaving(p) \o ops
      BY <3>7, <3>8
    <3>10. Replay(Settled, Leaving(p) \o ops) = Replay(before, ops)
      BY <1>1, <1>4, ReplayConcat
    <3>11. before \in Data /\ before[k] = m_Data[p][k]
      BY <1>2, <1>4, ReplayType
    <3> HIDE DEF before
    <3>12. Replay(before, ops)[k] = Replay(m_Data[p], ops)[k]
      BY <1>1, <3>5, <3>11, ReplayLocal
    <3> QED
      BY <2>2, <3>3, <3>9, <3>10, <3>12
  <2>4. CASE h # p
    <3>1. m_Data'[p] = m_Data[p] /\ m_UpdateQueue'[p] = m_UpdateQueue[p]
      BY <1>1, <1>3, <2>4 DEF ListInv, TypeInv
    <3>2. Leaving(p)' = Leaving(p)
      BY <1>1, <3>1 DEF Leaving
    <3> QED
      BY <1>2, <2>2, <3>1, <3>2
  <2> QED
    BY <2>3, <2>4
<1> QED
  BY <1>5, <1>6

\* The first packet of a client reaches the server: nothing is lost on the way.
LEMMA ServerServerReceive ==
    ASSUME \A k \in Keys : Writer[k] \in {Owner, Server},
           ListInv, ServerInv, NEW q \in Peers, ServerReceive(q)
    PROVE  ServerInv'
<1>1. /\ Head(up[q]) \in PacketsBy(q) /\ up[q] # <<>> /\ up[q] \in Seq(Packets)
      /\ up' = [up EXCEPT ![q] = Tail(up[q])]
      /\ m_Data' = [m_Data EXCEPT ![Server] = m_Data'[Server]]
      /\ m_UpdateQueue' = m_UpdateQueue
  BY ServerReceiveIs
<1>2. Settled' = Applied(Settled, Head(up[q]))
  BY SettledReceive
<1>3. q = Owner
  BY <1>1, HostFacts DEF PacketsBy, Packets
<1> SUFFICES ASSUME NEW p \in Peers, NEW k \in Keys, Writer[k] = p
             PROVE  Replay(Settled', Leaving(p)')[k] = m_Data'[p][k]
  BY DEF ServerInv
<1>4. p = q
  BY <1>3, HostFacts
<1>5. Replay(Settled, Leaving(p))[k] = m_Data[p][k]
  BY DEF ServerInv
<1>6. m_Data'[p] = m_Data[p]
  BY <1>1, HostFacts DEF ListInv, TypeInv
<1> DEFINE A == up[p]
           T == Tail(A)
           B == Ops(m_UpdateQueue[p])
           after == Applied(Settled, Head(A))
<1>7. A \in Seq(Packets) /\ B \in Seq(Packets) /\ A # <<>>
  BY <1>1, <1>4, LeavingType
<1>8. T \in Seq(Packets)
  BY <1>7, HeadTailProperties
<1>9. Leaving(p) = A \o B /\ Leaving(p)' = T \o B /\ Settled' = after
  BY <1>1, <1>2, <1>4 DEF Leaving, ListInv, TypeInv
<1>10. Replay(Settled, A) = Replay(after, T)
  BY <1>7, ReplayTail
<1> HIDE DEF A, T, B, after
<1>11. Replay(Settled, A \o B) = Replay(Replay(Settled, A), B)
  BY <1>7, ReplayConcat
<1>12. Replay(after, T \o B) = Replay(Replay(after, T), B)
  BY <1>7, <1>8, ReplayConcat
<1> QED
  BY <1>5, <1>6, <1>9, <1>10, <1>11, <1>12

\* A client's own elements are not touched by what the server sends it.
LEMMA ServerClientReceive ==
    ASSUME \A k \in Keys : Writer[k] \in {Owner, Server},
           ListInv, EchoInv, ServerInv, NEW q \in Peers, ClientReceive(q)
    PROVE  ServerInv'
<1>1. /\ down[q] # <<>>
      /\ m_Data' = [m_Data EXCEPT ![q] = Applied(m_Data[q], Head(down[q]))]
      /\ UNCHANGED <<m_UpdateQueue, up, net>>
  BY DEF ClientReceive
<1>2. q \in Hosts /\ q # Server /\ m_Data[q] \in Data
  BY HostFacts DEF ListInv, TypeInv
<1>3. m_Data'[Server] = m_Data[Server]
  BY <1>1, <1>2, HostFacts DEF ListInv, TypeInv
<1>4. Settled' = Settled
  BY <1>1, <1>3, SettledSame
<1> SUFFICES ASSUME NEW p \in Peers, NEW k \in Keys, Writer[k] = p
             PROVE  Replay(Settled', Leaving(p)')[k] = m_Data'[p][k]
  BY DEF ServerInv
<1>5. Replay(Settled, Leaving(p))[k] = m_Data[p][k] /\ Leaving(p)' = Leaving(p) /\ p = Owner
  BY <1>1, HostFacts DEF ServerInv, Leaving
<1>6. m_Data'[p][k] = m_Data[p][k]
  <2>1. CASE p = q
    <3>1. Head(down[q]) \in PacketsTo(q)
      BY <1>1, HeadTailProperties DEF EchoInv
    <3>2. Head(down[q]) \in Packets /\ Head(down[q]).key # k
      BY <1>5, <2>1, <3>1 DEF PacketsTo
    <3>3. Applied(m_Data[q], Head(down[q]))[k] = m_Data[q][k]
      BY <1>2, <3>2, AppliedIs
    <3> QED
      BY <1>1, <1>2, <2>1, <3>3 DEF ListInv, TypeInv
  <2>2. CASE p # q
    BY <1>1, <2>2 DEF ListInv, TypeInv
  <2> QED
    BY <2>1, <2>2
<1> QED
  BY <1>4, <1>5, <1>6

LEMMA ServerClientFlush ==
    ASSUME ListInv, ServerInv, NEW q \in Peers, ClientFlush(q)
    PROVE  ServerInv'
<1>1. /\ up' = [up EXCEPT ![q] = up[q] \o Ops(m_UpdateQueue[q])]
      /\ m_UpdateQueue' = [m_UpdateQueue EXCEPT ![q] = <<>>]
      /\ UNCHANGED <<m_Data, net>>
  BY DEF ClientFlush, Uplinked
<1>2. Settled' = Settled
  BY <1>1, SettledSame
<1>3. ASSUME NEW p \in Peers PROVE Leaving(p)' = Leaving(p)
  <2>1. CASE p = q
    <3>1. up'[p] = Leaving(p) /\ m_UpdateQueue'[p] = <<>>
      BY <1>1, <2>1, HostFacts DEF Leaving, ListInv, TypeInv
    <3>2. Leaving(p) \o Ops(<<>>) = Leaving(p)
      <4>1. Ops(<<>>) = <<>>
        BY DEF Ops
      <4>2. Leaving(p) \in Seq(Packets)
        BY LeavingType
      <4> QED
        BY <4>1, <4>2, ConcatEmptySeq
    <3>3. Leaving(p)' = up'[p] \o Ops(m_UpdateQueue'[p])
      BY DEF Leaving
    <3> QED
      BY <3>1, <3>2, <3>3
  <2>2. CASE p # q
    BY <1>1, <2>2, HostFacts DEF Leaving, ListInv, TypeInv
  <2> QED
    BY <2>1, <2>2
<1> QED
  BY <1>1, <1>2, <1>3 DEF ServerInv

\* A step that leaves the clients' queues and lists alone.
LEMMA ServerSame ==
    ASSUME ServerInv, Settled' = Settled, up' = up,
           \A p \in Peers : m_UpdateQueue'[p] = m_UpdateQueue[p] /\ m_Data'[p] = m_Data[p]
    PROVE  ServerInv'
<1>1. \A p \in Peers : Leaving(p)' = Leaving(p)
  BY DEF Leaving
<1> QED
  BY <1>1 DEF ServerInv

LEMMA NextServerInv ==
    ASSUME \A k \in Keys : Writer[k] \in {Owner, Server},
           ListInv, EchoInv, ServerInv, [Next]_vars
    PROVE  ServerInv'
<1>1. CASE App
  <2>1. PICK h \in Hosts : \E ops \in Seq(PacketsBy(h)) : Call(h, ops)
    BY <1>1, AppMakes DEF ListInv
  <2>2. PICK ops \in Seq(PacketsBy(h)) : Call(h, ops)
    BY <2>1
  <2> QED
    BY <2>2, ServerCall
<1>2. CASE SendDelta \/ Flush
  <2>1. /\ \A p \in Peers : m_UpdateQueue'[p] = m_UpdateQueue[p]
        /\ UNCHANGED <<m_Data, up, net>>
    BY <1>2, HostFacts DEF SendDelta, Flush, ListInv, TypeInv
  <2>2. Settled' = Settled
    BY <2>1, SettledSame
  <2> QED
    BY <2>1, <2>2, ServerSame
<1>3. ASSUME NEW p \in Peers, ServerReceive(p) PROVE ServerInv'
  BY <1>3, ServerServerReceive
<1>4. CASE Dispatch
  <2>1. /\ m_Data' = [m_Data EXCEPT ![Server] = m_Data'[Server]]
        /\ m_UpdateQueue' = IF Cardinality(Peers) <= 1 THEN m_UpdateQueue
               ELSE [m_UpdateQueue EXCEPT ![Server] = Append(@, Entry(net.op, Owner))]
        /\ up' = up
    BY <1>4, DispatchIs
  <2>2. \A p \in Peers : m_UpdateQueue'[p] = m_UpdateQueue[p] /\ m_Data'[p] = m_Data[p]
    BY <2>1, HostFacts DEF ListInv, TypeInv
  <2>3. Settled' = Settled
    BY <1>4, SettledDispatch
  <2> QED
    BY <2>1, <2>2, <2>3, ServerSame
<1>5. CASE Erase
  <2>1. /\ m_Data' = [m_Data EXCEPT ![Server] = Applied(m_Data[Server], net.op)]
        /\ m_UpdateQueue' = m_UpdateQueue /\ up' = up
    BY <1>5, EraseIs
  <2>2. \A p \in Peers : m_UpdateQueue'[p] = m_UpdateQueue[p] /\ m_Data'[p] = m_Data[p]
    BY <2>1, HostFacts DEF ListInv, TypeInv
  <2>3. Settled' = Settled
    BY <1>5, SettledErase
  <2> QED
    BY <2>1, <2>2, <2>3, ServerSame
<1>6. ASSUME NEW p \in Peers, ClientFlush(p) PROVE ServerInv'
  BY <1>6, ServerClientFlush
<1>7. ASSUME NEW p \in Peers, ClientReceive(p) PROVE ServerInv'
  BY <1>7, ServerClientReceive
<1>8. CASE UNCHANGED vars
  BY <1>8 DEF vars, ServerInv, Settled, Leaving
<1> QED
  BY <1>1, <1>2, <1>3, <1>4, <1>5, <1>6, <1>7, <1>8 DEF Next, Net, Client

\* The server misses nothing of the owner's own elements, for any peers, elements,
\* values and number of calls: what the owner has queued and sent turns the server's
\* copy into the owner's, although the server's application, its handlers and its
\* sync thread interleave.  Only the owner and the server write, and the owner is not
\* the first peer: any other client is sent its own changes again.
THEOREM ServerCorrect ==
    ASSUME FirstPeer # Owner, \A k \in Keys : Writer[k] \in {Owner, Server}
    PROVE  Spec => []ServerInStep
<1>1. Init => ListInv
  BY InitListInv
<1>2. Init => EchoInv
  BY EmptySeq DEF Init, EchoInv
<1>3. Init => ServerInv
  <2> SUFFICES ASSUME Init, NEW p \in Peers, NEW k \in Keys
               PROVE  Replay(Settled, Leaving(p))[k] = m_Data[p][k]
    BY DEF ServerInv
  <2>1. /\ up[p] = <<>> /\ m_UpdateQueue[p] = <<>> /\ m_Data[p] = m_Data[Server]
        /\ net = IdleNet
    BY HostFacts DEF Init
  <2>2. Ops(<<>>) = <<>> /\ <<>> \o <<>> = <<>>
    BY DEF Ops
  <2>3. Leaving(p) = <<>> /\ Settled = m_Data[Server]
    BY <2>1, <2>2 DEF Leaving, Settled, IdleNet
  <2> QED
    BY <2>1, <2>3, ReplayEmpty
<1>4. ListInv /\ [Next]_vars => ListInv'
  BY NextListInv
<1>5. ListInv /\ EchoInv /\ [Next]_vars => EchoInv'
  BY NextEchoInv
<1>6. ListInv /\ EchoInv /\ ServerInv /\ [Next]_vars => ServerInv'
  BY NextServerInv
<1>7. ListInv /\ ServerInv => ServerInStep
  BY ServerIs
<1> QED
  BY <1>1, <1>2, <1>3, <1>4, <1>5, <1>6, <1>7, PTL DEF Spec
=============================================================================
