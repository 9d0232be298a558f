-------------------------- MODULE NetThreadsProofs --------------------------
(***************************************************************************)
(* Theorems of NetThreads: the types, who waits for whom, and who is       *)
(* inside ENet, for any managers, any uses of a list and any number of     *)
(* calls.                                                                  *)
(***************************************************************************)
EXTENDS NetThreads, SequenceTheorems, InductionLemmas, TLAPS

-----------------------------------------------------------------------------
(* The locks a thread has, and the scripts that leave it with none.         *)

Ops == {"lock", "unlock", "unless", "maybe", "enet", "connect", "read", "increment",
        "event", "shutting", "clear", "terminate", "null", "stopped", "host", "shut", "wait"}
Steps == [op : Ops, on : Locks \cup Workers \cup {"", "s_TotalEntities"}, skip : Nat]

\* How often a thread has locked each lock.
Depths == [Locks -> Nat]
None == [l \in Locks |-> 0]
HeldBy(t) == [l \in Locks |-> IF held[l].owner = t THEN held[l].depth ELSE 0]
Plus(H, l) == [H EXCEPT ![l] = H[l] + 1]
Minus(H, l) == [H EXCEPT ![l] = H[l] - 1]

\* What decides on which steps a thread may be: the workers are in scripts only while
\* the system runs, the application also before Start and after Destroy.
Mode(t) == IF t # "app" THEN "up"
           ELSE IF phase = "up" /\ late THEN "late" ELSE phase
Who(t) == [thread |-> t, lists |-> lists, mode |-> Mode(t)]
Running == {"up", "late"}

OwnedBuilders == {b.thread : b \in {x \in Builds : x.owned}}
HasManager(H) == \E m \in ManagerSet : H[m] > 0

\* Who may wait for lock l with the locks H: nobody inside ENet or the message queue; for
\* a second manager only a Build with an owner; for a manager with a list only
\* invalidate_ents, and for a list with a manager only NetworkUpdate.
MayWait(w, l, H) ==
    /\ l \in Locks /\ H["m_ENET_RW"] = 0 /\ H["m_MessagesMutex"] = 0
    /\ l = "m_ENET_RW" => w.mode \in Running
    /\ l \in ManagerSet /\ HasManager(H) => w.thread \in OwnedBuilders
    /\ l \in ManagerSet /\ H["m_Mutex"] > 0 => "invalidate_ents" \in w.lists
    /\ l = "m_Mutex" /\ HasManager(H) => "NetworkUpdate" \in w.lists

\* Who may be at step e with the locks H.
May(w, e, H) ==
    \/ e.op = "lock" /\ MayWait(w, e.on, H)
    \/ e.op = "unlock" /\ e.on \in Locks /\ H[e.on] > 0
    \/ e.op = "enet" /\ H["m_ENET_RW"] > 0 /\ w.mode \in Running
    \/ e.op = "connect" /\ w.thread = "app" /\ w.mode \in {"new", "late"}
    \/ e.op \in {"read", "increment", "unless", "maybe"}
    \/ e.op = "event" /\ H = None

\* The locks after step e; whether the next step can follow; whether some can be left out.
After(e, H) == IF e.op = "lock" THEN Plus(H, e.on)
               ELSE IF e.op = "unlock" THEN Minus(H, e.on) ELSE H
Goes(w, e) == e.op = "unless" => w.mode \in Running
Skips(e) == e.op \in {"unless", "maybe"}

\* The suffix of s from its k-th element on.
From(s, k) == SubSeq(s, k, Len(s))

\* Locks and scripts from which a thread ends with no lock, doing only what it may:
\* Z is closed under the steps of w.
Closed(w, Z) ==
    \A H \in Depths, s \in Seq(Steps) : <<H, s>> \in Z =>
        IF s = <<>> THEN H = None
        ELSE /\ May(w, Head(s), H)
             /\ Goes(w, Head(s)) => <<After(Head(s), H), Tail(s)>> \in Z
             /\ Skips(Head(s)) => <<H, SubSeq(s, Head(s).skip + 2, Len(s))>> \in Z

\* w can do s with the locks H, and has none at the end.
Safe(w, H, s) ==
    \E Z \in SUBSET (Depths \X Seq(Steps)) : Closed(w, Z) /\ <<H, s>> \in Z

(* Suffixes.                                                                *)

\* The suffixes of a sequence: their elements, their tails and their suffixes.
LEMMA FromFacts ==
    ASSUME NEW S, NEW s \in Seq(S), NEW k \in 1 .. Len(s) + 1
    PROVE  /\ From(s, k) \in Seq(S)
           /\ Len(From(s, k)) = Len(s) - k + 1
           /\ \A i \in 1 .. Len(s) - k + 1 : From(s, k)[i] = s[k + i - 1]
<1>1. Len(s) \in Nat /\ \A i \in 1 .. Len(s) : s[i] \in S
  BY ElementOfSeq, LenProperties
<1>2. \A i \in k .. Len(s) : s[i] \in S
  BY <1>1
<1> QED
  BY <1>1, <1>2, SubSeqProperties DEF From

LEMMA FromHead ==
    ASSUME NEW S, NEW s \in Seq(S), NEW k \in 1 .. Len(s)
    PROVE  /\ From(s, k) # <<>>
           /\ Head(From(s, k)) = s[k]
           /\ Tail(From(s, k)) = From(s, k + 1)
<1>1. Len(s) \in Nat /\ k \in 1 .. Len(s) + 1 /\ k + 1 \in 1 .. Len(s) + 1
  BY LenProperties
<1> DEFINE f == From(s, k)
           g == From(s, k + 1)
<1>2. /\ f \in Seq(S) /\ Len(f) = Len(s) - k + 1
      /\ \A i \in 1 .. Len(s) - k + 1 : f[i] = s[k + i - 1]
  BY <1>1, FromFacts
<1>3. /\ g \in Seq(S) /\ Len(g) = Len(s) - (k + 1) + 1
      /\ \A i \in 1 .. Len(s) - (k + 1) + 1 : g[i] = s[(k + 1) + i - 1]
  BY <1>1, FromFacts
<1> HIDE DEF f, g
<1>4. f # <<>> /\ Head(f) = f[1] /\ f[1] = s[k]
  BY <1>1, <1>2, EmptySeq
<1>5. /\ Tail(f) \in Seq(S) /\ Len(Tail(f)) = Len(f) - 1
      /\ \A i \in 1 .. Len(Tail(f)) : Tail(f)[i] = f[i + 1]
  BY <1>2, <1>4, HeadTailProperties
<1>6. Len(Tail(f)) = Len(g)
  BY <1>1, <1>2, <1>3, <1>5
<1>7. ASSUME NEW i \in 1 .. Len(g) PROVE Tail(f)[i] = g[i]
  <2>1. i + 1 \in 1 .. Len(s) - k + 1 /\ i \in 1 .. Len(s) - (k + 1) + 1
    BY <1>1, <1>3
  <2>2. Tail(f)[i] = f[i + 1] /\ f[i + 1] = s[k + (i + 1) - 1] /\ g[i] = s[(k + 1) + i - 1]
    BY <1>2, <1>3, <1>5, <1>6, <2>1
  <2>3. k + (i + 1) - 1 = (k + 1) + i - 1
    BY <1>1, <2>1
  <2> QED
    BY <2>2, <2>3
<1>8. Tail(f) = g
  BY <1>3, <1>5, <1>6, <1>7, SeqEqual
<1> QED
  BY <1>4, <1>8 DEF f, g

LEMMA FromFrom ==
    ASSUME NEW S, NEW s \in Seq(S), NEW k \in 1 .. Len(s), NEW n \in Nat, k + n <= Len(s)
    PROVE  SubSeq(From(s, k), n + 2, Len(From(s, k))) = From(s, k + n + 1)
<1>1. Len(s) \in Nat /\ k \in 1 .. Len(s) + 1 /\ k + n + 1 \in 1 .. Len(s) + 1
  BY LenProperties
<1> DEFINE f == From(s, k)
           g == From(s, k + n + 1)
           h == From(f, n + 2)
<1>2. /\ f \in Seq(S) /\ Len(f) = Len(s) - k + 1
      /\ \A i \in 1 .. Len(s) - k + 1 : f[i] = s[k + i - 1]
  BY <1>1, FromFacts
<1>3. /\ g \in Seq(S) /\ Len(g) = Len(s) - (k + n + 1) + 1
      /\ \A i \in 1 .. Len(s) - (k + n + 1) + 1 : g[i] = s[(k + n + 1) + i - 1]
  BY <1>1, FromFacts
<1> HIDE DEF f, g
<1>4. n + 2 \in 1 .. Len(f) + 1
  BY <1>1, <1>2
<1>5. /\ h \in Seq(S) /\ Len(h) = Len(f) - (n + 2) + 1
      /\ \A i \in 1 .. Len(f) - (n + 2) + 1 : h[i] = f[(n + 2) + i - 1]
  BY <1>2, <1>4, FromFacts
<1> HIDE DEF h
<1>6. Len(h) = Len(g)
  BY <1>1, <1>2, <1>3, <1>5
<1>7. ASSUME NEW i \in 1 .. Len(g) PROVE h[i] = g[i]
  <2>1. /\ (n + 2) + i - 1 \in 1 .. Len(s) - k + 1
        /\ i \in 1 .. Len(s) - (k + n + 1) + 1 /\ i \in 1 .. Len(f) - (n + 2) + 1
    BY <1>1, <1>2, <1>3
  <2>2. h[i] = f[(n + 2) + i - 1] /\ g[i] = s[(k + n + 1) + i - 1]
    BY <1>3, <1>5, <2>1
  <2>3. f[(n + 2) + i - 1] = s[k + ((n + 2) + i - 1) - 1]
    BY <1>2, <2>1
  <2>4. k + ((n + 2) + i - 1) - 1 = (k + n + 1) + i - 1
    BY <1>1, <2>1
  <2> QED
    BY <2>2, <2>3, <2>4
<1>8. h = g
  BY <1>3, <1>5, <1>6, <1>7, SeqEqual
<1> QED
  BY <1>8 DEF f, g, h, From

LEMMA FromEnds ==
    ASSUME NEW S, NEW s \in Seq(S)
    PROVE  From(s, 1) = s /\ From(s, Len(s) + 1) = <<>>
<1>1. Len(s) \in Nat /\ 1 \in 1 .. Len(s) + 1 /\ Len(s) + 1 \in 1 .. Len(s) + 1
  BY LenProperties
<1>2. /\ From(s, Len(s) + 1) \in Seq(S) /\ Len(From(s, Len(s) + 1)) = Len(s) - (Len(s) + 1) + 1
  BY <1>1, FromFacts
<1>3. /\ From(s, 1) \in Seq(S) /\ Len(From(s, 1)) = Len(s)
      /\ \A i \in 1 .. Len(s) - 1 + 1 : From(s, 1)[i] = s[1 + i - 1]
  BY <1>1, FromFacts
<1>4. \A i \in 1 .. Len(s) : From(s, 1)[i] = s[i]
  BY <1>1, <1>3
<1>5. From(s, 1) = s
  BY <1>3, <1>4, SeqEqual
<1>6. From(s, Len(s) + 1) = <<>>
  BY <1>1, <1>2, EmptySeq
<1> QED
  BY <1>5, <1>6

\* Dropping the first element, or the first elements, of a concatenation.
LEMMA StepConcat ==
    ASSUME NEW S, NEW e \in S, NEW s \in Seq(S)
    PROVE  /\ <<e>> \o s \in Seq(S) /\ <<e>> \o s # <<>>
           /\ Head(<<e>> \o s) = e /\ Tail(<<e>> \o s) = s
<1> DEFINE c == <<e>> \o s
<1>1. <<e>> \in Seq(S) /\ Len(<<e>>) = 1 /\ <<e>>[1] = e /\ Len(s) \in Nat
  BY LenProperties
<1>2. /\ c \in Seq(S) /\ Len(c) = 1 + Len(s)
      /\ \A i \in 1 .. 1 + Len(s) : c[i] = IF i <= 1 THEN <<e>>[i] ELSE s[i - 1]
  BY <1>1, ConcatProperties
<1> HIDE DEF c
<1>3. c # <<>> /\ Head(c) = e
  BY <1>1, <1>2, EmptySeq
<1>4. /\ Tail(c) \in Seq(S) /\ Len(Tail(c)) = Len(c) - 1
      /\ \A i \in 1 .. Len(Tail(c)) : Tail(c)[i] = c[i + 1]
  BY <1>2, <1>3, HeadTailProperties
<1>5. ASSUME NEW i \in 1 .. Len(s) PROVE Tail(c)[i] = s[i]
  <2>1. i \in 1 .. Len(Tail(c)) /\ i + 1 \in 1 .. 1 + Len(s) /\ ~(i + 1 <= 1) /\ (i + 1) - 1 = i
    BY <1>1, <1>2, <1>4
  <2> QED
    BY <1>2, <1>4, <2>1
<1>6. Tail(c) = s
  BY <1>1, <1>2, <1>4, <1>5, SeqEqual
<1> QED
  BY <1>2, <1>3, <1>6 DEF c

-----------------------------------------------------------------------------
(* Safe scripts.                                                            *)

LEMMA LocksFacts ==
    /\ ManagerSet \subseteq Locks /\ ListManager \in ManagerSet
    /\ "m_ENET_RW" \in Locks /\ "m_MessagesMutex" \in Locks /\ "m_Mutex" \in Locks
    /\ "m_ENET_RW" \notin ManagerSet /\ "m_MessagesMutex" \notin ManagerSet
    /\ "m_Mutex" \notin ManagerSet
    /\ Len(Managers) \in Nat /\ Managers \in Seq(ManagerSet)
    /\ \A i \in 1 .. Len(Managers) : Managers[i] \in ManagerSet
    /\ NoThread \notin Threads
BY ThreadsAssumption, LenProperties DEF Locks, ManagerSet

LEMMA NoneFacts ==
    None \in Depths /\ (\A l \in Locks : None[l] = 0) /\ ~HasManager(None)
BY LocksFacts DEF None, Depths, HasManager

LEMMA PlusFacts ==
    ASSUME NEW H \in Depths, NEW l \in Locks
    PROVE  /\ Plus(H, l) \in Depths /\ Plus(H, l)[l] = H[l] + 1 /\ Plus(H, l)[l] > 0
           /\ \A k \in Locks \ {l} : Plus(H, l)[k] = H[k]
           /\ Minus(Plus(H, l), l) = H
<1>1. /\ Plus(H, l) \in Depths /\ Plus(H, l)[l] = H[l] + 1
      /\ \A k \in Locks \ {l} : Plus(H, l)[k] = H[k]
  BY DEF Plus, Depths
<1>2. H[l] \in Nat
  BY DEF Depths
<1>3. Minus(Plus(H, l), l) = H
  <2> DEFINE G == Plus(H, l)
             F == Minus(G, l)
  <2>1. G \in [Locks -> Nat] /\ G[l] = H[l] + 1 /\ \A k \in Locks \ {l} : G[k] = H[k]
    BY <1>1 DEF Depths
  <2> HIDE DEF G
  <2>2. /\ F = [k \in Locks |-> IF k = l THEN G[l] - 1 ELSE G[k]]
    BY <2>1 DEF Minus
  <2>3. \A k \in Locks : F[k] = H[k]
    BY <1>2, <2>1, <2>2
  <2> QED
    BY <2>2, <2>3 DEF Depths, G
<1> QED
  BY <1>1, <1>2, <1>3

\* What Safe says of the first step.
LEMMA SafeFirst ==
    ASSUME NEW w, NEW H, NEW s, Safe(w, H, s)
    PROVE  /\ H \in Depths /\ s \in Seq(Steps)
           /\ s = <<>> => H = None
           /\ s # <<>> =>
                /\ May(w, Head(s), H)
                /\ Goes(w, Head(s)) => Safe(w, After(Head(s), H), Tail(s))
                /\ Skips(Head(s)) => Safe(w, H, SubSeq(s, Head(s).skip + 2, Len(s)))
<1>1. PICK Z \in SUBSET (Depths \X Seq(Steps)) : Closed(w, Z) /\ <<H, s>> \in Z
  BY DEF Safe
<1>2. H \in Depths /\ s \in Seq(Steps)
  BY <1>1
<1>3. IF s = <<>> THEN H = None
      ELSE /\ May(w, Head(s), H)
           /\ Goes(w, Head(s)) => <<After(Head(s), H), Tail(s)>> \in Z
           /\ Skips(Head(s)) => <<H, SubSeq(s, Head(s).skip + 2, Len(s))>> \in Z
  BY <1>1, <1>2 DEF Closed
<1>4. \A G, r : <<G, r>> \in Z => Safe(w, G, r)
  BY <1>1 DEF Safe
<1> QED
  BY <1>2, <1>3, <1>4

LEMMA SafeEmpty ==
    ASSUME NEW w
    PROVE  Safe(w, None, <<>>)
<1> DEFINE Z == {<<None, <<>>>>}
<1>1. <<>> \in Seq(Steps)
  BY EmptySeq
<1>2. Z \in SUBSET (Depths \X Seq(Steps))
  <2>1. None \in Depths
    BY NoneFacts
  <2>2. <<None, <<>>>> \in Depths \X Seq(Steps)
    BY <1>1, <2>1
  <2> QED
    BY <2>2
<1>3. Closed(w, Z)
  BY DEF Closed
<1> QED
  BY <1>2, <1>3 DEF Safe

\* Adding one pair to a closed set, if what its first step leads to is safe.
LEMMA SafeBefore ==
    ASSUME NEW w, NEW H \in Depths, NEW s \in Seq(Steps), s # <<>>, May(w, Head(s), H),
           Goes(w, Head(s)) => Safe(w, After(Head(s), H), Tail(s)),
           Skips(Head(s)) => Safe(w, H, SubSeq(s, Head(s).skip + 2, Len(s)))
    PROVE  Safe(w, H, s)
<1> DEFINE G == After(Head(s), H)
           r == Tail(s)
           q == SubSeq(s, Head(s).skip + 2, Len(s))
<1>1. \E Z \in SUBSET (Depths \X Seq(Steps)) :
          Closed(w, Z) /\ (Goes(w, Head(s)) => <<G, r>> \in Z)
  <2>1. CASE Goes(w, Head(s))
    BY <2>1 DEF Safe
  <2>2. CASE ~Goes(w, Head(s))
    <3>1. Closed(w, {}) /\ {} \in SUBSET (Depths \X Seq(Steps))
      BY DEF Closed
    <3> QED
      BY <2>2, <3>1
  <2> QED
    BY <2>1, <2>2
<1>2. \E Y \in SUBSET (Depths \X Seq(Steps)) :
          Closed(w, Y) /\ (Skips(Head(s)) => <<H, q>> \in Y)
  <2>1. CASE Skips(Head(s))
    BY <2>1 DEF Safe
  <2>2. CASE ~Skips(Head(s))
    <3>1. Closed(w, {}) /\ {} \in SUBSET (Depths \X Seq(Steps))
      BY DEF Closed
    <3> QED
      BY <2>2, <3>1
  <2> QED
    BY <2>1, <2>2
<1>3. PICK Z \in SUBSET (Depths \X Seq(Steps)) :
          Closed(w, Z) /\ (Goes(w, Head(s)) => <<G, r>> \in Z)
  BY <1>1
<1>4. PICK Y \in SUBSET (Depths \X Seq(Steps)) :
          Closed(w, Y) /\ (Skips(Head(s)) => <<H, q>> \in Y)
  BY <1>2
<1> DEFINE X == Z \cup Y \cup {<<H, s>>}
<1>5. X \in SUBSET (Depths \X Seq(Steps))
  BY <1>3, <1>4
<1>6. Closed(w, X)
  <2> SUFFICES ASSUME NEW K \in Depths, NEW u \in Seq(Steps), <<K, u>> \in X
               PROVE  IF u = <<>> THEN K = None
                      ELSE /\ May(w, Head(u), K)
                           /\ Goes(w, Head(u)) => <<After(Head(u), K), Tail(u)>> \in X
                           /\ Skips(Head(u)) =>
                                  <<K, SubSeq(u, Head(u).skip + 2, Len(u))>> \in X
    BY DEF Closed
  <2>1. CASE <<K, u>> \in Z
    BY <1>3, <2>1 DEF Closed
  <2>2. CASE <<K, u>> \in Y
    BY <1>4, <2>2 DEF Closed
  <2>3. CASE K = H /\ u = s
    BY <1>3, <1>4, <2>3
  <2> QED
    BY <2>1, <2>2, <2>3
<1> QED
  BY <1>5, <1>6 DEF Safe

LEMMA SafeStep ==
    ASSUME NEW w, NEW H \in Depths, NEW e \in Steps, NEW s,
           ~Skips(e), May(w, e, H), Safe(w, After(e, H), s)
    PROVE  Safe(w, H, <<e>> \o s)
<1>1. s \in Seq(Steps)
  BY SafeFirst
<1>2. /\ <<e>> \o s \in Seq(Steps) /\ <<e>> \o s # <<>>
      /\ Head(<<e>> \o s) = e /\ Tail(<<e>> \o s) = s
  BY <1>1, StepConcat
<1> DEFINE c == <<e>> \o s
<1>3. c \in Seq(Steps) /\ c # <<>> /\ Head(c) = e /\ Tail(c) = s
  BY <1>2
<1> HIDE DEF c
<1>4. Safe(w, H, c)
  BY <1>3, SafeBefore
<1> QED
  BY <1>4 DEF c

\* A step that goes on with a body, or leaves it out.
LEMMA SafeSkip ==
    ASSUME NEW w, NEW H \in Depths, NEW body \in Seq(Steps), NEW s, NEW e \in Steps,
           Skips(e), e.skip = Len(body),
           Goes(w, e) => Safe(w, H, body \o s), Safe(w, H, s)
    PROVE  <<e>> \o body \in Seq(Steps) /\ Safe(w, H, (<<e>> \o body) \o s)
<1> DEFINE b == body \o s
           c == <<e>> \o b
<1>1. s \in Seq(Steps) /\ b \in Seq(Steps) /\ Len(body) \in Nat /\ Len(s) \in Nat
  BY SafeFirst, LenProperties
<1>3. After(e, H) = H /\ May(w, e, H)
  BY DEF After, May, Skips
<1>4. /\ Len(b) = Len(body) + Len(s)
      /\ \A i \in 1 .. Len(body) + Len(s) :
             b[i] = IF i <= Len(body) THEN body[i] ELSE s[i - Len(body)]
  BY <1>1, ConcatProperties
<1>6. <<e>> \in Seq(Steps) /\ <<e>> \o body \in Seq(Steps)
  BY StepConcat
<1>7. (<<e>> \o body) \o s = c
  BY <1>1, <1>6, ConcatAssociative, SMTT(30)
<1> HIDE DEF b
<1>8. /\ c \in Seq(Steps) /\ c # <<>> /\ Head(c) = e /\ Tail(c) = b
  BY <1>1, StepConcat
<1>9. Len(c) = 1 + Len(b) /\ \A i \in 1 .. 1 + Len(b) : c[i] = IF i <= 1 THEN e ELSE b[i - 1]
  <2>1. Len(<<e>>) = 1 /\ <<e>>[1] = e /\ Len(b) \in Nat
    BY <1>1, LenProperties
  <2>2. Len(c) = Len(<<e>>) + Len(b) /\ \A i \in 1 .. Len(<<e>>) + Len(b) :
            c[i] = IF i <= Len(<<e>>) THEN <<e>>[i] ELSE b[i - Len(<<e>>)]
    BY <1>1, <1>6, ConcatProperties
  <2> QED
    BY <2>1, <2>2
<1> HIDE DEF c
<1> DEFINE q == SubSeq(c, Len(body) + 2, Len(c))
<1>10. q = s
  <2>1. Len(c) = 1 + Len(body) + Len(s) /\ Len(body) + 2 \in 1 .. Len(c) + 1
    BY <1>1, <1>4, <1>9
  <2>2. /\ q \in Seq(Steps) /\ Len(q) = Len(c) - (Len(body) + 2) + 1
        /\ \A i \in 1 .. Len(c) - (Len(body) + 2) + 1 : q[i] = c[(Len(body) + 2) + i - 1]
    BY <1>8, <2>1, FromFacts DEF From
  <2> HIDE DEF q
  <2>3. Len(q) = Len(s)
    BY <1>1, <2>1, <2>2
  <2>4. ASSUME NEW i \in 1 .. Len(s) PROVE q[i] = s[i]
    <3> DEFINE j == (Len(body) + 2) + i - 1
    <3>1. /\ i \in 1 .. Len(c) - (Len(body) + 2) + 1
          /\ j \in 1 .. 1 + Len(b) /\ ~(j <= 1)
          /\ j - 1 \in 1 .. Len(body) + Len(s) /\ ~(j - 1 <= Len(body))
          /\ (j - 1) - Len(body) = i
      BY <1>1, <1>4, <2>1
    <3>2. q[i] = c[j]
      BY <2>2, <3>1
    <3> HIDE DEF j
    <3>3. c[j] = b[j - 1]
      BY <1>9, <3>1
    <3>4. b[j - 1] = s[(j - 1) - Len(body)]
      BY <1>4, <3>1
    <3> QED
      BY <3>1, <3>2, <3>3, <3>4
  <2> QED
    BY <1>1, <2>2, <2>3, <2>4, SeqEqual
<1>11. Safe(w, H, SubSeq(c, Head(c).skip + 2, Len(c)))
  BY <1>8, <1>10
<1>12. /\ Goes(w, Head(c)) => Safe(w, After(Head(c), H), Tail(c))
       /\ May(w, Head(c), H)
  BY <1>3, <1>8 DEF b
<1>13. Safe(w, H, c)
  BY <1>8, <1>11, <1>12, SafeBefore
<1> QED
  BY <1>6, <1>7, <1>13

\* A critical section around a body.
LEMMA UnderType ==
    ASSUME NEW l \in Locks, NEW body \in Seq(Steps)
    PROVE  Under(l, body) \in Seq(Steps)
<1> DEFINE e == Step("lock", l)
           f == Step("unlock", l)
<1>1. e \in Steps /\ f \in Steps
  BY DEF Steps, Ops, Step
<1>2. Under(l, body) = <<e>> \o body \o <<f>>
  BY DEF Under
<1> HIDE DEF e, f
<1> DEFINE g == <<e>>
           h == <<f>>
<1>3. g \in Seq(Steps) /\ h \in Seq(Steps) /\ Under(l, body) = g \o body \o h
  BY <1>1, <1>2
<1> HIDE DEF g, h
<1> QED
  BY <1>3, ConcatProperties

LEMMA SafeUnder ==
    ASSUME NEW w, NEW H \in Depths, NEW l \in Locks, NEW body \in Seq(Steps), NEW s,
           MayWait(w, l, H), Safe(w, H, s),
           \A r : Safe(w, Plus(H, l), r) => Safe(w, Plus(H, l), body \o r)
    PROVE  Safe(w, H, Under(l, body) \o s)
<1> DEFINE e == Step("lock", l)
           f == Step("unlock", l)
           K == Plus(H, l)
<1>0. K \in Depths /\ K[l] > 0 /\ Minus(K, l) = H
  BY PlusFacts
<1>1. e \in Steps /\ f \in Steps
  BY DEF Steps, Ops, Step
<1>2. /\ ~Skips(e) /\ May(w, e, H) /\ After(e, H) = K
      /\ ~Skips(f) /\ May(w, f, K) /\ After(f, K) = H
  <2> HIDE DEF K
  <2>1. ~Skips(e) /\ May(w, e, H) /\ After(e, H) = Plus(H, l)
    BY DEF May, After, Step, Skips
  <2>2. ~Skips(f) /\ May(w, f, K) /\ After(f, K) = Minus(K, l)
    BY <1>0 DEF May, After, Step, Skips
  <2> QED
    BY <1>0, <2>1, <2>2 DEF K
<1>3. Under(l, body) = <<e>> \o body \o <<f>>
  BY DEF Under
<1> HIDE DEF e, f
<1>4. s \in Seq(Steps) /\ <<e>> \in Seq(Steps) /\ <<f>> \in Seq(Steps)
  BY <1>1, SafeFirst
<1>5. Safe(w, K, <<f>> \o s)
  <2> HIDE DEF K
  <2> QED
    BY <1>0, <1>1, <1>2, SafeStep
<1>6. Safe(w, K, body \o (<<f>> \o s))
  BY <1>5
<1>7. Safe(w, H, <<e>> \o (body \o (<<f>> \o s)))
  <2> HIDE DEF K
  <2> QED
    BY <1>1, <1>2, <1>6, SafeStep
<1> DEFINE g == <<e>>
           h == <<f>>
<1>8. g \in Seq(Steps) /\ h \in Seq(Steps)
  BY <1>4
<1> HIDE DEF g, h
<1>9. (g \o body \o h) \o s = g \o (body \o (h \o s))
  <2>1. g \o body \in Seq(Steps) /\ h \o s \in Seq(Steps)
    BY <1>4, <1>8, ConcatProperties
  <2>2. (g \o body \o h) \o s = (g \o body) \o (h \o s)
    BY <1>4, <1>8, <2>1, ConcatAssociative, SMTT(30)
  <2>3. (g \o body) \o (h \o s) = g \o (body \o (h \o s))
    BY <1>4, <1>8, <2>1, ConcatAssociative, SMTT(30)
  <2> QED
    BY <2>2, <2>3
<1> QED
  BY <1>3, <1>7, <1>9 DEF g, h

-----------------------------------------------------------------------------
(* Calls that give back what they lock.                                     *)

\* w can do the call b with the locks H, and has them again after it.
Passes(w, b, H) ==
    /\ b \in Seq(Steps) /\ H \in Depths
    /\ \A s : Safe(w, H, s) => Safe(w, H, b \o s)

LEMMA PassesSafe ==
    ASSUME NEW w, NEW b, Passes(w, b, None)
    PROVE  Safe(w, None, b)
<1>1. Safe(w, None, b \o <<>>) /\ b \in Seq(Steps)
  BY SafeEmpty DEF Passes
<1>2. b \o <<>> = b
  BY <1>1, ConcatEmptySeq
<1> QED
  BY <1>1, <1>2

LEMMA PassesEmpty ==
    ASSUME NEW w, NEW H \in Depths
    PROVE  Passes(w, <<>>, H)
<1>1. <<>> \in Seq(Steps)
  BY EmptySeq
<1>2. ASSUME NEW s, Safe(w, H, s) PROVE Safe(w, H, <<>> \o s)
  <2>1. s \in Seq(Steps)
    BY <1>2, SafeFirst
  <2>2. <<>> \o s = s
    BY <2>1, ConcatEmptySeq
  <2> QED
    BY <1>2, <2>2
<1> QED
  BY <1>1, <1>2 DEF Passes

LEMMA PassesConcat ==
    ASSUME NEW w, NEW H, NEW a, NEW b, Passes(w, a, H), Passes(w, b, H)
    PROVE  Passes(w, a \o b, H)
<1>1. a \in Seq(Steps) /\ b \in Seq(Steps) /\ H \in Depths
  BY DEF Passes
<1>2. a \o b \in Seq(Steps)
  BY <1>1, ConcatProperties
<1>3. ASSUME NEW s, Safe(w, H, s) PROVE Safe(w, H, (a \o b) \o s)
  <2>1. s \in Seq(Steps)
    BY <1>3, SafeFirst
  <2>2. Safe(w, H, b \o s)
    BY <1>3 DEF Passes
  <2>3. Safe(w, H, a \o (b \o s))
    BY <2>2 DEF Passes
  <2>4. (a \o b) \o s = a \o (b \o s)
    BY <1>1, <2>1, ConcatAssociative, SMTT(30)
  <2> QED
    BY <2>3, <2>4
<1> QED
  BY <1>1, <1>2, <1>3 DEF Passes

LEMMA PassesStep ==
    ASSUME NEW w, NEW H \in Depths, NEW e \in Steps,
           e.op \notin {"unless", "maybe", "lock", "unlock"}, May(w, e, H)
    PROVE  Passes(w, <<e>>, H)
<1>1. After(e, H) = H /\ ~Skips(e)
  BY DEF After, Skips
<1>2. <<e>> \in Seq(Steps)
  OBVIOUS
<1>3. ASSUME NEW s, Safe(w, H, s) PROVE Safe(w, H, <<e>> \o s)
  BY <1>1, <1>3, SafeStep
<1> QED
  BY <1>2, <1>3 DEF Passes

LEMMA PassesUnless ==
    ASSUME NEW w, NEW H \in Depths, NEW b \in Seq(Steps),
           w.mode \in Running => Passes(w, b, H)
    PROVE  Passes(w, Unless(b), H)
<1> DEFINE e == [op |-> "unless", on |-> "", skip |-> Len(b)]
<1>1. e \in Steps /\ e.skip = Len(b) /\ Skips(e) /\ (Goes(w, e) => w.mode \in Running)
  BY LenProperties DEF Steps, Ops, Skips, Goes
<1>2. Unless(b) = <<e>> \o b
  BY DEF Unless
<1> HIDE DEF e
<1>3. ASSUME NEW s, Safe(w, H, s) PROVE Safe(w, H, (<<e>> \o b) \o s)
  <2>1. Goes(w, e) => Safe(w, H, b \o s)
    BY <1>1, <1>3 DEF Passes
  <2> QED
    BY <1>1, <1>3, <2>1, SafeSkip
<1>4. <<e>> \o b \in Seq(Steps)
  BY <1>1, StepConcat
<1> QED
  BY <1>2, <1>3, <1>4 DEF Passes

LEMMA PassesMaybe ==
    ASSUME NEW w, NEW H, NEW b, Passes(w, b, H)
    PROVE  Passes(w, Maybe(b), H)
<1> DEFINE e == [op |-> "maybe", on |-> "", skip |-> Len(b)]
<1>0. b \in Seq(Steps) /\ H \in Depths
  BY DEF Passes
<1>1. e \in Steps /\ e.skip = Len(b) /\ Skips(e)
  BY <1>0, LenProperties DEF Steps, Ops, Skips
<1>2. Maybe(b) = <<e>> \o b
  BY DEF Maybe
<1> HIDE DEF e
<1>3. ASSUME NEW s, Safe(w, H, s) PROVE Safe(w, H, (<<e>> \o b) \o s)
  <2>1. Safe(w, H, b \o s)
    BY <1>3 DEF Passes
  <2> QED
    BY <1>0, <1>1, <1>3, <2>1, SafeSkip
<1>4. <<e>> \o b \in Seq(Steps)
  BY <1>0, <1>1, StepConcat
<1> QED
  BY <1>0, <1>2, <1>3, <1>4 DEF Passes

LEMMA PassesUnder ==
    ASSUME NEW w, NEW H \in Depths, NEW l \in Locks, NEW b,
           MayWait(w, l, H), Passes(w, b, Plus(H, l))
    PROVE  Passes(w, Under(l, b), H)
<1>1. b \in Seq(Steps) /\ \A r : Safe(w, Plus(H, l), r) => Safe(w, Plus(H, l), b \o r)
  BY DEF Passes
<1>2. Under(l, b) \in Seq(Steps)
  BY <1>1, UnderType
<1>3. ASSUME NEW s, Safe(w, H, s) PROVE Safe(w, H, Under(l, b) \o s)
  BY <1>1, <1>3, SafeUnder
<1> QED
  BY <1>2, <1>3 DEF Passes

\* The scripts of the first n managers.
AndThen(s, script, i) == s \o script[Managers[i]]

IsUpTo(f, script, n) ==
    f = [i \in 0 .. n |-> IF i = 0 THEN <<>> ELSE AndThen(f[i - 1], script, i)]

LEMMA UpToExists ==
    ASSUME NEW script, NEW n \in Nat
    PROVE  \E f : IsUpTo(f, script, n)
<1> DEFINE S == {m \in Nat : \E f : IsUpTo(f, script, m)}
<1>1. 0 \in S
  <2> DEFINE f == [i \in 0 .. 0 |-> <<>>]
  <2>1. IsUpTo(f, script, 0)
    BY DEF IsUpTo
  <2> QED
    BY <2>1
<1>2. ASSUME NEW m \in Nat, m \in S PROVE m + 1 \in S
  <2>1. PICK f : IsUpTo(f, script, m)
    BY <1>2
  <2> DEFINE g == [i \in 0 .. m + 1 |-> IF i = m + 1 THEN AndThen(f[m], script, m + 1) ELSE f[i]]
  <2>3. ASSUME NEW i \in 0 .. m + 1
        PROVE  g[i] = IF i = 0 THEN <<>> ELSE AndThen(g[i - 1], script, i)
    <3>1. CASE i = 0
      BY <2>1, <3>1 DEF IsUpTo
    <3>2. CASE i = m + 1
      <4>1. g[i - 1] = f[m]
        BY <3>2
      <4> QED
        BY <3>2, <4>1
    <3>3. CASE i # 0 /\ i # m + 1
      <4>1. i \in 0 .. m /\ i - 1 \in 0 .. m + 1 /\ i - 1 # m + 1
        BY <3>3
      <4>2. f[i] = AndThen(f[i - 1], script, i)
        BY <2>1, <3>3, <4>1 DEF IsUpTo
      <4>3. g[i] = f[i] /\ g[i - 1] = f[i - 1]
        BY <3>3, <4>1
      <4> QED
        BY <3>3, <4>2, <4>3
    <3> QED
      BY <3>1, <3>2, <3>3
  <2>4. IsUpTo(g, script, m + 1)
    BY <2>3 DEF IsUpTo
  <2> QED
    BY <2>4
<1> HIDE DEF S
<1>3. Nat \subseteq S
  BY <1>1, <1>2, SetInduction
<1> QED
  BY <1>3 DEF S

LEMMA PassesEach ==
    ASSUME NEW w, NEW H \in Depths, NEW script,
           \A m \in ManagerSet : Passes(w, script[m], H)
    PROVE  Passes(w, Each(script), H)
<1> DEFINE n == Len(Managers)
           f == CHOOSE f : IsUpTo(f, script, n)
           S == {k \in Nat : k <= n => Passes(w, f[k], H)}
<1>1. n \in Nat /\ \A i \in 1 .. n : Managers[i] \in ManagerSet
  BY LocksFacts
<1>2. IsUpTo(f, script, n)
  BY <1>1, UpToExists
<1>3. Each(script) = f[n]
  BY DEF Each, IsUpTo, AndThen
<1> HIDE DEF f, n
<1>4. f = [i \in 0 .. n |-> IF i = 0 THEN <<>> ELSE AndThen(f[i - 1], script, i)]
  BY <1>2 DEF IsUpTo
<1>5. ASSUME NEW i \in 1 .. n PROVE Passes(w, script[Managers[i]], H)
  BY <1>1
<1>6. 0 \in S
  <2>1. f[0] = <<>>
    BY <1>1, <1>4
  <2> QED
    BY <2>1, PassesEmpty
<1>7. ASSUME NEW k \in Nat, k \in S PROVE k + 1 \in S
  <2> SUFFICES ASSUME k + 1 <= n PROVE Passes(w, f[k + 1], H)
    OBVIOUS
  <2>1. k + 1 \in 0 .. n /\ k + 1 \in 1 .. n /\ k + 1 # 0 /\ k + 1 - 1 = k /\ k <= n
    BY <1>1
  <2>2. f[k + 1] = AndThen(f[k], script, k + 1)
    BY <1>4, <2>1
  <2>3. Passes(w, f[k], H) /\ Passes(w, script[Managers[k + 1]], H)
    BY <1>5, <1>7, <2>1
  <2>4. Passes(w, f[k] \o script[Managers[k + 1]], H)
    BY <2>3, PassesConcat
  <2> QED
    BY <2>2, <2>4 DEF AndThen
<1> HIDE DEF S
<1>8. Nat \subseteq S
  BY <1>6, <1>7, SetInduction
<1> QED
  BY <1>1, <1>3, <1>8 DEF S

-----------------------------------------------------------------------------
(* The calls.                                                               *)

\* Neither inside ENet nor inside the message queue.
Free(H) == H \in Depths /\ H["m_ENET_RW"] = 0 /\ H["m_MessagesMutex"] = 0

LEMMA FreeFacts ==
    /\ Free(None) /\ None["m_Mutex"] = 0 /\ ~HasManager(None)
    /\ \A H, l : Free(H) /\ l \in ManagerSet \cup {"m_Mutex"} => Free(Plus(H, l))
    /\ \A H, l : H \in Depths /\ l \in Locks \ ManagerSet =>
          HasManager(Plus(H, l)) = HasManager(H)
    /\ \A H, l : H \in Depths /\ l \in Locks \ {"m_Mutex"} =>
          Plus(H, l)["m_Mutex"] = H["m_Mutex"]
<1>1. Free(None) /\ None["m_Mutex"] = 0 /\ ~HasManager(None)
  BY NoneFacts, LocksFacts DEF Free
<1>2. ASSUME NEW H, NEW l, Free(H), l \in ManagerSet \cup {"m_Mutex"} PROVE Free(Plus(H, l))
  <2>1. /\ H \in Depths /\ l \in Locks /\ l # "m_ENET_RW" /\ l # "m_MessagesMutex"
        /\ "m_ENET_RW" \in Locks /\ "m_MessagesMutex" \in Locks
    BY <1>2, LocksFacts DEF Free
  <2> QED
    BY <1>2, <2>1, PlusFacts DEF Free
<1>3. ASSUME NEW H \in Depths, NEW l \in Locks \ ManagerSet
      PROVE  HasManager(Plus(H, l)) = HasManager(H)
  <2>1. \A m \in ManagerSet : Plus(H, l)[m] = H[m]
    BY PlusFacts, LocksFacts
  <2> QED
    BY <2>1 DEF HasManager
<1>4. ASSUME NEW H \in Depths, NEW l \in Locks \ {"m_Mutex"}
      PROVE  Plus(H, l)["m_Mutex"] = H["m_Mutex"]
  BY PlusFacts, LocksFacts
<1> QED
  BY <1>1, <1>2, <1>3, <1>4

LEMMA PassesBroadcast ==
    ASSUME NEW w, NEW H, Free(H)
    PROVE  Passes(w, Broadcast, H)
<1> DEFINE l == "m_ENET_RW"
           e == Step("enet", "")
           b == Under(l, <<e>>)
<1>1. l \in Locks /\ H \in Depths /\ Plus(H, l) \in Depths /\ Plus(H, l)[l] > 0
  BY LocksFacts, PlusFacts DEF Free
<1>2. e \in Steps /\ e.op = "enet" /\ <<e>> \in Seq(Steps)
  BY DEF Step, Steps, Ops
<1>3. b \in Seq(Steps)
  BY <1>1, <1>2, UnderType
<1>4. ASSUME w.mode \in Running PROVE Passes(w, b, H)
  <2>1. MayWait(w, l, H)
    BY <1>1, <1>4, LocksFacts DEF MayWait, Free
  <2>2. May(w, e, Plus(H, l))
    BY <1>1, <1>2, <1>4 DEF May
  <2> HIDE DEF l, e
  <2>3. Passes(w, <<e>>, Plus(H, l))
    BY <1>1, <1>2, <2>2, PassesStep
  <2> QED
    BY <1>1, <2>1, <2>3, PassesUnder
<1>5. Broadcast = Unless(b)
  BY DEF Broadcast
<1> HIDE DEF b, l
<1> QED
  BY <1>1, <1>3, <1>4, <1>5, PassesUnless

\* A critical section without steps.
LEMMA PassesLook ==
    ASSUME NEW w, NEW H \in Depths, NEW l \in Locks, MayWait(w, l, H)
    PROVE  Passes(w, Under(l, <<>>), H)
<1>1. Plus(H, l) \in Depths
  BY PlusFacts
<1>2. Passes(w, <<>>, Plus(H, l))
  BY <1>1, PassesEmpty
<1> QED
  BY <1>2, PassesUnder

LEMMA PassesLog ==
    ASSUME NEW w, NEW H, Free(H)
    PROVE  Passes(w, Log, H)
<1>1. "m_MessagesMutex" \in Locks /\ H \in Depths /\ MayWait(w, "m_MessagesMutex", H)
  BY LocksFacts DEF Free, MayWait
<1> QED
  BY <1>1, PassesLook DEF Log

LEMMA PassesReadMessage ==
    ASSUME NEW w
    PROVE  Passes(w, ReadMessage, None)
<1>1. Passes(w, Log, None)
  BY PassesLog, FreeFacts
<1> QED
  BY <1>1, PassesConcat DEF ReadMessage

\* No lock is held at the start of these, or in Build those of its manager.
LEMMA PassesSnapshots ==
    ASSUME NEW w, NEW H, Free(H), H["m_Mutex"] = 0,
           HasManager(H) => w.thread \in OwnedBuilders
    PROVE  Passes(w, DoSnapshot, H) /\ Passes(w, FindObject, H)
<1> DEFINE f == [m \in ManagerSet |-> Unless(Under(m, <<>>))]
           g == [m \in ManagerSet |-> Under(m, <<>>)]
<1>1. H \in Depths /\ <<>> \in Seq(Steps)
  BY EmptySeq DEF Free
<1>2. ASSUME NEW m \in ManagerSet
      PROVE  Passes(w, Under(m, <<>>), H) /\ Passes(w, Unless(Under(m, <<>>)), H)
  <2>1. m \in Locks /\ MayWait(w, m, H)
    BY LocksFacts DEF MayWait, Free
  <2>2. Under(m, <<>>) \in Seq(Steps)
    BY <1>1, <2>1, UnderType
  <2>3. Passes(w, Under(m, <<>>), H)
    BY <1>1, <2>1, PassesLook
  <2> QED
    BY <1>1, <2>2, <2>3, PassesUnless
<1>3. \A m \in ManagerSet : Passes(w, f[m], H) /\ Passes(w, g[m], H)
  BY <1>2
<1>4. DoSnapshot = Each(f) /\ FindObject = Each(g)
  BY DEF DoSnapshot, FindObject
<1> HIDE DEF f, g
<1> QED
  BY <1>1, <1>3, <1>4, PassesEach

LEMMA PassesUseList ==
    ASSUME NEW w, NEW H, Free(H), HasManager(H) => "NetworkUpdate" \in w.lists
    PROVE  Passes(w, UseList, H)
<1> DEFINE l == "m_Mutex"
<1>1. l \in Locks /\ H \in Depths /\ MayWait(w, l, H)
  BY LocksFacts DEF Free, MayWait
<1>2. Free(Plus(H, l))
  BY FreeFacts
<1>3. UseList = Under(l, Maybe(Log))
  BY DEF UseList
<1> HIDE DEF l
<1>4. Passes(w, Maybe(Log), Plus(H, l))
  BY <1>2, PassesLog, PassesMaybe
<1> QED
  BY <1>1, <1>3, <1>4, PassesUnder

LEMMA PassesQueueChange ==
    ASSUME NEW w, NEW H, Free(H), ~HasManager(H),
           H["m_Mutex"] > 0 => "invalidate_ents" \in w.lists
    PROVE  Passes(w, QueueChange, H) /\ Passes(w, SendDelta, H)
<1>1. H \in Depths /\ ListManager \in Locks /\ "m_Mutex" \in Locks
  BY LocksFacts DEF Free
<1>2. MayWait(w, ListManager, H) /\ MayWait(w, "m_Mutex", H)
  BY LocksFacts DEF Free, MayWait
<1>3. Passes(w, get_players, H) /\ Passes(w, Under("m_Mutex", <<>>), H)
  BY <1>1, <1>2, PassesLook DEF get_players
<1>4. Passes(w, Maybe(Under("m_Mutex", <<>>)), H)
  BY <1>3, PassesMaybe
<1>5. Passes(w, QueueChange, H)
  BY <1>3, <1>4, PassesConcat DEF QueueChange
<1>6. Passes(w, SendDelta, H)
  BY <1>3, PassesConcat DEF SendDelta
<1> QED
  BY <1>5, <1>6

LEMMA PassesInvalidateEnts ==
    ASSUME NEW w, "invalidate_ents" \in w.lists
    PROVE  Passes(w, InvalidateEnts, None)
<1> DEFINE l == "m_Mutex"
<1>1. l \in Locks /\ l \notin ManagerSet /\ None \in Depths /\ MayWait(w, l, None)
  BY LocksFacts, FreeFacts DEF Free, MayWait
<1>2. Free(Plus(None, l)) /\ ~HasManager(Plus(None, l))
  BY <1>1, FreeFacts
<1>3. InvalidateEnts = Under(l, QueueChange)
  BY DEF InvalidateEnts
<1> HIDE DEF l
<1>4. Passes(w, QueueChange, Plus(None, l))
  BY <1>2, PassesQueueChange
<1> QED
  BY <1>1, <1>3, <1>4, PassesUnder

LEMMA PassesDoListUpdate ==
    ASSUME NEW w
    PROVE  Passes(w, DoListUpdate, None)
<1> DEFINE l == "m_Mutex"
           b == Under(l, Maybe(Broadcast))
<1>1. l \in Locks /\ None \in Depths /\ MayWait(w, l, None) /\ Free(Plus(None, l))
  BY LocksFacts, FreeFacts DEF Free, MayWait
<1>2. UpdateListDelta = SendDelta \o b
  BY DEF UpdateListDelta
<1>3. Passes(w, SendDelta, None) /\ Passes(w, FindObject, None)
  BY FreeFacts, PassesQueueChange, PassesSnapshots
<1> HIDE DEF l
<1>4. Passes(w, Maybe(Broadcast), Plus(None, l))
  BY <1>1, PassesBroadcast, PassesMaybe
<1>5. Passes(w, b, None)
  BY <1>1, <1>4, PassesUnder
<1>6. Passes(w, UpdateListDelta, None)
  BY <1>2, <1>3, <1>5, PassesConcat
<1> QED
  BY <1>3, <1>6, PassesConcat DEF DoListUpdate

LEMMA PassesPostUpdate ==
    ASSUME NEW w, NEW m \in ManagerSet, NEW server \in BOOLEAN
    PROVE  Passes(w, PostUpdate(m, server, w.lists), None)
<1> DEFINE c == IF server THEN Maybe(Log \o FreeEntity) ELSE <<>>
           d == IF "NetworkUpdate" \in w.lists THEN Maybe(UseList) ELSE <<>>
           H == Plus(None, m)
           b == Under(m, c \o d)
<1>1. m \in Locks /\ None \in Depths /\ MayWait(w, m, None) /\ Free(H) /\ H \in Depths
  BY LocksFacts, FreeFacts DEF Free, MayWait
<1>2. PostUpdate(m, server, w.lists) = Unless(b)
  BY DEF PostUpdate
<1> HIDE DEF H
<1>3. Passes(w, <<>>, H)
  BY <1>1, PassesEmpty
<1>4. Passes(w, c, H)
  <2>1. Passes(w, Log, H) /\ Passes(w, FreeEntity, H)
    BY <1>1, PassesLog, PassesBroadcast DEF FreeEntity
  <2>2. Passes(w, Maybe(Log \o FreeEntity), H)
    BY <2>1, PassesConcat, PassesMaybe
  <2> QED
    BY <1>3, <2>2
<1>5. Passes(w, d, H)
  <2>1. CASE "NetworkUpdate" \in w.lists
    <3>1. Passes(w, UseList, H)
      BY <1>1, <2>1, PassesUseList
    <3> QED
      BY <2>1, <3>1, PassesMaybe
  <2>2. CASE "NetworkUpdate" \notin w.lists
    BY <1>3, <2>2
  <2> QED
    BY <2>1, <2>2
<1> HIDE DEF c, d
<1>6. Passes(w, c \o d, H)
  BY <1>4, <1>5, PassesConcat
<1>7. Passes(w, b, None)
  BY <1>1, <1>6, PassesUnder DEF H
<1> HIDE DEF b
<1>8. b \in Seq(Steps)
  BY <1>7 DEF Passes
<1> QED
  BY <1>1, <1>2, <1>7, <1>8, PassesUnless

LEMMA PassesDoPostUpdate ==
    ASSUME NEW w, NEW server \in BOOLEAN
    PROVE  Passes(w, DoPostUpdate(server, w.lists), None)
<1> DEFINE f == [m \in ManagerSet |-> PostUpdate(m, server, w.lists)]
<1>1. \A m \in ManagerSet : Passes(w, f[m], None)
  BY PassesPostUpdate
<1>2. DoPostUpdate(server, w.lists) = DoListUpdate \o Each(f)
  BY DEF DoPostUpdate
<1> HIDE DEF f
<1>3. Passes(w, Each(f), None)
  BY <1>1, NoneFacts, PassesEach
<1>4. Passes(w, DoListUpdate, None)
  BY PassesDoListUpdate
<1> QED
  BY <1>2, <1>3, <1>4, PassesConcat

LEMMA PassesTick ==
    ASSUME NEW w, NEW server \in BOOLEAN
    PROVE  Passes(w, Tick(server, w.lists), None)
<1> DEFINE p == DoPostUpdate(server, w.lists)
           b == DoSnapshot \o Broadcast \o p \o p
<1>1. Passes(w, DoSnapshot, None) /\ Passes(w, Broadcast, None) /\ Passes(w, p, None)
  BY FreeFacts, PassesSnapshots, PassesBroadcast, PassesDoPostUpdate
<1>2. Tick(server, w.lists) = Unless(b)
  BY DEF Tick
<1> HIDE DEF p
<1>3. Passes(w, DoSnapshot \o Broadcast, None)
  BY <1>1, PassesConcat
<1>4. Passes(w, DoSnapshot \o Broadcast \o p, None)
  BY <1>1, <1>3, PassesConcat
<1>5. Passes(w, b, None)
  BY <1>1, <1>4, PassesConcat
<1> HIDE DEF b
<1>6. b \in Seq(Steps) /\ None \in Depths
  BY <1>5 DEF Passes
<1> QED
  BY <1>2, <1>5, <1>6, PassesUnless

LEMMA PassesBuild ==
    ASSUME NEW w, NEW m \in ManagerSet, NEW owned \in BOOLEAN, owned => w.thread \in OwnedBuilders
    PROVE  Passes(w, Build(m, owned), None)
<1> DEFINE r == Step("read", "s_TotalEntities")
           i == Step("increment", "s_TotalEntities")
           b == IF owned THEN Broadcast \o Broadcast \o DoSnapshot \o Broadcast ELSE Broadcast
           H == Plus(None, m)
<1>1. /\ m \in Locks /\ None \in Depths /\ MayWait(w, m, None) /\ Free(H) /\ H \in Depths
      /\ H["m_Mutex"] = 0
  BY LocksFacts, FreeFacts DEF Free, MayWait
<1>2. /\ r \in Steps /\ r.op \notin {"unless", "maybe", "lock", "unlock"} /\ May(w, r, None)
      /\ i \in Steps /\ i.op \notin {"unless", "maybe", "lock", "unlock"} /\ May(w, i, None)
  BY DEF Step, Steps, Ops, May
<1>3. Build(m, owned) = <<r, i>> \o DoSnapshot \o Under(m, b) \o Log
  BY DEF Build
<1> HIDE DEF r, i
<1>4. <<r, i>> = <<r>> \o <<i>>
  <2> DEFINE u == <<r, i>>
             v == <<r>>
             x == <<i>>
  <2>1. u \in Seq(Steps) /\ Len(u) = 2 /\ u[1] = r /\ u[2] = i
    BY <1>2
  <2>2. /\ v \in Seq(Steps) /\ Len(v) = 1 /\ v[1] = r
        /\ x \in Seq(Steps) /\ Len(x) = 1 /\ x[1] = i
    BY <1>2
  <2> HIDE DEF u, v, x
  <2>3. /\ v \o x \in Seq(Steps) /\ Len(v \o x) = 2
        /\ (v \o x)[1] = r /\ (v \o x)[2] = i
    BY <2>2, ConcatProperties
  <2>4. u = v \o x
    BY <2>1, <2>3, SeqEqual
  <2> QED
    BY <2>4 DEF u, v, x
<1>5. Passes(w, <<r>>, None) /\ Passes(w, <<i>>, None)
  BY <1>1, <1>2, PassesStep
<1>6. Passes(w, <<r, i>>, None)
  BY <1>4, <1>5, PassesConcat
<1> HIDE DEF H
<1>7. Passes(w, b, H)
  <2>1. Passes(w, Broadcast, H)
    BY <1>1, PassesBroadcast
  <2>2. CASE owned
    <3>2. Passes(w, DoSnapshot, H)
      BY <1>1, <2>2, PassesSnapshots
    <3>3. Passes(w, Broadcast \o Broadcast, H)
      BY <2>1, PassesConcat
    <3>4. Passes(w, Broadcast \o Broadcast \o DoSnapshot, H)
      BY <3>2, <3>3, PassesConcat
    <3>5. Passes(w, Broadcast \o Broadcast \o DoSnapshot \o Broadcast, H)
      BY <2>1, <3>4, PassesConcat
    <3> QED
      BY <2>2, <3>5
  <2>3. CASE ~owned
    BY <2>1, <2>3
  <2> QED
    BY <2>2, <2>3
<1> HIDE DEF b
<1>8. Passes(w, Under(m, b), None)
  BY <1>1, <1>7, PassesUnder DEF H
<1>9. Passes(w, DoSnapshot, None) /\ Passes(w, Log, None)
  BY FreeFacts, PassesSnapshots, PassesLog
<1>10. Passes(w, <<r, i>> \o DoSnapshot, None)
  BY <1>6, <1>9, PassesConcat
<1>11. Passes(w, <<r, i>> \o DoSnapshot \o Under(m, b), None)
  BY <1>8, <1>10, PassesConcat
<1>12. Passes(w, <<r, i>> \o DoSnapshot \o Under(m, b) \o Log, None)
  BY <1>9, <1>11, PassesConcat
<1> QED
  BY <1>3, <1>12

LEMMA PassesService ==
    ASSUME NEW w, w.mode \in Running
    PROVE  Passes(w, Service, None)
<1> DEFINE l == "m_ENET_RW"
           e == Step("enet", "")
           f == Step("event", "")
           H == Plus(None, l)
           b == Under(l, <<e>>) \o <<f>>
<1>1. l \in Locks /\ None \in Depths /\ MayWait(w, l, None) /\ H \in Depths /\ H[l] > 0
  BY LocksFacts, FreeFacts, PlusFacts DEF MayWait, Free
<1>2. /\ e \in Steps /\ e.op \notin {"unless", "maybe", "lock", "unlock"} /\ May(w, e, H)
      /\ f \in Steps /\ f.op \notin {"unless", "maybe", "lock", "unlock"} /\ May(w, f, None)
  BY <1>1 DEF Step, Steps, Ops, May
<1>3. Service = Unless(b)
  BY DEF Service
<1> HIDE DEF l, e, f
<1>4. Passes(w, <<e>>, H) /\ Passes(w, <<f>>, None)
  BY <1>1, <1>2, PassesStep
<1>5. Passes(w, Under(l, <<e>>), None)
  BY <1>1, <1>4, PassesUnder
<1>6. Passes(w, b, None)
  BY <1>4, <1>5, PassesConcat
<1> HIDE DEF b
<1>7. b \in Seq(Steps)
  BY <1>6 DEF Passes
<1> QED
  BY <1>1, <1>3, <1>6, <1>7, PassesUnless

LEMMA PassesConnect ==
    ASSUME NEW w, w.thread = "app", w.mode \in {"new", "late"}
    PROVE  Passes(w, Connect, None)
<1> DEFINE e == Step("connect", "")
           g == <<e>>
<1>1. e \in Steps /\ e.op \notin {"unless", "maybe", "lock", "unlock"} /\ May(w, e, None)
  BY DEF Step, Steps, Ops, May
<1>2. Connect = <<e, e>> \o Maybe(Log \o <<e>>)
  BY DEF Connect
<1> HIDE DEF e
<1>3. Passes(w, g, None) /\ g \in Seq(Steps) /\ Len(g) = 1 /\ g[1] = e
  BY <1>1, NoneFacts, PassesStep
<1>4. <<e, e>> = g \o g
  <2> DEFINE u == <<e, e>>
  <2>1. u \in Seq(Steps) /\ Len(u) = 2 /\ u[1] = e /\ u[2] = e
    BY <1>1
  <2> HIDE DEF u, g
  <2>2. g \o g \in Seq(Steps) /\ Len(g \o g) = 2 /\ (g \o g)[1] = e /\ (g \o g)[2] = e
    BY <1>3, ConcatProperties
  <2>3. u = g \o g
    BY <2>1, <2>2, SeqEqual
  <2> QED
    BY <2>3 DEF u
<1>5. Connect = (g \o g) \o Maybe(Log \o g)
  BY <1>2, <1>4
<1> HIDE DEF g
<1>6. Passes(w, g \o g, None)
  BY <1>3, PassesConcat
<1>7. Passes(w, Log, None)
  BY PassesLog, FreeFacts
<1>8. Passes(w, Maybe(Log \o g), None)
  BY <1>3, <1>7, PassesConcat, PassesMaybe
<1> QED
  BY <1>5, <1>6, <1>8, PassesConcat

LEMMA PassesDeleteManager ==
    ASSUME NEW w, NEW m \in ManagerSet, NEW server \in BOOLEAN
    PROVE  Passes(w, DeleteManager(m, server), None)
<1> DEFINE b == IF server THEN FreeEntity ELSE <<>>
           H == Plus(None, m)
<1>1. m \in Locks /\ None \in Depths /\ MayWait(w, m, None) /\ Free(H) /\ H \in Depths
  BY LocksFacts, FreeFacts DEF Free, MayWait
<1> HIDE DEF H
<1>2. Passes(w, b, H)
  BY <1>1, PassesBroadcast, PassesEmpty DEF FreeEntity
<1>3. DeleteManager(m, server) = Under(m, b)
  BY DEF DeleteManager
<1> HIDE DEF b
<1> QED
  BY <1>1, <1>2, <1>3, PassesUnder DEF H

LEMMA PassesReceive ==
    ASSUME NEW w
    PROVE  Passes(w, Receive, None) /\ Passes(w, ReceiveList, None)
<1>1. Passes(w, FindObject, None) /\ Passes(w, Log, None) /\ Passes(w, QueueChange, None)
  BY FreeFacts, PassesSnapshots, PassesLog, PassesQueueChange
<1>2. /\ None \in Depths /\ ListManager \in Locks /\ "m_Mutex" \in Locks
      /\ MayWait(w, ListManager, None) /\ MayWait(w, "m_Mutex", None)
  BY LocksFacts, FreeFacts DEF Free, MayWait
<1>3. Passes(w, Under(ListManager, <<>>), None) /\ Passes(w, Under("m_Mutex", <<>>), None)
  BY <1>2, PassesLook
<1>4. Passes(w, Under(ListManager, <<>>) \o Under("m_Mutex", <<>>), None)
  BY <1>3, PassesConcat
<1>5. Passes(w, ReceiveList, None)
  BY <1>1, <1>4, PassesConcat DEF ReceiveList
<1> QED
  BY <1>1, <1>5, PassesConcat DEF Receive

LEMMA PassesConnected ==
    ASSUME NEW w, NEW build, Passes(w, build, None)
    PROVE  Passes(w, Connected(build), None)
<1>1. Passes(w, Log, None) /\ Passes(w, Broadcast, None) /\ Passes(w, DoSnapshot, None)
  BY FreeFacts, PassesLog, PassesBroadcast, PassesSnapshots
<1>2. Passes(w, Log \o Broadcast, None)
  BY <1>1, PassesConcat
<1>3. Passes(w, Log \o Broadcast \o DoSnapshot, None)
  BY <1>1, <1>2, PassesConcat
<1>4. Passes(w, Log \o Broadcast \o DoSnapshot \o Log, None)
  BY <1>1, <1>3, PassesConcat
<1>5. Passes(w, Log \o Broadcast \o DoSnapshot \o Log \o Broadcast, None)
  BY <1>1, <1>4, PassesConcat
<1>6. Passes(w, Log \o Broadcast \o DoSnapshot \o Log \o Broadcast \o build, None)
  BY <1>5, PassesConcat
<1> QED
  BY <1>6 DEF Connected

-----------------------------------------------------------------------------
(* The inductive invariant.                                                 *)

HeldType == [Locks -> [owner : Threads \cup {NoThread}, depth : Nat]]

Types ==
    /\ m_bServer \in BOOLEAN /\ m_bRunning \in BOOLEAN /\ m_bShuttingDown \in BOOLEAN
    /\ raced \in BOOLEAN /\ late \in BOOLEAN
    /\ lists \subseteq {"NetworkUpdate", "invalidate_ents"}
    /\ m_pHost \in {"open", "null"}
    /\ object \in [Workers -> BOOLEAN] /\ status \in [Workers -> BOOLEAN]
    /\ alive \in [Threads -> BOOLEAN]
    /\ rest \in [Threads -> Seq(Steps)]
    /\ held \in HeldType
    /\ \A l \in Locks : (held[l].depth = 0) = (held[l].owner = NoThread)
    /\ phase \in {"new", "up", "down", "gone"}

\* The network thread is in a Stop of its own.  It ends there, unless it raced.
NetStops ==
    /\ HeldBy("net") = None
    /\ \E k \in 1 .. 12 : rest["net"] = From(Stop, k) /\ (~raced => k <= 4)

\* What each thread has still to do fits the locks it has.
ScriptInv ==
    /\ alive["app"]
    /\ alive["sync"] => Safe(Who("sync"), HeldBy("sync"), rest["sync"])
    /\ alive["net"] => Safe(Who("net"), HeldBy("net"), rest["net"]) \/ NetStops
    /\ IF phase = "down" THEN HeldBy("app") = None
                         ELSE Safe(Who("app"), HeldBy("app"), rest["app"])

\* The network thread is gone, or is about to end itself.
NetEnds == ~alive["net"] \/ rest["net"] = From(Stop, 4)

NewInv ==
    /\ ~m_bRunning /\ ~raced
    /\ m_bServer => rest["app"] = <<>>
    /\ ~m_bServer => m_pHost = "open"
    /\ \A w \in Workers : object[w] /\ ~alive[w] /\ rest[w] = <<>> /\ HeldBy(w) = None

UpInv ==
    /\ m_bRunning /\ ~raced /\ m_pHost = "open"
    /\ \A w \in Workers : object[w] /\ (~alive[w] => HeldBy(w) = None)
    /\ alive["sync"] /\ status["sync"]
    /\ status["net"] \/ NetEnds

\* The application is at step k of Destroy, or past it.
AtDestroy(k) == IF phase = "gone" THEN k = 13 ELSE rest["app"] = From(Destroy, k)

\* What has been stopped by step k of Destroy, while the network thread has not
\* gone on after its own end.
Stopped(k) ==
    /\ k <= 9 => m_bRunning
    /\ k <= 10 => m_pHost = "open"
    /\ k <= 5 => object["net"]
    /\ k <= 8 => object["sync"]
    /\ k # 4 => status["net"] \/ NetEnds
    /\ k >= 5 => NetEnds
    /\ k # 7 => status["sync"] \/ ~alive["sync"]
    /\ k >= 8 => ~alive["sync"]

DownInv ==
    \E k \in 1 .. 13 : /\ AtDestroy(k)
                       /\ k >= 10 => ~m_bRunning
                       /\ ~raced => Stopped(k)

PhaseInv ==
    /\ phase = "new" => NewInv
    /\ phase = "up" => UpInv
    /\ phase \in {"down", "gone"} => DownInv

ThreadsInv == Types /\ ScriptInv /\ PhaseInv

-----------------------------------------------------------------------------
(* The steps of Stop and Destroy.                                           *)

LEMMA ConcatIndex ==
    ASSUME NEW S, NEW s \in Seq(S), NEW t \in Seq(S)
    PROVE  /\ s \o t \in Seq(S) /\ Len(s \o t) = Len(s) + Len(t)
           /\ \A i \in 1 .. Len(s) : (s \o t)[i] = s[i]
           /\ \A i \in 1 .. Len(t) : (s \o t)[Len(s) + i] = t[i]
<1> DEFINE c == s \o t
<1>1. /\ c \in Seq(S) /\ Len(c) = Len(s) + Len(t) /\ Len(s) \in Nat /\ Len(t) \in Nat
      /\ \A i \in 1 .. Len(s) + Len(t) : c[i] = IF i <= Len(s) THEN s[i] ELSE t[i - Len(s)]
  BY ConcatProperties, LenProperties
<1> HIDE DEF c
<1>2. ASSUME NEW i \in 1 .. Len(s) PROVE c[i] = s[i]
  <2>1. i \in 1 .. Len(s) + Len(t) /\ i <= Len(s)
    BY <1>1
  <2> QED
    BY <1>1, <2>1
<1>3. ASSUME NEW i \in 1 .. Len(t) PROVE c[Len(s) + i] = t[i]
  <2>1. Len(s) + i \in 1 .. Len(s) + Len(t) /\ ~(Len(s) + i <= Len(s)) /\ (Len(s) + i) - Len(s) = i
    BY <1>1
  <2> QED
    BY <1>1, <2>1
<1> QED
  BY <1>1, <1>2, <1>3 DEF c

LEMMA TupleFacts ==
    ASSUME NEW S, NEW a \in S, NEW b \in S, NEW c \in S
    PROVE  /\ <<a>> \in Seq(S) /\ Len(<<a>>) = 1 /\ <<a>>[1] = a
           /\ <<a, b, c>> \in Seq(S) /\ Len(<<a, b, c>>) = 3
           /\ <<a, b, c>>[1] = a /\ <<a, b, c>>[2] = b /\ <<a, b, c>>[3] = c
OBVIOUS

LEMMA DeleteFacts ==
    ASSUME NEW w \in Workers
    PROVE  /\ Delete(w) \in Seq(Steps) /\ Len(Delete(w)) = 3
           /\ Delete(w)[1] = Step("clear", w) /\ Delete(w)[2] = Step("terminate", w)
           /\ Delete(w)[3] = Step("null", w)
<1>1. Step("clear", w) \in Steps /\ Step("terminate", w) \in Steps /\ Step("null", w) \in Steps
  BY DEF Step, Steps, Ops
<1> QED
  BY <1>1, TupleFacts DEF Delete

\* The first step of Unless.
UnlessStep(n) == [op |-> "unless", on |-> "", skip |-> n]

LEMMA StopFacts ==
    /\ Stop \in Seq(Steps) /\ Len(Stop) = 11
    /\ Stop[1] = UnlessStep(10)
    /\ Stop[2] = Step("shutting", "")
    /\ Stop[3] = Step("clear", "net") /\ Stop[4] = Step("terminate", "net")
    /\ Stop[5] = Step("null", "net")
    /\ Stop[6] = Step("clear", "sync") /\ Stop[7] = Step("terminate", "sync")
    /\ Stop[8] = Step("null", "sync")
    /\ Stop[9] = Step("stopped", "") /\ Stop[10] = Step("host", "") /\ Stop[11] = Step("shut", "")
<1>1. /\ Step("shutting", "") \in Steps /\ Step("stopped", "") \in Steps
      /\ Step("host", "") \in Steps /\ Step("shut", "") \in Steps
  BY DEF Step, Steps, Ops
<1> DEFINE e == [op |-> "unless", on |-> "", skip |-> 10]
           z == <<e>>
           a == <<Step("shutting", "")>>
           b == Delete("net")
           c == Delete("sync")
           d == <<Step("stopped", ""), Step("host", ""), Step("shut", "")>>
           body == a \o b \o c \o d
<1>2. a \in Seq(Steps) /\ Len(a) = 1 /\ a[1] = Step("shutting", "")
  BY <1>1, TupleFacts
<1>3. /\ d \in Seq(Steps) /\ Len(d) = 3
      /\ d[1] = Step("stopped", "") /\ d[2] = Step("host", "") /\ d[3] = Step("shut", "")
  BY <1>1, TupleFacts
<1>4. /\ b \in Seq(Steps) /\ Len(b) = 3 /\ b[1] = Step("clear", "net")
      /\ b[2] = Step("terminate", "net") /\ b[3] = Step("null", "net")
      /\ c \in Seq(Steps) /\ Len(c) = 3 /\ c[1] = Step("clear", "sync")
      /\ c[2] = Step("terminate", "sync") /\ c[3] = Step("null", "sync")
  BY DeleteFacts DEF Workers
<1>5. Stop = <<[op |-> "unless", on |-> "", skip |-> Len(body)]>> \o body
  BY DEF Stop, Unless
<1>6. e \in Steps
  BY DEF Steps, Ops
<1> HIDE DEF e
<1>7. z \in Seq(Steps) /\ Len(z) = 1 /\ z[1] = e
  BY <1>6, TupleFacts
<1> HIDE DEF z, a, b, c, d
<1>8. /\ a \o b \in Seq(Steps) /\ Len(a \o b) = 4
      /\ (a \o b)[1] = a[1]
      /\ (a \o b)[2] = b[1] /\ (a \o b)[3] = b[2] /\ (a \o b)[4] = b[3]
  <2>1. /\ a \o b \in Seq(Steps) /\ Len(a \o b) = 1 + 3
        /\ \A i \in 1 .. 1 : (a \o b)[i] = a[i]
        /\ \A i \in 1 .. 3 : (a \o b)[1 + i] = b[i]
    <3>1. a \in Seq(Steps) /\ b \in Seq(Steps)
      BY <1>2, <1>4
    <3>2. /\ (a \o b) \in Seq(Steps) /\ Len((a \o b)) = Len(a) + Len(b)
          /\ \A i \in 1 .. Len(a) : (a \o b)[i] = a[i]
          /\ \A i \in 1 .. Len(b) : (a \o b)[Len(a) + i] = b[i]
      BY <3>1, ConcatIndex
    <3> QED
      BY <1>2, <1>4, <3>2
  <2> DEFINE x == a \o b
  <2> HIDE DEF x
  <2>2. /\ \A i \in 1 .. 1 : x[i] = a[i]
        /\ \A i \in 1 .. 3 : x[1 + i] = b[i]
    BY <2>1 DEF x
  <2>3. x[1] = a[1] /\ x[1 + 1] = b[1] /\ x[1 + 2] = b[2] /\ x[1 + 3] = b[3]
    BY <2>2
  <2> QED
    BY <2>1, <2>3 DEF x
<1> DEFINE x == a \o b
<1>9. x \in Seq(Steps) /\ Len(x) = 4 /\ x[1] = a[1] /\ x[2] = b[1] /\ x[3] = b[2] /\ x[4] = b[3]
  BY <1>8
<1>10. body = x \o c \o d
  OBVIOUS
<1> HIDE DEF x, body
<1> DEFINE y == x \o c
<1>11. /\ y \in Seq(Steps) /\ Len(y) = 4 + 3
       /\ \A i \in 1 .. 4 : y[i] = x[i]
       /\ \A i \in 1 .. 3 : y[4 + i] = c[i]
  <2>1. x \in Seq(Steps) /\ c \in Seq(Steps)
    BY <1>4, <1>9
  <2>2. /\ y \in Seq(Steps) /\ Len(y) = Len(x) + Len(c)
        /\ \A i \in 1 .. Len(x) : y[i] = x[i]
        /\ \A i \in 1 .. Len(c) : y[Len(x) + i] = c[i]
    BY <2>1, ConcatIndex
  <2> QED
    BY <1>4, <1>9, <2>2
<1>12. body = y \o d
  BY <1>10
<1> HIDE DEF y
<1>13. /\ y[1] = x[1] /\ y[2] = x[2] /\ y[3] = x[3] /\ y[4] = x[4]
       /\ y[4 + 1] = c[1] /\ y[4 + 2] = c[2] /\ y[4 + 3] = c[3]
  BY <1>11
<1> DEFINE v == y \o d
<1>14. Len(y) = 7
  BY <1>11
<1>15. /\ v \in Seq(Steps) /\ Len(v) = 7 + 3
       /\ \A i \in 1 .. 7 : v[i] = y[i]
       /\ \A i \in 1 .. 3 : v[7 + i] = d[i]
  <2>1. y \in Seq(Steps) /\ d \in Seq(Steps)
    BY <1>3, <1>11, <1>14
  <2>2. /\ v \in Seq(Steps) /\ Len(v) = Len(y) + Len(d)
        /\ \A i \in 1 .. Len(y) : v[i] = y[i]
        /\ \A i \in 1 .. Len(d) : v[Len(y) + i] = d[i]
    BY <2>1, ConcatIndex
  <2> QED
    BY <1>3, <1>11, <1>14, <2>2
<1> HIDE DEF v
<1>16. /\ v[1] = y[1] /\ v[2] = y[2] /\ v[3] = y[3] /\ v[4] = y[4] /\ v[5] = y[5]
       /\ v[6] = y[6] /\ v[7] = y[7]
       /\ v[7 + 1] = d[1] /\ v[7 + 2] = d[2] /\ v[7 + 3] = d[3]
  BY <1>15
<1>17. body = v /\ Len(v) = 10
  BY <1>12, <1>15 DEF v
<1>18. Stop = z \o v
  BY <1>5, <1>17 DEF z, e
<1> DEFINE u == z \o v
<1>19. /\ u \in Seq(Steps) /\ Len(u) = 1 + 10
       /\ \A i \in 1 .. 1 : u[i] = z[i]
       /\ \A i \in 1 .. 10 : u[1 + i] = v[i]
  <2>1. z \in Seq(Steps) /\ v \in Seq(Steps)
    BY <1>7, <1>15, <1>17
  <2>2. /\ u \in Seq(Steps) /\ Len(u) = Len(z) + Len(v)
        /\ \A i \in 1 .. Len(z) : u[i] = z[i]
        /\ \A i \in 1 .. Len(v) : u[Len(z) + i] = v[i]
    BY <2>1, ConcatIndex
  <2> QED
    BY <1>7, <1>15, <1>17, <2>2
<1> HIDE DEF u
<1>20. /\ u[1] = z[1] /\ u[1 + 1] = v[1] /\ u[1 + 2] = v[2] /\ u[1 + 3] = v[3]
       /\ u[1 + 4] = v[4] /\ u[1 + 5] = v[5] /\ u[1 + 6] = v[6] /\ u[1 + 7] = v[7]
       /\ u[1 + 8] = v[8] /\ u[1 + 9] = v[9] /\ u[1 + 10] = v[10]
  BY <1>19
<1>21. /\ u[2] = a[1] /\ u[3] = b[1] /\ u[4] = b[2] /\ u[5] = b[3]
       /\ u[6] = c[1] /\ u[7] = c[2] /\ u[8] = c[3]
       /\ u[9] = d[1] /\ u[10] = d[2] /\ u[11] = d[3]
  BY <1>9, <1>13, <1>16, <1>20
<1>22. Stop = u
  BY <1>18 DEF u
<1>23. u[1] = UnlessStep(10)
  BY <1>7, <1>20 DEF e, UnlessStep
<1>24. Len(u) = 11
  BY <1>19
<1>25. /\ u[2] = Step("shutting", "")
       /\ u[3] = Step("clear", "net") /\ u[4] = Step("terminate", "net")
       /\ u[5] = Step("null", "net")
       /\ u[6] = Step("clear", "sync") /\ u[7] = Step("terminate", "sync")
       /\ u[8] = Step("null", "sync")
       /\ u[9] = Step("stopped", "") /\ u[10] = Step("host", "") /\ u[11] = Step("shut", "")
  BY <1>2, <1>3, <1>4, <1>21
<1> QED
  BY <1>19, <1>22, <1>23, <1>24, <1>25

LEMMA DestroyFacts ==
    /\ Destroy \in Seq(Steps) /\ Len(Destroy) = 12
    /\ \A i \in 1 .. 11 : Destroy[i] = Stop[i]
    /\ Destroy[12] = Step("wait", "")
<1> DEFINE g == <<Step("wait", "")>>
<1>1. Step("wait", "") \in Steps
  BY DEF Step, Steps, Ops
<1>2. g \in Seq(Steps) /\ Len(g) = 1 /\ g[1] = Step("wait", "")
  BY <1>1, TupleFacts
<1>3. Stop \in Seq(Steps) /\ Len(Stop) = 11
  BY StopFacts
<1>0. Destroy = Stop \o g
  BY DEF Destroy
<1> HIDE DEF g
<1>4. /\ Destroy \in Seq(Steps) /\ Len(Destroy) = 11 + 1
      /\ \A i \in 1 .. 11 : Destroy[i] = Stop[i]
      /\ \A i \in 1 .. 1 : Destroy[11 + i] = g[i]
  <2>1. /\ (Stop \o g) \in Seq(Steps) /\ Len((Stop \o g)) = Len(Stop) + Len(g)
        /\ \A i \in 1 .. Len(Stop) : (Stop \o g)[i] = Stop[i]
        /\ \A i \in 1 .. Len(g) : (Stop \o g)[Len(Stop) + i] = g[i]
    <3>1. Stop \in Seq(Steps) /\ g \in Seq(Steps)
      BY <1>2, <1>3
    <3> QED
      BY <3>1, ConcatIndex
  <2> DEFINE d == Stop \o g
  <2>2. /\ d \in Seq(Steps) /\ Len(d) = Len(Stop) + Len(g)
        /\ \A i \in 1 .. Len(Stop) : d[i] = Stop[i]
        /\ \A i \in 1 .. Len(g) : d[Len(Stop) + i] = g[i]
    BY <2>1
  <2> HIDE DEF d
  <2>3. /\ d \in Seq(Steps) /\ Len(d) = 11 + 1
        /\ \A i \in 1 .. 11 : d[i] = Stop[i]
        /\ \A i \in 1 .. 1 : d[11 + i] = g[i]
    BY <1>2, <1>3, <2>2
  <2> QED
    BY <1>0, <2>3 DEF d
<1>5. Destroy[12] = g[1]
  <2>1. 1 \in 1 .. 1 /\ 11 + 1 = 12
    OBVIOUS
  <2>2. Destroy[11 + 1] = g[1]
    BY <1>4
  <2> QED
    BY <2>1, <2>2
<1>6. Destroy[12] = Step("wait", "")
  BY <1>2, <1>5
<1>7. Len(Destroy) = 12
  BY <1>4
<1> QED
  BY <1>4, <1>6, <1>7

LEMMA StopType ==
    Stop \in Seq(Steps) /\ Len(Stop) = 11
BY StopFacts, Zenon

LEMMA DestroyType ==
    Destroy \in Seq(Steps) /\ Len(Destroy) = 12
BY DestroyFacts, Zenon

LEMMA StepFields ==
    /\ \A op, on : Step(op, on).op = op /\ Step(op, on).on = on
    /\ \A n : UnlessStep(n).op = "unless" /\ UnlessStep(n).skip = n
BY DEF Step, UnlessStep

\* The k-th step of Stop.
StopStep(k, e) ==
    \/ k = 1 /\ e.op = "unless" /\ e.skip = 10
    \/ k = 2 /\ e.op = "shutting"
    \/ k = 3 /\ e.op = "clear" /\ e.on = "net"
    \/ k = 4 /\ e.op = "terminate" /\ e.on = "net"
    \/ k = 5 /\ e.op = "null" /\ e.on = "net"
    \/ k = 6 /\ e.op = "clear" /\ e.on = "sync"
    \/ k = 7 /\ e.op = "terminate" /\ e.on = "sync"
    \/ k = 8 /\ e.op = "null" /\ e.on = "sync"
    \/ k = 9 /\ e.op = "stopped"
    \/ k = 10 /\ e.op = "host"
    \/ k = 11 /\ e.op = "shut"

LEMMA StopSteps ==
    ASSUME NEW k \in 1 .. 11
    PROVE  StopStep(k, Stop[k])
<1>1. /\ Stop[1].op = "unless" /\ Stop[1].skip = 10
      /\ Stop[2].op = "shutting"
      /\ Stop[3].op = "clear" /\ Stop[3].on = "net"
      /\ Stop[4].op = "terminate" /\ Stop[4].on = "net"
      /\ Stop[5].op = "null" /\ Stop[5].on = "net"
      /\ Stop[6].op = "clear" /\ Stop[6].on = "sync"
      /\ Stop[7].op = "terminate" /\ Stop[7].on = "sync"
      /\ Stop[8].op = "null" /\ Stop[8].on = "sync"
      /\ Stop[9].op = "stopped" /\ Stop[10].op = "host" /\ Stop[11].op = "shut"
  <2>1. Stop[1].op = "unless"
    BY StopFacts, StepFields
  <2>2. Stop[1].skip = 10
    BY StopFacts, StepFields
  <2> DEFINE Is(e, op, on) == e.op = op /\ e.on = on
  <2>3. /\ Is(Step("shutting", ""), "shutting", "")
        /\ Is(Step("clear", "net"), "clear", "net") /\ Is(Step("clear", "sync"), "clear", "sync")
        /\ Is(Step("terminate", "net"), "terminate", "net")
        /\ Is(Step("terminate", "sync"), "terminate", "sync")
        /\ Is(Step("null", "net"), "null", "net") /\ Is(Step("null", "sync"), "null", "sync")
        /\ Is(Step("stopped", ""), "stopped", "") /\ Is(Step("host", ""), "host", "")
        /\ Is(Step("shut", ""), "shut", "")
    BY DEF Step
  <2> HIDE DEF Is
  <2>4. /\ Is(Stop[2], "shutting", "")
        /\ Is(Stop[3], "clear", "net") /\ Is(Stop[6], "clear", "sync")
        /\ Is(Stop[4], "terminate", "net") /\ Is(Stop[7], "terminate", "sync")
        /\ Is(Stop[5], "null", "net") /\ Is(Stop[8], "null", "sync")
        /\ Is(Stop[9], "stopped", "") /\ Is(Stop[10], "host", "") /\ Is(Stop[11], "shut", "")
    BY <2>3, StopFacts, Zenon
  <2> QED
    BY <2>1, <2>2, <2>4 DEF Is
<1>2. k = 1 \/ k = 2 \/ k = 3 \/ k = 4 \/ k = 5 \/ k = 6 \/ k = 7 \/ k = 8 \/ k = 9 \/ k = 10 \/ k = 11
  OBVIOUS
<1> QED
  BY <1>1, <1>2 DEF StopStep

\* The suffixes of Stop and Destroy.
LEMMA StopFrom ==
    ASSUME NEW k \in 1 .. 11
    PROVE  /\ From(Stop, k) # <<>> /\ StopStep(k, Head(From(Stop, k)))
           /\ Tail(From(Stop, k)) = From(Stop, k + 1)
           /\ \A n \in 0 .. 11 - k : SubSeq(From(Stop, k), n + 2, Len(From(Stop, k)))
                                         = From(Stop, k + n + 1)
<1>1. Stop \in Seq(Steps) /\ Len(Stop) = 11 /\ k \in 1 .. Len(Stop)
  BY StopType
<1>2. /\ From(Stop, k) # <<>> /\ Head(From(Stop, k)) = Stop[k]
      /\ Tail(From(Stop, k)) = From(Stop, k + 1)
  BY <1>1, FromHead
<1>3. ASSUME NEW n \in 0 .. 11 - k
      PROVE  SubSeq(From(Stop, k), n + 2, Len(From(Stop, k))) = From(Stop, k + n + 1)
  <2>1. n \in Nat /\ k + n <= Len(Stop)
    BY <1>1
  <2> QED
    BY <1>1, <2>1, FromFrom
<1> QED
  BY <1>2, <1>3, StopSteps

LEMMA DestroyFrom ==
    ASSUME NEW k \in 1 .. 12
    PROVE  /\ From(Destroy, k) # <<>>
           /\ StopStep(k, Head(From(Destroy, k))) \/ (k = 12 /\ Head(From(Destroy, k)).op = "wait")
           /\ Tail(From(Destroy, k)) = From(Destroy, k + 1)
           /\ \A n \in 0 .. 12 - k : SubSeq(From(Destroy, k), n + 2, Len(From(Destroy, k)))
                                         = From(Destroy, k + n + 1)
<1>1. Destroy \in Seq(Steps) /\ Len(Destroy) = 12 /\ k \in 1 .. Len(Destroy)
  BY DestroyType
<1>2. /\ From(Destroy, k) # <<>> /\ Head(From(Destroy, k)) = Destroy[k]
      /\ Tail(From(Destroy, k)) = From(Destroy, k + 1)
  BY <1>1, FromHead
<1>3. ASSUME NEW n \in 0 .. 12 - k
      PROVE  SubSeq(From(Destroy, k), n + 2, Len(From(Destroy, k))) = From(Destroy, k + n + 1)
  <2>1. n \in Nat /\ k + n <= Len(Destroy)
    BY <1>1
  <2> QED
    BY <1>1, <2>1, FromFrom
<1>4. CASE k = 12
  <2>1. Destroy[k].op = "wait"
    BY <1>4, DestroyFacts, StepFields
  <2> QED
    BY <1>2, <1>3, <1>4, <2>1
<1>5. CASE k # 12
  <2>1. k \in 1 .. 11
    BY <1>5
  <2>2. StopStep(k, Destroy[k])
    BY <2>1, StopSteps, DestroyFacts
  <2> QED
    BY <1>2, <1>3, <2>2
<1> QED
  BY <1>4, <1>5

LEMMA StopEnds ==
    /\ From(Stop, 1) = Stop /\ From(Stop, 12) = <<>>
    /\ From(Destroy, 1) = Destroy /\ From(Destroy, 13) = <<>>
<1>1. /\ Stop \in Seq(Steps) /\ Len(Stop) + 1 = 12
      /\ Destroy \in Seq(Steps) /\ Len(Destroy) + 1 = 13
  BY StopType, DestroyType
<1> QED
  BY <1>1, FromEnds

LEMMA FromTypes ==
    /\ \A k \in 1 .. 12 : From(Stop, k) \in Seq(Steps)
    /\ \A k \in 1 .. 13 : From(Destroy, k) \in Seq(Steps)
<1>1. /\ Stop \in Seq(Steps) /\ Len(Stop) + 1 = 12
      /\ Destroy \in Seq(Steps) /\ Len(Destroy) + 1 = 13
  BY StopType, DestroyType
<1> QED
  BY <1>1, FromFacts

-----------------------------------------------------------------------------
(* Where a thread is.                                                       *)

ScriptOps == {"lock", "unlock", "enet", "connect", "read", "increment", "event", "maybe"}
StopOps == {"shutting", "clear", "terminate", "null", "stopped", "host", "shut"}

LEMMA StopStepOps ==
    ASSUME NEW k \in 1 .. 11, NEW e, StopStep(k, e)
    PROVE  /\ e.op \in StopOps \cup {"unless"} /\ e.op \notin ScriptOps /\ e.op # "wait"
           /\ e.op = "unless" => k = 1 /\ e.skip = 10
BY DEF StopStep, StopOps, ScriptOps

LEMMA SafeOps ==
    ASSUME NEW w, NEW H, NEW s, Safe(w, H, s), s # <<>>
    PROVE  /\ Head(s).op \in ScriptOps \cup {"unless"} /\ Head(s).op \notin StopOps
           /\ Head(s).op # "wait"
<1>1. May(w, Head(s), H)
  BY SafeFirst
<1> QED
  BY <1>1 DEF May, ScriptOps, StopOps

\* The network thread's own Stop is no safe script.
LEMMA SafeIsNoStop ==
    ASSUME NEW w, NEW H, NEW s, Safe(w, H, s)
    PROVE  s # From(Stop, 4)
<1> SUFFICES ASSUME s = From(Stop, 4) PROVE FALSE
  OBVIOUS
<1>1. 4 \in 1 .. 11
  OBVIOUS
<1>2. s # <<>> /\ StopStep(4, Head(s))
  BY <1>1, StopFrom
<1>3. Head(s).op = "terminate"
  BY <1>2 DEF StopStep
<1> QED
  BY <1>2, <1>3, SafeOps DEF StopOps

\* In Destroy the application is at a step of it.
LEMMA DownSteps ==
    ASSUME phase = "down", NEW k \in 1 .. 13, AtDestroy(k), rest["app"] # <<>>
    PROVE  \/ /\ k \in 1 .. 11 /\ rest["app"] = From(Destroy, k)
              /\ StopStep(k, Head(rest["app"]))
              /\ Tail(rest["app"]) = From(Destroy, k + 1)
           \/ /\ k = 12 /\ rest["app"] = From(Destroy, k)
              /\ Head(rest["app"]).op = "wait" /\ Tail(rest["app"]) = <<>>
<1>0. rest["app"] = From(Destroy, k)
  BY DEF AtDestroy
<1>1. k # 13
  BY <1>0, StopEnds
<1>2. CASE k = 12
  <2>1. 12 \in 1 .. 12
    OBVIOUS
  <2>2. /\ StopStep(12, Head(From(Destroy, 12))) \/ Head(From(Destroy, 12)).op = "wait"
        /\ Tail(From(Destroy, 12)) = From(Destroy, 12 + 1)
    BY <2>1, DestroyFrom
  <2>3. ~StopStep(12, Head(From(Destroy, 12)))
    BY DEF StopStep
  <2>4. 12 + 1 = 13
    OBVIOUS
  <2> QED
    BY <1>0, <1>2, <2>2, <2>3, <2>4, StopEnds
<1>3. CASE k # 12
  <2>1. k \in 1 .. 11 /\ k \in 1 .. 12
    BY <1>1, <1>3
  <2> QED
    BY <1>0, <1>3, <2>1, DestroyFrom
<1> QED
  BY <1>2, <1>3

\* What a thread may do does not depend on the others.
LEMMA WhoFacts ==
    /\ \A t : Who(t).thread = t /\ Who(t).lists = lists
    /\ \A t : t # "app" => Who(t).mode = "up" /\ Who(t).mode \in Running
    /\ phase # "up" => Who("app").mode = phase
    /\ phase = "up" => /\ Who("app").mode \in Running
                       /\ Who("app").mode = "late" <=> late
BY DEF Who, Mode, Running

\* A thread at a step of a call that can lock has the locks its script says.
LEMMA AtScript ==
    ASSUME ThreadsInv, NEW t \in Threads, alive[t], rest[t] # <<>>,
           Head(rest[t]).op \in ScriptOps
    PROVE  /\ Safe(Who(t), HeldBy(t), rest[t])
           /\ phase = "new" => t = "app" /\ ~m_bServer
           /\ t = "app" => phase # "down"
<1>1. phase = "new" => t = "app" /\ ~m_bServer
  BY DEF ThreadsInv, PhaseInv, NewInv, Workers, Threads
<1>2. CASE t = "app"
  <2>1. CASE phase = "down"
    <3>1. PICK k \in 1 .. 13 : AtDestroy(k)
      BY <2>1 DEF ThreadsInv, PhaseInv, DownInv
    <3>3. Head(rest["app"]).op \notin ScriptOps
      <4>1. Head(rest["app"]).op = "wait"
                \/ (k \in 1 .. 11 /\ StopStep(k, Head(rest["app"])))
        BY <1>2, <2>1, <3>1, DownSteps
      <4>2. "wait" \notin ScriptOps
        BY DEF ScriptOps
      <4> QED
        BY <4>1, <4>2, StopStepOps
    <3> QED
      BY <1>2, <3>3
  <2>2. CASE phase # "down"
    BY <1>1, <1>2, <2>2 DEF ThreadsInv, ScriptInv
  <2> QED
    BY <2>1, <2>2
<1>3. CASE t = "sync"
  BY <1>1, <1>3 DEF ThreadsInv, ScriptInv
<1>4. CASE t = "net"
  <2>1. CASE NetStops
    <3>1. PICK k \in 1 .. 12 : rest["net"] = From(Stop, k)
      BY <2>1 DEF NetStops
    <3>2. k # 12
      BY <1>4, <3>1, StopEnds
    <3>3. k \in 1 .. 11
      BY <3>2
    <3>4. StopStep(k, Head(rest["net"]))
      BY <3>1, <3>3, StopFrom
    <3> QED
      BY <1>4, <3>3, <3>4, StopStepOps
  <2>2. CASE ~NetStops
    BY <1>1, <1>4, <2>2 DEF ThreadsInv, ScriptInv
  <2> QED
    BY <2>1, <2>2
<1> QED
  BY <1>2, <1>3, <1>4 DEF Threads

\* A thread in Stop or Destroy is the application, or the network thread in a Stop of
\* its own.
LEMMA AtStop ==
    ASSUME ThreadsInv, NEW t \in Threads, alive[t], rest[t] # <<>>,
           Head(rest[t]).op \in StopOps \cup {"wait"}
    PROVE  \/ t = "app" /\ phase = "down"
           \/ t = "net" /\ NetStops /\ phase # "new" /\ Head(rest[t]).op # "wait"
<1>2. ~Safe(Who(t), HeldBy(t), rest[t])
  BY SafeOps
<1>3. CASE t = "net"
  <2>0. phase # "new"
    BY <1>3 DEF ThreadsInv, PhaseInv, NewInv, Workers
  <2>1. NetStops
    BY <1>2, <1>3 DEF ThreadsInv, ScriptInv
  <2>2. PICK k \in 1 .. 12 : rest["net"] = From(Stop, k)
    BY <2>1 DEF NetStops
  <2>3. k # 12
    BY <1>3, <2>2, StopEnds
  <2>4. k \in 1 .. 11
    BY <2>3
  <2>5. StopStep(k, Head(rest["net"]))
    BY <2>2, <2>4, StopFrom
  <2>6. Head(rest[t]).op # "wait"
    BY <1>3, <2>4, <2>5, StopStepOps
  <2> QED
    BY <1>3, <2>0, <2>1, <2>6
<1>4. CASE t = "sync"
  BY <1>2, <1>4 DEF ThreadsInv, ScriptInv
<1>5. CASE t = "app"
  BY <1>2, <1>5 DEF ThreadsInv, ScriptInv
<1> QED
  BY <1>3, <1>4, <1>5 DEF Threads

-----------------------------------------------------------------------------
(* Steps of calls that can lock.                                            *)

\* A step of thread t that moves it along, or gives it, a safe script.
LEMMA ScriptStep ==
    ASSUME ThreadsInv, NEW t \in Threads, NEW s, alive[t],
           phase = "new" => t = "app" /\ ~m_bServer, t = "app" => phase # "down",
           t = "net" => rest["net"] # From(Stop, 4),
           rest' = [rest EXCEPT ![t] = s], Safe(Who(t)', HeldBy(t)', s),
           \A u \in Threads \ {t} : HeldBy(u)' = HeldBy(u),
           held' \in HeldType,
           \A l \in Locks : (held'[l].depth = 0) = (held'[l].owner = NoThread),
           late' \in BOOLEAN, t # "app" => late' = late,
           UNCHANGED <<flags, m_pHost, threads, phase, raced>>
    PROVE  ThreadsInv'
<1>1. /\ m_bServer' = m_bServer /\ m_bRunning' = m_bRunning
      /\ m_bShuttingDown' = m_bShuttingDown /\ lists' = lists /\ raced' = raced
      /\ m_pHost' = m_pHost /\ object' = object /\ status' = status /\ alive' = alive
      /\ phase' = phase
  BY DEF flags, threads
<1>2. Types /\ ScriptInv /\ PhaseInv
  BY DEF ThreadsInv
<1>3. s \in Seq(Steps)
  BY SafeFirst
<1>4. rest'[t] = s /\ \A u \in Threads \ {t} : rest'[u] = rest[u]
  BY <1>2 DEF Types
<1>5. Types'
  <2>1. rest' \in [Threads -> Seq(Steps)]
    BY <1>2, <1>3 DEF Types
  <2> QED
    BY <1>1, <1>2, <2>1 DEF Types
<1>6. ASSUME NetStops, t # "net" PROVE NetStops'
  <2>1. HeldBy("net")' = HeldBy("net") /\ rest'["net"] = rest["net"]
    BY <1>4, <1>6 DEF Threads
  <2> QED
    BY <1>1, <1>6, <2>1 DEF NetStops
<1>0. \A u \in Threads \ {t} : Who(u)' = Who(u)
  BY <1>1 DEF Who, Mode
<1>7. ScriptInv'
  <2>1. CASE t = "app"
    <3>1. /\ HeldBy("net")' = HeldBy("net") /\ rest'["net"] = rest["net"]
          /\ HeldBy("sync")' = HeldBy("sync") /\ rest'["sync"] = rest["sync"]
          /\ Who("net")' = Who("net") /\ Who("sync")' = Who("sync")
      BY <1>0, <1>4, <2>1 DEF Threads
    <3>2. phase' # "down" /\ Safe(Who("app")', HeldBy("app")', rest'["app"])
      BY <1>1, <1>4, <2>1
    <3>3. t # "net"
      BY <2>1
    <3> QED
      BY <1>1, <1>2, <1>6, <3>1, <3>2, <3>3 DEF ScriptInv
  <2>2. CASE t = "sync"
    <3>1. /\ HeldBy("net")' = HeldBy("net") /\ rest'["net"] = rest["net"]
          /\ HeldBy("app")' = HeldBy("app") /\ rest'["app"] = rest["app"]
          /\ Who("net")' = Who("net") /\ Who("app")' = Who("app")
      BY <1>0, <1>4, <2>2 DEF Threads
    <3>2. Safe(Who("sync")', HeldBy("sync")', rest'["sync"])
      BY <1>4, <2>2
    <3>3. t # "net"
      BY <2>2
    <3> QED
      BY <1>1, <1>2, <1>6, <3>1, <3>2, <3>3 DEF ScriptInv
  <2>3. CASE t = "net"
    <3>1. /\ HeldBy("sync")' = HeldBy("sync") /\ rest'["sync"] = rest["sync"]
          /\ HeldBy("app")' = HeldBy("app") /\ rest'["app"] = rest["app"]
          /\ Who("sync")' = Who("sync") /\ Who("app")' = Who("app")
      BY <1>0, <1>4, <2>3 DEF Threads
    <3>2. Safe(Who("net")', HeldBy("net")', rest'["net"])
      BY <1>4, <2>3
    <3> QED
      BY <1>1, <1>2, <3>1, <3>2 DEF ScriptInv
  <2> QED
    BY <2>1, <2>2, <2>3 DEF Threads
<1>8. NetEnds => NetEnds'
  <2>1. CASE t = "net"
    BY <1>1, <2>1 DEF NetEnds
  <2>2. CASE t # "net"
    <3>1. rest'["net"] = rest["net"]
      BY <1>4, <2>2 DEF Threads
    <3> QED
      BY <1>1, <3>1 DEF NetEnds
  <2> QED
    BY <2>1, <2>2
<1>9. CASE phase = "up"
  <2>1. UpInv
    BY <1>2, <1>9 DEF PhaseInv
  <2>2. \A w \in Workers : ~alive[w] => HeldBy(w)' = HeldBy(w)
    <3> SUFFICES ASSUME NEW w \in Workers, ~alive[w] PROVE HeldBy(w)' = HeldBy(w)
      OBVIOUS
    <3>1. w \in Threads \ {t}
      BY DEF Workers, Threads
    <3> QED
      BY <3>1
  <2>3. UpInv'
    BY <1>1, <1>8, <2>1, <2>2 DEF UpInv
  <2> QED
    BY <1>1, <1>5, <1>7, <1>9, <2>3 DEF ThreadsInv, PhaseInv
<1>10. CASE phase \in {"down", "gone"}
  <2>1. phase = "down" => rest'["app"] = rest["app"]
    BY <1>4, <1>10 DEF Threads
  <2>2. PICK k \in 1 .. 13 : AtDestroy(k) /\ (k >= 10 => ~m_bRunning) /\ (~raced => Stopped(k))
    BY <1>2, <1>10 DEF PhaseInv, DownInv
  <2>3. AtDestroy(k)'
    BY <1>1, <1>10, <2>1, <2>2 DEF AtDestroy
  <2>4. Stopped(k) => Stopped(k)'
    BY <1>1, <1>8 DEF Stopped
  <2>5. DownInv'
    BY <1>1, <2>2, <2>3, <2>4 DEF DownInv
  <2> QED
    BY <1>1, <1>5, <1>7, <1>10, <2>5 DEF ThreadsInv, PhaseInv
<1>11. CASE phase = "new"
  <2>1. NewInv /\ t = "app" /\ ~m_bServer
    BY <1>2, <1>11 DEF PhaseInv
  <2>2. \A w \in Workers : HeldBy(w)' = HeldBy(w) /\ rest'[w] = rest[w]
    BY <1>4, <2>1 DEF Workers, Threads
  <2>3. NewInv'
    BY <1>1, <2>1, <2>2 DEF NewInv
  <2> QED
    BY <1>1, <1>5, <1>7, <1>11, <2>3 DEF ThreadsInv, PhaseInv
<1> QED
  BY <1>2, <1>9, <1>10, <1>11 DEF Types

\* The same for a step that leaves the locks alone.
LEMMA ScriptMove ==
    ASSUME ThreadsInv, NEW t \in Threads, NEW s, alive[t],
           phase = "new" => t = "app" /\ ~m_bServer, t = "app" => phase # "down",
           t = "net" => rest["net"] # From(Stop, 4),
           rest' = [rest EXCEPT ![t] = s], Safe(Who(t)', HeldBy(t), s),
           late' \in BOOLEAN, t # "app" => late' = late,
           UNCHANGED <<flags, m_pHost, threads, held, phase, raced>>
    PROVE  ThreadsInv'
<1>1. held' = held /\ UNCHANGED <<flags, m_pHost, threads, phase, raced>>
  OBVIOUS
<1>2. \A u \in Threads : HeldBy(u)' = HeldBy(u)
  BY <1>1 DEF HeldBy
<1>3. /\ held' \in HeldType
      /\ \A l \in Locks : (held'[l].depth = 0) = (held'[l].owner = NoThread)
  BY <1>1 DEF ThreadsInv, Types
<1>4. Safe(Who(t)', HeldBy(t)', s)
  BY <1>2
<1> QED
  BY <1>1, <1>2, <1>3, <1>4, ScriptStep

\* A step that changes neither the phase nor late changes nobody's mode.
LEMMA WhoStays ==
    ASSUME ThreadsInv, NEW t, UNCHANGED <<flags, phase, late>>
    PROVE  Who(t)' = Who(t) /\ late' \in BOOLEAN
<1>1. lists' = lists /\ phase' = phase /\ late' = late
  BY DEF flags
<1>2. late \in BOOLEAN
  BY DEF ThreadsInv, Types
<1> QED
  BY <1>1, <1>2 DEF Who, Mode

\* A thread that is in a safe script is not in Stop.
LEMMA SafeNet ==
    ASSUME NEW t, NEW w, Safe(w, HeldBy(t), rest[t])
    PROVE  t = "net" => rest["net"] # From(Stop, 4)
BY SafeIsNoStop

LEMMA LockInv ==
    ASSUME ThreadsInv, NEW t \in Threads, Lock(t)
    PROVE  ThreadsInv'
<1> DEFINE e == Head(rest[t])
           l == e.on
           H == HeldBy(t)
<1>1. /\ alive[t] /\ rest[t] # <<>> /\ e.op = "lock" /\ e.op \in ScriptOps
      /\ held[l].owner \in {NoThread, t}
      /\ held' = [held EXCEPT ![l] = [owner |-> t, depth |-> held[l].depth + 1]]
      /\ rest' = [rest EXCEPT ![t] = Tail(rest[t])]
      /\ UNCHANGED <<flags, m_pHost, threads, phase, late, raced>>
  BY DEF Lock, At, On, Continue, Run, ScriptOps, app
<1>2. /\ Safe(Who(t), H, rest[t]) /\ (phase = "new" => t = "app" /\ ~m_bServer)
      /\ t = "app" => phase # "down"
  BY <1>1, AtScript
<1>3. May(Who(t), e, H) /\ (Goes(Who(t), e) => Safe(Who(t), After(e, H), Tail(rest[t])))
  BY <1>1, <1>2, SafeFirst
<1>4. l \in Locks /\ After(e, H) = Plus(H, l) /\ Goes(Who(t), e)
  BY <1>1, <1>3 DEF May, MayWait, After, Goes
<1> HIDE DEF e
<1> HIDE DEF l
<1>5. /\ held \in HeldType /\ NoThread \notin Threads
      /\ \A k \in Locks : (held[k].depth = 0) = (held[k].owner = NoThread)
  BY LocksFacts DEF ThreadsInv, Types
<1> DEFINE r == [owner |-> t, depth |-> held[l].depth + 1]
<1>7. r.owner = t /\ r.depth = held[l].depth + 1 /\ r.depth # 0
      /\ r \in [owner : Threads \cup {NoThread}, depth : Nat]
  BY <1>4, <1>5 DEF HeldType
<1>8. held' = [held EXCEPT ![l] = r]
  BY <1>1
<1> HIDE DEF r
<1>9. held'[l] = r /\ \A k \in Locks \ {l} : held'[k] = held[k]
  BY <1>4, <1>5, <1>8 DEF HeldType
<1>10. held' \in HeldType
  BY <1>5, <1>7, <1>8 DEF HeldType
<1>11. \A k \in Locks : (held'[k].depth = 0) = (held'[k].owner = NoThread)
  BY <1>5, <1>7, <1>9
<1>13. HeldBy(t)' = Plus(H, l)
  <2>1. H[l] = held[l].depth
    BY <1>1, <1>4, <1>5 DEF HeldBy
  <2>2. H[l] + 1 = held'[l].depth /\ held'[l].owner = t
    BY <1>7, <1>9, <2>1
  <2>3. \A k \in Locks : (IF held'[k].owner = t THEN held'[k].depth ELSE 0)
                            = IF k = l THEN H[l] + 1 ELSE H[k]
    BY <1>9, <2>2 DEF HeldBy
  <2>4. Plus(H, l) = [k \in Locks |-> IF k = l THEN H[l] + 1 ELSE H[k]]
    BY DEF Plus, HeldBy
  <2>5. HeldBy(t)' = [k \in Locks |-> IF held'[k].owner = t THEN held'[k].depth ELSE 0]
    BY DEF HeldBy
  <2> QED
    BY <2>3, <2>4, <2>5
<1>14. \A u \in Threads \ {t} : HeldBy(u)' = HeldBy(u)
  <2> SUFFICES ASSUME NEW u \in Threads \ {t} PROVE HeldBy(u)' = HeldBy(u)
    OBVIOUS
  <2>1. held[l].owner # u /\ held'[l].owner # u
    BY <1>1, <1>5, <1>7, <1>9
  <2>2. \A k \in Locks : (IF held'[k].owner = u THEN held'[k].depth ELSE 0)
                            = IF held[k].owner = u THEN held[k].depth ELSE 0
    BY <1>9, <2>1
  <2> QED
    BY <2>2 DEF HeldBy
<1>15. Safe(Who(t)', HeldBy(t)', Tail(rest[t])) /\ late' \in BOOLEAN /\ late' = late
  BY <1>1, <1>3, <1>4, <1>13, WhoStays
<1>16. t = "net" => rest["net"] # From(Stop, 4)
  BY <1>2, SafeNet
<1> QED
  BY <1>1, <1>2, <1>10, <1>11, <1>14, <1>15, <1>16, ScriptStep

LEMMA UnlockInv ==
    ASSUME ThreadsInv, NEW t \in Threads, Unlock(t)
    PROVE  ThreadsInv'
<1> DEFINE e == Head(rest[t])
           l == e.on
           H == HeldBy(t)
           d == held[l].depth - 1
           r == [owner |-> IF d = 0 THEN NoThread ELSE t, depth |-> d]
<1>1. /\ alive[t] /\ rest[t] # <<>> /\ e.op = "unlock" /\ e.op \in ScriptOps
      /\ held' = [held EXCEPT ![l] = r]
      /\ rest' = [rest EXCEPT ![t] = Tail(rest[t])]
      /\ UNCHANGED <<flags, m_pHost, threads, phase, late, raced>>
  BY DEF Unlock, At, On, Continue, Run, ScriptOps, app
<1>2. /\ Safe(Who(t), H, rest[t]) /\ (phase = "new" => t = "app" /\ ~m_bServer)
      /\ t = "app" => phase # "down"
  BY <1>1, AtScript
<1>3. May(Who(t), e, H) /\ (Goes(Who(t), e) => Safe(Who(t), After(e, H), Tail(rest[t])))
  BY <1>1, <1>2, SafeFirst
<1>4. l \in Locks /\ H[l] > 0 /\ After(e, H) = Minus(H, l) /\ Goes(Who(t), e)
  BY <1>1, <1>3 DEF May, After, Goes
<1> HIDE DEF e
<1> HIDE DEF l
<1>5. /\ held \in HeldType /\ NoThread \notin Threads
      /\ \A k \in Locks : (held[k].depth = 0) = (held[k].owner = NoThread)
  BY LocksFacts DEF ThreadsInv, Types
<1>6. held[l].owner = t /\ H[l] = held[l].depth /\ held[l].depth \in Nat /\ held[l].depth > 0
  <2>1. H[l] = IF held[l].owner = t THEN held[l].depth ELSE 0
    BY <1>4 DEF HeldBy
  <2>2. held[l].depth \in Nat
    BY <1>4, <1>5 DEF HeldType
  <2> QED
    BY <1>4, <2>1, <2>2
<1>7. /\ r.owner = (IF d = 0 THEN NoThread ELSE t) /\ r.depth = d
      /\ r \in [owner : Threads \cup {NoThread}, depth : Nat]
      /\ (r.depth = 0) = (r.owner = NoThread)
  BY <1>5, <1>6
<1>8. d = H[l] - 1
  BY <1>6
<1> HIDE DEF r
<1>9. held'[l] = r /\ \A k \in Locks \ {l} : held'[k] = held[k]
  BY <1>1, <1>4, <1>5 DEF HeldType
<1>10. held' \in HeldType
  BY <1>1, <1>5, <1>7 DEF HeldType
<1>11. \A k \in Locks : (held'[k].depth = 0) = (held'[k].owner = NoThread)
  BY <1>5, <1>7, <1>9
<1> HIDE DEF d
<1>13. HeldBy(t)' = Minus(H, l)
  <2>1. (IF r.owner = t THEN r.depth ELSE 0) = d
    BY <1>5, <1>7
  <2>3. \A k \in Locks : (IF held'[k].owner = t THEN held'[k].depth ELSE 0)
                            = IF k = l THEN H[l] - 1 ELSE H[k]
    BY <1>8, <1>9, <2>1 DEF HeldBy
  <2>4. Minus(H, l) = [k \in Locks |-> IF k = l THEN H[l] - 1 ELSE H[k]]
    BY DEF Minus, HeldBy
  <2>5. HeldBy(t)' = [k \in Locks |-> IF held'[k].owner = t THEN held'[k].depth ELSE 0]
    BY DEF HeldBy
  <2> QED
    BY <2>3, <2>4, <2>5
<1>14. \A u \in Threads \ {t} : HeldBy(u)' = HeldBy(u)
  <2> SUFFICES ASSUME NEW u \in Threads \ {t} PROVE HeldBy(u)' = HeldBy(u)
    OBVIOUS
  <2>1. held[l].owner # u /\ held'[l].owner # u
    BY <1>5, <1>6, <1>7, <1>9
  <2>2. \A k \in Locks : (IF held'[k].owner = u THEN held'[k].depth ELSE 0)
                            = IF held[k].owner = u THEN held[k].depth ELSE 0
    BY <1>9, <2>1
  <2> QED
    BY <2>2 DEF HeldBy
<1>15. Safe(Who(t)', HeldBy(t)', Tail(rest[t])) /\ late' \in BOOLEAN /\ late' = late
  BY <1>1, <1>3, <1>4, <1>13, WhoStays
<1>16. t = "net" => rest["net"] # From(Stop, 4)
  BY <1>2, SafeNet
<1> QED
  BY <1>1, <1>2, <1>10, <1>11, <1>14, <1>15, <1>16, ScriptStep

\* The steps that only go on: ReturnFromENet, ReadTotal, IncrementTotal, and HandleEvent
\* without an event.
LEMMA ContinueInv ==
    ASSUME ThreadsInv, NEW t \in Threads, alive[t], rest[t] # <<>>,
           Head(rest[t]).op \in ScriptOps \ {"lock", "unlock"}, Continue(t),
           UNCHANGED <<flags, m_pHost, threads, held, phase, late, raced>>
    PROVE  ThreadsInv'
<1> DEFINE e == Head(rest[t])
           H == HeldBy(t)
<1>1. /\ Safe(Who(t), H, rest[t]) /\ (phase = "new" => t = "app" /\ ~m_bServer)
      /\ t = "app" => phase # "down"
  BY AtScript
<1>2. Goes(Who(t), e) => Safe(Who(t), After(e, H), Tail(rest[t]))
  BY <1>1, SafeFirst
<1>3. Goes(Who(t), e) /\ After(e, H) = H
  BY DEF After, Goes, ScriptOps
<1>4. rest' = [rest EXCEPT ![t] = Tail(rest[t])]
  BY DEF Continue, Run
<1>5. t = "net" => rest["net"] # From(Stop, 4)
  BY <1>1, SafeNet
<1>6. Safe(Who(t)', H, Tail(rest[t])) /\ late' \in BOOLEAN /\ late' = late
  BY <1>2, <1>3, WhoStays
<1> HIDE DEF e, H
<1> QED
  BY <1>1, <1>4, <1>5, <1>6, ScriptMove DEF H

LEMMA PlainStepsInv ==
    ASSUME ThreadsInv, NEW t \in Threads,
           ReturnFromENet(t) \/ ReadTotal(t) \/ IncrementTotal(t)
    PROVE  ThreadsInv'
<1>1. /\ alive[t] /\ rest[t] # <<>> /\ Head(rest[t]).op \in ScriptOps \ {"lock", "unlock"}
  BY DEF ReturnFromENet, ReadTotal, IncrementTotal, At, ScriptOps
<1>2. Continue(t) /\ UNCHANGED <<flags, m_pHost, threads, held, phase, late, raced>>
  BY DEF ReturnFromENet, ReadTotal, IncrementTotal, app
<1> QED
  BY <1>1, <1>2, ContinueInv

LEMMA LeaveOutInv ==
    ASSUME ThreadsInv, NEW t \in Threads, LeaveOut(t)
    PROVE  ThreadsInv'
<1> DEFINE e == Head(rest[t])
           H == HeldBy(t)
           q == SubSeq(rest[t], e.skip + 2, Len(rest[t]))
<1>1. /\ alive[t] /\ rest[t] # <<>> /\ e.op = "maybe"
      /\ UNCHANGED <<flags, m_pHost, threads, held, phase, late, raced>>
  BY DEF LeaveOut, At, app
<1>2. e.op \in ScriptOps \ {"lock", "unlock"}
  BY <1>1 DEF ScriptOps
<1>3. CASE Continue(t)
  BY <1>1, <1>2, <1>3, ContinueInv
<1>4. CASE Skip(t, e.skip)
  <2>1. /\ Safe(Who(t), H, rest[t]) /\ (phase = "new" => t = "app" /\ ~m_bServer)
        /\ t = "app" => phase # "down"
    BY <1>1, <1>2, AtScript
  <2>2. Safe(Who(t), H, q)
    BY <1>1, <2>1, SafeFirst DEF Skips
  <2>3. rest' = [rest EXCEPT ![t] = q]
    BY <1>4 DEF Skip, Run
  <2>4. t = "net" => rest["net"] # From(Stop, 4)
    BY <2>1, SafeNet
  <2>5. Safe(Who(t)', H, q) /\ late' \in BOOLEAN /\ late' = late
    BY <1>1, <2>2, WhoStays
  <2> HIDE DEF q
  <2> QED
    BY <1>1, <2>1, <2>3, <2>4, <2>5, ScriptMove
<1> QED
  BY <1>3, <1>4 DEF LeaveOut

\* A thread that has nothing to do, or an event, has no lock and can begin a call.
LEMMA BeginInv ==
    ASSUME ThreadsInv, NEW t \in Threads, NEW s, alive[t], HeldBy(t) = None,
           Passes(Who(t)', s, None),
           phase = "new" => t = "app" /\ ~m_bServer, t = "app" => phase # "down",
           t = "net" => rest["net"] # From(Stop, 4),
           late' \in BOOLEAN, t # "app" => late' = late,
           Run(t, s), UNCHANGED <<flags, m_pHost, threads, held, phase, raced>>
    PROVE  ThreadsInv'
<1>1. Safe(Who(t)', HeldBy(t), s)
  BY PassesSafe
<1>2. rest' = [rest EXCEPT ![t] = s]
  BY DEF Run
<1> QED
  BY <1>1, <1>2, ScriptMove

\* An idle thread has no lock.
LEMMA IdleHolds ==
    ASSUME ThreadsInv, NEW t \in Threads, Idle(t)
    PROVE  alive[t] /\ HeldBy(t) = None /\ (t = "net" => rest["net"] # From(Stop, 4))
<1>1. alive[t] /\ rest[t] = <<>>
  BY DEF Idle
<1>2. Safe(Who(t), HeldBy(t), rest[t]) => HeldBy(t) = None
  BY <1>1, SafeFirst
<1>3. HeldBy(t) = None
  BY <1>1, <1>2 DEF ThreadsInv, ScriptInv, NetStops, Threads
<1>4. From(Stop, 4) # <<>>
  <2>1. 4 \in 1 .. 11
    OBVIOUS
  <2> QED
    BY <2>1, StopFrom
<1> QED
  BY <1>1, <1>3, <1>4

LEMMA CallsInv ==
    ASSUME ThreadsInv, CallConnect \/ CallBuild \/ CallList \/ CallReadMessage
    PROVE  ThreadsInv'
<1> DEFINE w == Who("app")
<1>1. w.lists = lists /\ w.thread = "app" /\ w' = Who("app")'
  BY WhoFacts
<1>2. PICK s : /\ Passes(Who("app")', s, None) /\ Call(s)
               /\ phase = "up" \/ (phase = "new" /\ ~m_bServer)
               /\ phase' = phase /\ late' \in BOOLEAN
  <2>1. CASE CallReadMessage
    <3>1. Passes(Who("app")', ReadMessage, None)
      BY PassesReadMessage
    <3>2. late' \in BOOLEAN
      BY <2>1 DEF CallReadMessage, ThreadsInv, Types
    <3> QED
      BY <2>1, <3>1, <3>2 DEF CallReadMessage
  <2>2. CASE CallConnect
    <3>1. /\ phase \in {"new", "up"} /\ ~m_bServer /\ Call(Connect)
          /\ late' = (late \/ phase = "up") /\ phase' = phase
      BY <2>2 DEF CallConnect
    <3>2. late' \in BOOLEAN
      BY <3>1
    <3>3. Who("app")'.thread = "app" /\ Who("app")'.mode \in {"new", "late"}
      BY <3>1 DEF Who, Mode
    <3>4. Passes(Who("app")', Connect, None)
      BY <3>3, PassesConnect
    <3> QED
      BY <3>1, <3>2, <3>4
  <2>3. CASE CallBuild
    <3>1. /\ phase = "up" /\ phase' = phase /\ late' = late
          /\ \E b \in Builds : b.thread = "app" /\ Call(Build(b.manager, b.owned))
      BY <2>3 DEF CallBuild
    <3>2. PICK b \in Builds : b.thread = "app" /\ Call(Build(b.manager, b.owned))
      BY <3>1
    <3>3. b.manager \in ManagerSet /\ b.owned \in BOOLEAN
      BY ThreadsAssumption
    <3>4. b.owned => "app" \in OwnedBuilders
      BY <3>2 DEF OwnedBuilders
    <3>5. Who("app")'.thread = "app"
      BY DEF Who
    <3>6. Passes(Who("app")', Build(b.manager, b.owned), None)
      BY <3>3, <3>4, <3>5, PassesBuild
    <3>7. late' \in BOOLEAN
      BY <3>1 DEF ThreadsInv, Types
    <3> QED
      BY <3>1, <3>2, <3>6, <3>7
  <2>4. CASE CallList
    <3>1. phase = "up" /\ phase' = phase /\ late' = late
      BY <2>4 DEF CallList
    <3>2. late' \in BOOLEAN
      BY <3>1 DEF ThreadsInv, Types
    <3>3. CASE Call(UseList)
      <4>1. Passes(Who("app")', UseList, None)
        BY FreeFacts, PassesUseList
      <4> QED
        BY <3>1, <3>2, <3>3, <4>1
    <3>4. CASE "invalidate_ents" \in lists /\ Call(InvalidateEnts)
      <4>1. lists' = lists
        BY <3>4 DEF Call, flags
      <4>2. "invalidate_ents" \in Who("app")'.lists
        BY <3>4, <4>1 DEF Who
      <4>3. Passes(Who("app")', InvalidateEnts, None)
        BY <4>2, PassesInvalidateEnts
      <4> QED
        BY <3>1, <3>2, <3>4, <4>3
    <3> QED
      BY <2>4, <3>3, <3>4 DEF CallList
  <2> QED
    BY <2>1, <2>2, <2>3, <2>4
<1>3. /\ Idle("app") /\ Run("app", s)
      /\ UNCHANGED <<flags, m_pHost, threads, held, phase, raced>>
  BY <1>2 DEF Call
<1>4. "app" \in Threads /\ "app" # "net" /\ phase # "down"
  BY <1>2 DEF Threads
<1>5. alive["app"] /\ HeldBy("app") = None
  BY <1>3, <1>4, IdleHolds
<1>6. phase = "new" => ~m_bServer
  BY <1>2
<1> QED
  BY <1>2, <1>3, <1>4, <1>5, <1>6, BeginInv

LEMMA ListenInv ==
    ASSUME ThreadsInv, Listen
    PROVE  ThreadsInv'
<1>1. /\ phase = "new" /\ m_pHost' = "open"
      /\ UNCHANGED <<flags, threads, rest, held, phase, late, raced>>
  BY DEF Listen, app
<1>2. /\ m_bServer' = m_bServer /\ m_bRunning' = m_bRunning
      /\ m_bShuttingDown' = m_bShuttingDown /\ lists' = lists /\ raced' = raced
      /\ object' = object /\ status' = status /\ alive' = alive
      /\ rest' = rest /\ held' = held /\ phase' = phase /\ late' = late
  BY <1>1 DEF flags, threads
<1>3. Types /\ ScriptInv /\ NewInv
  BY <1>1 DEF ThreadsInv, PhaseInv
<1>4. Types'
  BY <1>1, <1>2, <1>3 DEF Types
<1>5. \A t \in Threads : HeldBy(t)' = HeldBy(t) /\ Who(t)' = Who(t)
  BY <1>2 DEF HeldBy, Who, Mode
<1>6. NewInv'
  BY <1>1, <1>2, <1>3, <1>5 DEF NewInv, Workers, Threads
<1>7. HeldBy("app")' = HeldBy("app") /\ Who("app")' = Who("app") /\ phase # "down"
  BY <1>1, <1>5 DEF Threads
<1>8. ~alive["net"] /\ ~alive["sync"]
  BY <1>3 DEF NewInv, Workers
<1>9. ScriptInv'
  BY <1>2, <1>3, <1>7, <1>8 DEF ScriptInv
<1> QED
  BY <1>1, <1>2, <1>4, <1>6, <1>9 DEF ThreadsInv, PhaseInv

\* What a step of a worker, or its end, must leave.
LEMMA WorkerStep ==
    ASSUME ThreadsInv, phase # "new", phase' = phase, held' = held, lists' = lists,
           late' = late, Types', rest'["app"] = rest["app"], alive'["app"],
           alive'["sync"] => alive["sync"] /\ rest'["sync"] = rest["sync"],
           alive'["net"] => Safe(Who("net"), HeldBy("net"), rest'["net"]) \/ NetStops',
           phase = "up" => UpInv',
           raced => raced', m_bRunning' => m_bRunning,
           \A k \in 1 .. 13 : ~raced' /\ phase \in {"down", "gone"} /\ Stopped(k) => Stopped(k)'
    PROVE  ThreadsInv'
<1>1. Types /\ ScriptInv /\ PhaseInv
  BY DEF ThreadsInv
<1>2. \A u \in Threads : HeldBy(u)' = HeldBy(u) /\ Who(u)' = Who(u)
  BY DEF HeldBy, Who, Mode
<1>3. /\ HeldBy("app")' = HeldBy("app") /\ HeldBy("sync")' = HeldBy("sync")
      /\ HeldBy("net")' = HeldBy("net")
      /\ Who("app")' = Who("app") /\ Who("sync")' = Who("sync") /\ Who("net")' = Who("net")
  BY <1>2 DEF Threads
<1>4. ScriptInv'
  BY <1>1, <1>3 DEF ScriptInv
<1>5. CASE phase = "up"
  BY <1>1, <1>4, <1>5 DEF ThreadsInv, PhaseInv
<1>6. CASE phase \in {"down", "gone"}
  <2>1. PICK k \in 1 .. 13 : AtDestroy(k) /\ (k >= 10 => ~m_bRunning) /\ (~raced => Stopped(k))
    BY <1>1, <1>6 DEF PhaseInv, DownInv
  <2>2. AtDestroy(k)'
    BY <2>1 DEF AtDestroy
  <2>3. ~raced' => Stopped(k)'
    BY <1>6, <2>1
  <2>4. DownInv'
    BY <2>1, <2>2, <2>3 DEF DownInv
  <2> QED
    BY <1>4, <1>6, <2>4 DEF ThreadsInv, PhaseInv
<1> QED
  BY <1>1, <1>5, <1>6 DEF Types

LEMMA LoopInv ==
    ASSUME ThreadsInv, NEW w \in Workers, Loop(w)
    PROVE  ThreadsInv'
<1>1. /\ Idle(w) /\ UNCHANGED <<flags, m_pHost, held, phase, late, raced>>
      /\ w \in Threads /\ w # "app"
  BY DEF Loop, app, Workers, Threads
<1>2. alive[w] /\ HeldBy(w) = None /\ (w = "net" => rest["net"] # From(Stop, 4))
  BY <1>1, IdleHolds
<1>3. Types /\ ScriptInv /\ PhaseInv
  BY DEF ThreadsInv
<1>4. phase # "new"
  BY <1>2, <1>3 DEF PhaseInv, NewInv
<1>5. CASE status[w] /\ m_bRunning
  <2>0. /\ Who(w)' = Who(w) /\ late' \in BOOLEAN /\ late' = late
        /\ Who(w).lists = lists /\ Who(w).mode \in Running /\ m_bServer \in BOOLEAN
    BY <1>1, <1>3, WhoStays, WhoFacts DEF Types
  <2>1. PICK s : Passes(Who(w), s, None) /\ Run(w, s) /\ UNCHANGED threads
    <3>1. UNCHANGED threads /\ (\/ w = "net" /\ Run("net", Service)
                                \/ w = "sync" /\ Run("sync", Tick(m_bServer, lists)))
      BY <1>5 DEF Loop
    <3>2. Passes(Who(w), Service, None)
      BY <2>0, PassesService
    <3>3. Passes(Who(w), Tick(m_bServer, Who(w).lists), None)
      BY <2>0, PassesTick
    <3> QED
      BY <2>0, <3>1, <3>2, <3>3
  <2>2. UNCHANGED <<flags, m_pHost, threads, held, phase, raced>>
    BY <1>1, <2>1
  <2>3. Passes(Who(w)', s, None)
    BY <2>0, <2>1
  <2> QED
    BY <1>1, <1>2, <1>4, <2>0, <2>1, <2>2, <2>3, BeginInv
<1>6. CASE ~(status[w] /\ m_bRunning)
  <2>1. /\ status' = [status EXCEPT ![w] = FALSE] /\ alive' = [alive EXCEPT ![w] = FALSE]
        /\ object' = object /\ rest' = rest
    BY <1>6 DEF Loop
  <2>2. /\ m_bServer' = m_bServer /\ m_bRunning' = m_bRunning /\ lists' = lists
        /\ m_bShuttingDown' = m_bShuttingDown /\ raced' = raced /\ late' = late
        /\ m_pHost' = m_pHost /\ held' = held /\ phase' = phase
    BY <1>1 DEF flags
  <2>3. Types'
    BY <1>3, <2>1, <2>2 DEF Types
  <2>4. /\ alive'["app"] /\ ~alive'[w] /\ \A t \in Threads : alive'[t] => alive[t] /\ t # w
    BY <1>1, <1>3, <2>1 DEF Types, ScriptInv, Threads
  <2>5. \A v \in Workers : status'[v] \/ ~status[v] \/ v = w
    BY <1>3, <2>1 DEF Types
  <2>6. alive'["net"] => Safe(Who("net"), HeldBy("net"), rest'["net"]) \/ NetStops'
    <3>1. HeldBy("net")' = HeldBy("net")
      BY <2>2 DEF HeldBy
    <3>2. NetStops => NetStops'
      BY <2>1, <2>2, <3>1 DEF NetStops
    <3> QED
      BY <1>3, <2>1, <2>4, <3>2 DEF ScriptInv, Threads
  <2>7. NetEnds => NetEnds'
    BY <2>1, <2>4 DEF NetEnds, Threads
  <2>8. w = "net" => NetEnds'
    BY <2>4 DEF NetEnds
  <2>11. alive'["sync"] => alive["sync"] /\ rest'["sync"] = rest["sync"]
    BY <2>1, <2>4 DEF Threads
  <2>9. CASE phase = "up"
    <3>1. UpInv
      BY <1>3, <2>9 DEF PhaseInv
    <3>2. w = "net"
      BY <1>6, <3>1 DEF UpInv, Workers
    <3>3. \A v \in Workers : HeldBy(v)' = HeldBy(v)
      BY <2>2 DEF HeldBy
    <3>4. \A v \in Workers : ~alive'[v] => HeldBy(v)' = None
      <4> SUFFICES ASSUME NEW v \in Workers, ~alive'[v] PROVE HeldBy(v)' = None
        OBVIOUS
      <4>1. CASE v = w
        BY <1>2, <3>3, <4>1
      <4>2. CASE v # w
        <5>1. alive'[v] = alive[v]
          BY <1>3, <2>1, <4>2 DEF Types, Workers, Threads
        <5> QED
          BY <3>1, <3>3, <5>1 DEF UpInv
      <4> QED
        BY <4>1, <4>2
    <3>5. alive'["sync"] = alive["sync"] /\ status'["sync"] = status["sync"]
      BY <1>3, <2>1, <3>2 DEF Types, Threads, Workers
    <3>6. UpInv'
      BY <2>1, <2>2, <2>8, <3>1, <3>2, <3>4, <3>5 DEF UpInv
    <3>7. phase \notin {"down", "gone"} /\ rest'["app"] = rest["app"]
      BY <2>1, <2>9
    <3> QED
      BY <1>4, <2>2, <2>3, <2>4, <2>6, <2>11, <3>6, <3>7, WorkerStep
  <2>10. CASE phase \in {"down", "gone"}
    <3>1. ASSUME NEW k \in 1 .. 13, Stopped(k) PROVE Stopped(k)'
      <4>1. k # 4 => status'["net"] \/ NetEnds'
        BY <2>5, <2>7, <2>8, <3>1 DEF Stopped, Workers
      <4>2. /\ k # 7 => status'["sync"] \/ ~alive'["sync"]
            /\ k >= 8 => ~alive'["sync"]
        BY <2>4, <2>5, <3>1 DEF Stopped, Workers, Threads
      <4> QED
        BY <2>1, <2>2, <2>7, <3>1, <4>1, <4>2 DEF Stopped
    <3>2. phase # "up" /\ rest'["app"] = rest["app"]
      BY <2>1, <2>10
    <3> QED
      BY <1>4, <2>2, <2>3, <2>4, <2>6, <2>11, <3>1, <3>2, WorkerStep
  <2> QED
    BY <1>3, <1>4, <2>9, <2>10 DEF Types
<1> QED
  BY <1>5, <1>6

\* A step that changes only what the network thread has to do, from a safe script to
\* the start of a Stop.
LEMMA HandleEventInv ==
    ASSUME ThreadsInv, HandleEvent
    PROVE  ThreadsInv'
<1> DEFINE H == HeldBy("net")
           e == Head(rest["net"])
<1>1. /\ alive["net"] /\ rest["net"] # <<>> /\ e.op = "event" /\ "net" \in Threads
      /\ UNCHANGED <<flags, m_pHost, threads, held, phase, late, raced>>
  BY DEF HandleEvent, At, Threads
<1>2. e.op \in ScriptOps \ {"lock", "unlock"}
  BY <1>1 DEF ScriptOps
<1>3. Safe(Who("net"), H, rest["net"]) /\ phase # "new"
  BY <1>1, <1>2, AtScript
<1>4. H = None
  <2>1. May(Who("net"), e, H)
    BY <1>1, <1>3, SafeFirst
  <2> QED
    BY <1>1, <2>1 DEF May
<1>5. rest["net"] # From(Stop, 4)
  BY <1>3, SafeIsNoStop
<1>6. CASE Continue("net")
  BY <1>1, <1>2, <1>6, ContinueInv
<1>12. Who("net")' = Who("net") /\ late' \in BOOLEAN /\ late' = late
  BY <1>1, WhoStays
<1>7. ASSUME NEW s, Passes(Who("net"), s, None), Run("net", s) PROVE ThreadsInv'
  BY <1>1, <1>3, <1>4, <1>5, <1>7, <1>12, BeginInv
<1>8. CASE Run("net", Receive) \/ Run("net", ReceiveList)
  BY <1>7, <1>8, PassesReceive
<1>9. CASE Run("net", Connected(<<>>))
  <2>1. Passes(Who("net"), <<>>, None)
    BY PassesEmpty, NoneFacts
  <2> QED
    BY <1>7, <1>9, <2>1, PassesConnected
<1>10. CASE \E b \in Builds : b.thread = "net" /\ Run("net", Connected(Build(b.manager, b.owned)))
  <2>1. PICK b \in Builds : b.thread = "net" /\ Run("net", Connected(Build(b.manager, b.owned)))
    BY <1>10
  <2>2. b.manager \in ManagerSet /\ b.owned \in BOOLEAN
    BY ThreadsAssumption
  <2>3. b.owned => Who("net").thread \in OwnedBuilders
    BY <2>1, WhoFacts DEF OwnedBuilders
  <2>4. Passes(Who("net"), Build(b.manager, b.owned), None)
    BY <2>2, <2>3, PassesBuild
  <2> QED
    BY <1>7, <2>1, <2>4, PassesConnected
<1>11. CASE Run("net", Stop)
  <2>1. rest' = [rest EXCEPT !["net"] = Stop]
    BY <1>11 DEF Run
  <2>2. /\ m_bServer' = m_bServer /\ m_bRunning' = m_bRunning /\ lists' = lists
        /\ m_bShuttingDown' = m_bShuttingDown /\ raced' = raced /\ late' = late
        /\ m_pHost' = m_pHost /\ object' = object /\ status' = status /\ alive' = alive
        /\ held' = held /\ phase' = phase
    BY <1>1 DEF flags, threads
  <2>3. Types /\ ScriptInv /\ PhaseInv
    BY DEF ThreadsInv
  <2>4. /\ rest'["net"] = Stop /\ rest'["app"] = rest["app"] /\ rest'["sync"] = rest["sync"]
    BY <2>1, <2>3 DEF Types, Threads
  <2>5. Types'
    <3>1. rest' \in [Threads -> Seq(Steps)]
      BY <2>1, <2>3, StopType DEF Types
    <3> QED
      BY <2>2, <2>3, <3>1 DEF Types
  <2>6. \A t \in Threads : HeldBy(t)' = HeldBy(t)
    BY <2>2 DEF HeldBy
  <2>7. NetStops'
    <3>1. 1 \in 1 .. 12 /\ 1 <= 4 /\ From(Stop, 1) = Stop
      BY StopEnds
    <3>2. HeldBy("net")' = None
      BY <1>1, <1>4, <2>6
    <3> QED
      BY <2>4, <3>1, <3>2 DEF NetStops
  <2>8. ~NetEnds
    BY <1>1, <1>5 DEF NetEnds
  <2>9. phase = "up" => UpInv'
    <3> SUFFICES ASSUME phase = "up" PROVE UpInv'
      OBVIOUS
    <3>1. UpInv
      BY <2>3 DEF PhaseInv
    <3>2. \A w \in Workers : HeldBy(w)' = HeldBy(w)
      BY <2>6 DEF Workers, Threads
    <3> QED
      BY <2>2, <2>8, <3>1, <3>2 DEF UpInv
  <2>10. \A k \in 1 .. 13 : Stopped(k) => Stopped(k)'
    BY <2>2, <2>8 DEF Stopped
  <2>11. alive'["app"]
    BY <2>2, <2>3 DEF ScriptInv
  <2> QED
    BY <1>3, <2>2, <2>4, <2>5, <2>7, <2>9, <2>10, <2>11, WorkerStep
<1> QED
  BY <1>6, <1>8, <1>9, <1>10, <1>11 DEF HandleEvent

\* What a step of the application in Destroy must leave.
LEMMA DownStep ==
    ASSUME ThreadsInv, phase = "down", phase' = "down", held' = held, lists' = lists,
           raced' = raced, Types', alive'["app"],
           \A w \in Workers : alive'[w] => alive[w] /\ rest'[w] = rest[w],
           NEW k \in 1 .. 13, AtDestroy(k)', k >= 10 => ~m_bRunning', ~raced => Stopped(k)'
    PROVE  ThreadsInv'
<1>1. Types /\ ScriptInv /\ PhaseInv
  BY DEF ThreadsInv
<1>2. \A u \in Threads : HeldBy(u)' = HeldBy(u)
  BY DEF HeldBy
<1>3. /\ HeldBy("app")' = HeldBy("app") /\ HeldBy("sync")' = HeldBy("sync")
      /\ HeldBy("net")' = HeldBy("net")
      /\ Who("sync")' = Who("sync") /\ Who("net")' = Who("net")
  BY <1>2 DEF Threads, Who, Mode
<1>4. /\ alive'["net"] => alive["net"] /\ rest'["net"] = rest["net"]
      /\ alive'["sync"] => alive["sync"] /\ rest'["sync"] = rest["sync"]
  BY DEF Workers
<1>5. alive'["net"] /\ NetStops => NetStops'
  BY <1>3, <1>4 DEF NetStops
<1>6. ScriptInv'
  BY <1>1, <1>3, <1>4, <1>5 DEF ScriptInv
<1>7. DownInv'
  BY DEF DownInv
<1> QED
  BY <1>6, <1>7 DEF ThreadsInv, PhaseInv

LEMMA CallAfterInv ==
    ASSUME ThreadsInv, CallAfter
    PROVE  ThreadsInv'
<1>1. PICK s : Passes(Who("app")', s, None) /\ Call(s)
  <2>1. CASE Call(ReadMessage)
    BY <2>1, PassesReadMessage
  <2>2. CASE \E m \in ManagerSet : Call(DeleteManager(m, m_bServer))
    <3>1. m_bServer \in BOOLEAN
      BY DEF ThreadsInv, Types
    <3>2. PICK m \in ManagerSet : Call(DeleteManager(m, m_bServer))
      BY <2>2
    <3>3. Passes(Who("app")', DeleteManager(m, m_bServer), None)
      BY <3>1, PassesDeleteManager
    <3> QED
      BY <3>2, <3>3
  <2> QED
    BY <2>1, <2>2 DEF CallAfter
<1>2. /\ phase \in {"down", "gone"} /\ phase' = "gone" /\ late' = late /\ Idle("app")
      /\ rest' = [rest EXCEPT !["app"] = s]
      /\ UNCHANGED <<flags, m_pHost, threads, held, raced>>
  BY <1>1 DEF CallAfter, Call, Run
<1>3. /\ m_bServer' = m_bServer /\ m_bRunning' = m_bRunning /\ lists' = lists
      /\ m_bShuttingDown' = m_bShuttingDown /\ raced' = raced
      /\ m_pHost' = m_pHost /\ object' = object /\ status' = status /\ alive' = alive
      /\ held' = held
  BY <1>2 DEF flags, threads
<1>4. Types /\ ScriptInv /\ PhaseInv /\ "app" \in Threads
  BY DEF ThreadsInv, Threads
<1>5. alive["app"] /\ HeldBy("app") = None /\ rest["app"] = <<>>
  BY <1>2, <1>4, IdleHolds DEF Idle
<1>6. Safe(Who("app")', None, s)
  BY <1>1, PassesSafe
<1>7. s \in Seq(Steps)
  BY <1>6, SafeFirst
<1>8. /\ rest'["app"] = s /\ rest'["net"] = rest["net"] /\ rest'["sync"] = rest["sync"]
  BY <1>2, <1>4 DEF Types, Threads
<1>9. Types'
  <2>1. rest' \in [Threads -> Seq(Steps)]
    BY <1>2, <1>4, <1>7 DEF Types
  <2>2. phase' \in {"new", "up", "down", "gone"}
    BY <1>2
  <2> QED
    BY <1>2, <1>3, <1>4, <2>1, <2>2 DEF Types
<1>10. \A u \in Threads : HeldBy(u)' = HeldBy(u)
  BY <1>3 DEF HeldBy
<1>11. /\ HeldBy("app")' = None /\ HeldBy("sync")' = HeldBy("sync")
       /\ HeldBy("net")' = HeldBy("net")
       /\ Who("sync")' = Who("sync") /\ Who("net")' = Who("net")
  BY <1>3, <1>5, <1>10 DEF Threads, Who, Mode
<1>12. NetStops => NetStops'
  BY <1>3, <1>8, <1>11 DEF NetStops
<1>13. Safe(Who("app")', HeldBy("app")', rest'["app"])
  BY <1>6, <1>8, <1>11
<1>14. ScriptInv'
  BY <1>2, <1>3, <1>4, <1>8, <1>11, <1>12, <1>13 DEF ScriptInv
<1>15. PICK k \in 1 .. 13 : AtDestroy(k) /\ (k >= 10 => ~m_bRunning) /\ (~raced => Stopped(k))
  BY <1>2, <1>4 DEF PhaseInv, DownInv
<1>16. k = 13
  <2>1. CASE phase = "gone"
    BY <1>15, <2>1 DEF AtDestroy
  <2>2. CASE phase = "down"
    <3>1. From(Destroy, k) = <<>>
      BY <1>5, <1>15, <2>2 DEF AtDestroy
    <3>2. k \in 1 .. 12 => From(Destroy, k) # <<>>
      BY DestroyFrom
    <3> QED
      BY <3>1, <3>2
  <2> QED
    BY <1>2, <2>1, <2>2
<1>17. AtDestroy(k)'
  BY <1>2, <1>16 DEF AtDestroy
<1>18. NetEnds' = NetEnds
  BY <1>3, <1>8 DEF NetEnds
<1>19. Stopped(k) => Stopped(k)'
  BY <1>3, <1>18 DEF Stopped
<1>20. DownInv'
  BY <1>3, <1>15, <1>17, <1>19 DEF DownInv
<1> QED
  BY <1>2, <1>9, <1>14, <1>20 DEF ThreadsInv, PhaseInv

LEMMA CallDestroyInv ==
    ASSUME ThreadsInv, CallDestroy
    PROVE  ThreadsInv'
<1>1. /\ phase = "up" /\ phase' = "down" /\ Idle("app") /\ "app" \in Threads
      /\ rest' = [rest EXCEPT !["app"] = Destroy]
      /\ UNCHANGED <<flags, m_pHost, threads, held, late, raced>>
  BY DEF CallDestroy, Run, Threads
<1>2. /\ m_bServer' = m_bServer /\ m_bRunning' = m_bRunning /\ lists' = lists
      /\ m_bShuttingDown' = m_bShuttingDown /\ raced' = raced /\ late' = late
      /\ m_pHost' = m_pHost /\ object' = object /\ status' = status /\ alive' = alive
      /\ held' = held
  BY <1>1 DEF flags, threads
<1>3. Types /\ ScriptInv /\ UpInv
  BY <1>1 DEF ThreadsInv, PhaseInv
<1>4. /\ rest'["app"] = Destroy /\ rest'["net"] = rest["net"] /\ rest'["sync"] = rest["sync"]
  BY <1>1, <1>3 DEF Types, Threads
<1>5. Types'
  <2>1. rest' \in [Threads -> Seq(Steps)]
    BY <1>1, <1>3, DestroyType DEF Types
  <2> QED
    BY <1>1, <1>2, <1>3, <2>1 DEF Types
<1>6. HeldBy("app") = None
  BY <1>1, IdleHolds
<1>7. \A u \in Threads : HeldBy(u)' = HeldBy(u)
  BY <1>2 DEF HeldBy
<1>8. /\ HeldBy("app")' = None /\ HeldBy("sync")' = HeldBy("sync")
      /\ HeldBy("net")' = HeldBy("net")
      /\ Who("sync")' = Who("sync") /\ Who("net")' = Who("net")
  BY <1>2, <1>6, <1>7 DEF Threads, Who, Mode
<1>9. NetStops => NetStops'
  BY <1>2, <1>4, <1>8 DEF NetStops
<1>10. ScriptInv'
  BY <1>1, <1>2, <1>3, <1>4, <1>8, <1>9 DEF ScriptInv
<1>11. NetEnds => NetEnds'
  BY <1>2, <1>4 DEF NetEnds
<1>12. Stopped(1)'
  BY <1>2, <1>3, <1>11 DEF Stopped, UpInv, Workers
<1>13. DownInv'
  <2>1. AtDestroy(1)' /\ 1 \in 1 .. 13 /\ ~(1 >= 10)
    BY <1>1, <1>4, StopEnds DEF AtDestroy
  <2> QED
    BY <1>12, <2>1 DEF DownInv
<1> QED
  BY <1>1, <1>5, <1>10, <1>13 DEF ThreadsInv, PhaseInv

LEMMA StartInv ==
    ASSUME ThreadsInv, Start
    PROVE  ThreadsInv'
<1>1. /\ phase = "new" /\ phase' = "up" /\ m_bRunning' = TRUE /\ m_pHost = "open"
      /\ status' = [w \in Workers |-> TRUE] /\ alive' = [t \in Threads |-> TRUE]
      /\ m_bServer' = m_bServer /\ m_bShuttingDown' = m_bShuttingDown /\ raced' = raced
      /\ m_pHost' = m_pHost /\ object' = object /\ rest' = rest /\ held' = held
      /\ lists' = lists /\ late' = late /\ Idle("app")
  BY DEF Start
<1>2. Types /\ ScriptInv /\ NewInv
  BY <1>1 DEF ThreadsInv, PhaseInv
<1>3. Types'
  BY <1>1, <1>2 DEF Types
<1>4. \A t \in Threads : HeldBy(t)' = None /\ rest'[t] = <<>> /\ alive'[t]
  <2>1. "app" \in Threads
    BY DEF Threads
  <2>2. HeldBy("app") = None /\ rest["app"] = <<>>
    BY <1>1, <2>1, IdleHolds DEF Idle
  <2>3. \A t \in Threads : HeldBy(t)' = HeldBy(t)
    BY <1>1 DEF HeldBy
  <2>4. \A t \in Threads : t = "app" \/ t \in Workers
    BY DEF Threads, Workers
  <2> QED
    BY <1>1, <1>2, <2>2, <2>3, <2>4 DEF NewInv
<1>5. \A t \in Threads : Safe(Who(t)', HeldBy(t)', rest'[t])
  BY <1>4, SafeEmpty
<1>6. ScriptInv'
  BY <1>1, <1>2, <1>4, <1>5 DEF ScriptInv, Threads
<1>7. UpInv'
  <2>1. \A w \in Workers : w \in Threads /\ object'[w] /\ alive'[w] /\ status'[w]
    BY <1>1, <1>2 DEF NewInv, Workers, Threads
  <2> QED
    BY <1>1, <1>2, <2>1 DEF UpInv, NewInv, Workers
<1> QED
  BY <1>1, <1>3, <1>6, <1>7 DEF ThreadsInv, PhaseInv

-----------------------------------------------------------------------------
(* Steps of the application's Destroy.                                      *)

\* The application is at step k of Destroy.
Position(k) ==
    /\ AtDestroy(k) /\ (k >= 10 => ~m_bRunning) /\ (~raced => Stopped(k))
    /\ \/ /\ k \in 1 .. 11 /\ rest["app"] = From(Destroy, k)
          /\ StopStep(k, Head(rest["app"]))
          /\ Tail(rest["app"]) = From(Destroy, k + 1)
       \/ /\ k = 12 /\ rest["app"] = From(Destroy, k)
          /\ Head(rest["app"]).op = "wait" /\ Tail(rest["app"]) = <<>>

LEMMA AppPosition ==
    ASSUME ThreadsInv, phase = "down", rest["app"] # <<>>
    PROVE  \E k \in 1 .. 13 : Position(k)
<1>1. PICK k \in 1 .. 13 : AtDestroy(k) /\ (k >= 10 => ~m_bRunning) /\ (~raced => Stopped(k))
  BY DEF ThreadsInv, PhaseInv, DownInv
<1> QED
  BY <1>1, DownSteps DEF Position

\* A step of Destroy that ends no thread.
LEMMA AppMoves ==
    ASSUME ThreadsInv, phase = "down", NEW j \in 1 .. 13,
           rest' = [rest EXCEPT !["app"] = From(Destroy, j)],
           phase' = phase, held' = held, raced' = raced, alive' = alive, m_bServer' = m_bServer,
           lists' = lists, late' = late,
           m_bRunning' \in BOOLEAN, m_bShuttingDown' \in BOOLEAN, m_pHost' \in {"open", "null"},
           object' \in [Workers -> BOOLEAN], status' \in [Workers -> BOOLEAN],
           j >= 10 => ~m_bRunning', ~raced => Stopped(j)'
    PROVE  ThreadsInv'
<1>1. Types /\ ScriptInv
  BY DEF ThreadsInv
<1>2. /\ rest'["app"] = From(Destroy, j) /\ rest'["net"] = rest["net"] /\ rest'["sync"] = rest["sync"]
  BY <1>1 DEF Types, Threads
<1>3. Types'
  <2>1. rest' \in [Threads -> Seq(Steps)]
    BY <1>1, FromTypes DEF Types
  <2> QED
    BY <1>1, <2>1 DEF Types
<1>4. AtDestroy(j)'
  BY <1>2 DEF AtDestroy
<1>5. \A w \in Workers : alive'[w] => alive[w] /\ rest'[w] = rest[w]
  BY <1>2 DEF Workers
<1>6. alive'["app"]
  BY <1>1 DEF ScriptInv
<1> QED
  BY <1>3, <1>4, <1>5, <1>6, DownStep

\* The network thread does not move.
LEMMA NetStays ==
    ASSUME Types, NEW s, rest' = [rest EXCEPT !["app"] = s], alive' = alive
    PROVE  NetEnds' = NetEnds
<1>1. rest'["net"] = rest["net"]
  BY DEF Types, Threads
<1> QED
  BY <1>1 DEF NetEnds

LEMMA AppPlainInv ==
    ASSUME ThreadsInv, phase = "down",
           \/ BeginShutdown("app") \/ ClearRunning("app") \/ DestroyHost("app")
           \/ EndShutdown("app") \/ NullThread("app") \/ AwaitShutdown
    PROVE  ThreadsInv'
<1>1. /\ rest["app"] # <<>> /\ rest' = [rest EXCEPT !["app"] = Tail(rest["app"])]
      /\ phase' = phase /\ held' = held /\ raced' = raced /\ alive' = alive
      /\ m_bServer' = m_bServer /\ status' = status /\ lists' = lists /\ late' = late
  BY DEF BeginShutdown, ClearRunning, DestroyHost, EndShutdown, NullThread, AwaitShutdown,
         At, Continue, Run, flags, threads, app
<1>2. Types
  BY DEF ThreadsInv
<1>3. PICK k \in 1 .. 13 : Position(k)
  BY <1>1, AppPosition
<1>4. k # 13
  BY <1>3 DEF Position
<1>5. k + 1 \in 1 .. 13 /\ k \in 1 .. 12
  BY <1>4
<1>6. rest' = [rest EXCEPT !["app"] = From(Destroy, k + 1)]
  <2>1. Tail(rest["app"]) = From(Destroy, k + 1)
    <3>1. k = 12 => k + 1 = 13
      OBVIOUS
    <3> QED
      BY <1>3, <1>4, <3>1, StopEnds DEF Position
  <2> QED
    BY <1>1, <2>1
<1>7. NetEnds' = NetEnds
  BY <1>1, <1>2, NetStays
<1>8. status' \in [Workers -> BOOLEAN]
  BY <1>1, <1>2 DEF Types
<1>9. CASE BeginShutdown("app") \/ EndShutdown("app") \/ AwaitShutdown
  <2>1. /\ m_bRunning' = m_bRunning /\ m_pHost' = m_pHost /\ object' = object
        /\ m_bShuttingDown' \in BOOLEAN
    BY <1>2, <1>9 DEF BeginShutdown, EndShutdown, AwaitShutdown, flags, threads, Types
  <2>2. Head(rest["app"]).op \in {"shutting", "shut", "wait"}
    BY <1>9 DEF BeginShutdown, EndShutdown, AwaitShutdown, At
  <2>3. k = 2 \/ k = 11 \/ k = 12
    BY <1>3, <1>4, <2>2 DEF Position, StopStep
  <2>4. k + 1 >= 10 => ~m_bRunning'
    BY <1>3, <2>1, <2>3 DEF Position
  <2>5. ~raced => Stopped(k + 1)'
    <3>1. ~raced => Stopped(k)
      BY <1>3 DEF Position
    <3> QED
      BY <1>1, <1>7, <2>1, <2>3, <3>1 DEF Stopped
  <2>6. m_bRunning' \in BOOLEAN /\ m_pHost' \in {"open", "null"} /\ object' \in [Workers -> BOOLEAN]
    BY <1>2, <2>1 DEF Types
  <2> QED
    BY <1>1, <1>5, <1>6, <1>8, <2>1, <2>4, <2>5, <2>6, AppMoves
<1>10. CASE ClearRunning("app")
  <2>1. /\ m_bRunning' = FALSE /\ m_pHost' = m_pHost /\ object' = object
        /\ m_bShuttingDown' = m_bShuttingDown
    BY <1>10 DEF ClearRunning, threads
  <2>2. Head(rest["app"]).op = "stopped"
    BY <1>10 DEF ClearRunning, At
  <2>3. k = 9
    BY <1>3, <1>4, <2>2 DEF Position, StopStep
  <2>4. ~raced => Stopped(k + 1)'
    <3>1. ~raced => Stopped(k)
      BY <1>3 DEF Position
    <3> QED
      BY <1>1, <1>7, <2>1, <2>3, <3>1 DEF Stopped
  <2>5. /\ m_bShuttingDown' \in BOOLEAN /\ m_pHost' \in {"open", "null"}
        /\ object' \in [Workers -> BOOLEAN] /\ m_bRunning' \in BOOLEAN
    BY <1>2, <2>1 DEF Types
  <2>6. ~m_bRunning'
    BY <2>1
  <2> QED
    BY <1>1, <1>5, <1>6, <1>8, <2>4, <2>5, <2>6, AppMoves
<1>11. CASE DestroyHost("app")
  <2>1. /\ m_bRunning' = m_bRunning /\ m_pHost' = "null" /\ object' = object
        /\ m_bShuttingDown' = m_bShuttingDown
    BY <1>11 DEF DestroyHost, threads, flags
  <2>2. Head(rest["app"]).op = "host"
    BY <1>11 DEF DestroyHost, At
  <2>3. k = 10
    BY <1>3, <1>4, <2>2 DEF Position, StopStep
  <2>4. ~raced => Stopped(k + 1)'
    <3>1. ~raced => Stopped(k)
      BY <1>3 DEF Position
    <3> QED
      BY <1>1, <1>7, <2>1, <2>3, <3>1 DEF Stopped
  <2>5. /\ m_bShuttingDown' \in BOOLEAN /\ m_pHost' \in {"open", "null"}
        /\ object' \in [Workers -> BOOLEAN] /\ m_bRunning' \in BOOLEAN
    BY <1>2, <2>1 DEF Types
  <2>6. ~m_bRunning'
    BY <1>3, <2>1, <2>3 DEF Position
  <2> QED
    BY <1>1, <1>5, <1>6, <1>8, <2>4, <2>5, <2>6, AppMoves
<1>12. CASE NullThread("app")
  <2> DEFINE w == Head(rest["app"]).on
  <2>1. /\ m_bRunning' = m_bRunning /\ m_pHost' = m_pHost
        /\ object' = [object EXCEPT ![w] = FALSE]
        /\ m_bShuttingDown' = m_bShuttingDown
    BY <1>12 DEF NullThread, flags, On
  <2>2. Head(rest["app"]).op = "null"
    BY <1>12 DEF NullThread, At
  <2>3. (k = 5 /\ w = "net") \/ (k = 8 /\ w = "sync")
    BY <1>3, <1>4, <2>2 DEF Position, StopStep
  <2> HIDE DEF w
  <2>4. /\ m_bShuttingDown' \in BOOLEAN /\ m_pHost' \in {"open", "null"}
        /\ object' \in [Workers -> BOOLEAN] /\ m_bRunning' \in BOOLEAN
        /\ w = "net" => object'["sync"] = object["sync"]
    BY <1>2, <2>1 DEF Types, Workers
  <2>5. ~raced => Stopped(k + 1)'
    <3>1. ~raced => Stopped(k)
      BY <1>3 DEF Position
    <3> QED
      BY <1>1, <1>7, <2>1, <2>3, <2>4, <3>1 DEF Stopped
  <2>6. ~(k + 1 >= 10)
    BY <2>3
  <2> QED
    BY <1>1, <1>5, <1>6, <1>8, <2>4, <2>5, <2>6, AppMoves
<1> QED
  BY <1>9, <1>10, <1>11, <1>12

LEMMA AppClearInv ==
    ASSUME ThreadsInv, phase = "down", ClearStatus("app")
    PROVE  ThreadsInv'
<1> DEFINE w == Head(rest["app"]).on
           n == IF ~object[w] THEN 2 ELSE IF ~status[w] THEN 1 ELSE 0
<1>1. /\ rest["app"] # <<>> /\ Head(rest["app"]).op = "clear"
      /\ phase' = phase /\ held' = held /\ alive' = alive /\ object' = object
      /\ m_bServer' = m_bServer /\ m_bRunning' = m_bRunning /\ lists' = lists /\ late' = late
      /\ m_bShuttingDown' = m_bShuttingDown /\ m_pHost' = m_pHost
  BY DEF ClearStatus, At, flags, app
<1>2. raced' = raced
  <2>1. raced' = (raced \/ ("app" = "net" /\ On("app") = "net" /\ ~status["net"]))
    BY DEF ClearStatus
  <2>2. raced \in BOOLEAN
    BY DEF ThreadsInv, Types
  <2> QED
    BY <2>1, <2>2
<1>3. Types /\ w \in {"net", "sync"}
  <2>1. PICK k \in 1 .. 13 : Position(k)
    BY <1>1, AppPosition
  <2> QED
    BY <1>1, <2>1 DEF ThreadsInv, Position, StopStep
<1>4. PICK k \in 1 .. 13 : Position(k)
  BY <1>1, AppPosition
<1>5. /\ (k = 3 /\ w = "net") \/ (k = 6 /\ w = "sync")
      /\ rest["app"] = From(Destroy, k) /\ Tail(rest["app"]) = From(Destroy, k + 1)
  BY <1>1, <1>4 DEF Position, StopStep
<1>6. /\ SubSeq(rest["app"], 2 + 2, Len(rest["app"])) = From(Destroy, k + 2 + 1)
      /\ SubSeq(rest["app"], 1 + 2, Len(rest["app"])) = From(Destroy, k + 1 + 1)
  <2>1. k \in 1 .. 12 /\ 2 \in 0 .. 12 - k /\ 1 \in 0 .. 12 - k
    BY <1>5
  <2> QED
    BY <1>5, <2>1, DestroyFrom
<1>7. rest' = [rest EXCEPT !["app"] = From(Destroy, k + n + 1)]
  <2>1. CASE ~object[w]
    <3>1. rest' = [rest EXCEPT !["app"] = SubSeq(rest["app"], 2 + 2, Len(rest["app"]))]
      BY <2>1 DEF ClearStatus, Skip, Run, On
    <3> QED
      BY <1>6, <2>1, <3>1
  <2>2. CASE object[w] /\ ~status[w]
    <3>1. rest' = [rest EXCEPT !["app"] = SubSeq(rest["app"], 1 + 2, Len(rest["app"]))]
      BY <2>2 DEF ClearStatus, Skip, Run, On
    <3> QED
      BY <1>6, <2>2, <3>1
  <2>3. CASE object[w] /\ status[w]
    <3>1. rest' = [rest EXCEPT !["app"] = Tail(rest["app"])]
      BY <2>3 DEF ClearStatus, Continue, Run, On
    <3>2. k + n + 1 = k + 1
      BY <2>3
    <3> QED
      BY <1>5, <3>1, <3>2
  <2> QED
    BY <2>1, <2>2, <2>3
<1>8. status' = IF n = 0 THEN [status EXCEPT ![w] = FALSE] ELSE status
  BY DEF ClearStatus, On
<1>9. n \in 0 .. 2 /\ (n = 2 <=> ~object[w]) /\ (n = 0 => status[w]) /\ (n = 1 => ~status[w])
  OBVIOUS
<1> HIDE DEF n, w
<1>10. PICK j \in 1 .. 13 : j = k + n + 1
  BY <1>5, <1>9
<1>11. NetEnds' = NetEnds
  BY <1>1, <1>3, <1>7, NetStays
<1>12. /\ status' \in [Workers -> BOOLEAN]
       /\ w = "net" => status'["sync"] = status["sync"]
       /\ w = "sync" => status'["net"] = status["net"]
       /\ n # 0 => status' = status
  BY <1>3, <1>8 DEF Types, Workers
<1>13. ~raced => Stopped(j)'
  <2> SUFFICES ASSUME ~raced PROVE Stopped(j)'
    OBVIOUS
  <2>1. Stopped(k)
    BY <1>4 DEF Position
  <2>2. n # 2
    BY <1>5, <1>9, <2>1 DEF Stopped
  <2>3. CASE k = 3 /\ w = "net"
    <3>1. CASE n = 0
      <4>1. j = 4
        BY <1>10, <2>3, <3>1
      <4>2. Stopped(4)'
        BY <1>1, <1>11, <1>12, <2>1, <2>3 DEF Stopped
      <4> QED
        BY <4>1, <4>2
    <3>2. CASE n = 1
      <4>1. j = 5 /\ NetEnds
        BY <1>9, <1>10, <2>1, <2>3, <3>2 DEF Stopped
      <4>2. Stopped(5)'
        BY <1>1, <1>11, <1>12, <2>1, <2>3, <3>2, <4>1 DEF Stopped
      <4> QED
        BY <4>1, <4>2
    <3> QED
      BY <1>9, <2>2, <3>1, <3>2
  <2>4. CASE k = 6 /\ w = "sync"
    <3>1. CASE n = 0
      <4>1. j = 7
        BY <1>10, <2>4, <3>1
      <4>2. Stopped(7)'
        BY <1>1, <1>11, <1>12, <2>1, <2>4 DEF Stopped
      <4> QED
        BY <4>1, <4>2
    <3>2. CASE n = 1
      <4>1. j = 8 /\ ~alive["sync"]
        BY <1>9, <1>10, <2>1, <2>4, <3>2 DEF Stopped
      <4>2. Stopped(8)'
        BY <1>1, <1>11, <1>12, <2>1, <2>4, <3>2, <4>1 DEF Stopped
      <4> QED
        BY <4>1, <4>2
    <3> QED
      BY <1>9, <2>2, <3>1, <3>2
  <2> QED
    BY <1>5, <2>3, <2>4
<1>14. /\ m_bRunning' \in BOOLEAN /\ m_bShuttingDown' \in BOOLEAN /\ m_pHost' \in {"open", "null"}
       /\ object' \in [Workers -> BOOLEAN]
  BY <1>1, <1>3 DEF Types
<1>15. rest' = [rest EXCEPT !["app"] = From(Destroy, j)] /\ ~(j >= 10)
  BY <1>5, <1>7, <1>9, <1>10
<1> QED
  BY <1>1, <1>2, <1>12, <1>13, <1>14, <1>15, AppMoves

LEMMA AppTerminateInv ==
    ASSUME ThreadsInv, phase = "down", Terminate("app")
    PROVE  ThreadsInv'
<1> DEFINE w == Head(rest["app"]).on
<1>1. /\ rest["app"] # <<>> /\ Head(rest["app"]).op = "terminate"
      /\ phase' = phase /\ held' = held /\ object' = object /\ status' = status
      /\ m_bServer' = m_bServer /\ m_bRunning' = m_bRunning /\ lists' = lists /\ late' = late
      /\ m_bShuttingDown' = m_bShuttingDown /\ m_pHost' = m_pHost /\ raced' = raced
      /\ alive' = [alive EXCEPT ![w] = FALSE]
      /\ rest' = [r \in Threads |->
                    IF r = w THEN <<>> ELSE IF r = "app" THEN Tail(rest["app"]) ELSE rest[r]]
  BY DEF Terminate, At, On, flags, app
<1>2. Types /\ ScriptInv
  BY DEF ThreadsInv
<1>3. PICK k \in 1 .. 13 : Position(k)
  BY <1>1, AppPosition
<1>4. /\ (k = 4 /\ w = "net") \/ (k = 7 /\ w = "sync")
      /\ Tail(rest["app"]) = From(Destroy, k + 1)
  BY <1>1, <1>3 DEF Position, StopStep
<1> HIDE DEF w
<1>5. /\ rest'["app"] = From(Destroy, k + 1) /\ rest'[w] = <<>>
      /\ \A v \in Workers \ {w} : rest'[v] = rest[v] /\ alive'[v] = alive[v]
      /\ ~alive'[w] /\ alive'["app"] = alive["app"]
  BY <1>1, <1>2, <1>4 DEF Types, Threads, Workers
<1>6. Types'
  <2>1. From(Destroy, k + 1) \in Seq(Steps) /\ <<>> \in Seq(Steps)
    <3>1. k + 1 \in 1 .. 13
      BY <1>4
    <3>2. <<>> \in Seq(Steps)
      BY EmptySeq
    <3> QED
      BY <3>1, <3>2, FromTypes
  <2>2. rest' \in [Threads -> Seq(Steps)]
    BY <1>1, <1>2, <1>4, <2>1 DEF Types
  <2>3. alive' \in [Threads -> BOOLEAN]
    BY <1>1, <1>2 DEF Types
  <2> QED
    BY <1>1, <1>2, <2>2, <2>3 DEF Types
<1>7. k + 1 \in 1 .. 13 /\ ~(k + 1 >= 10)
  BY <1>4
<1>8. AtDestroy(k + 1)'
  BY <1>1, <1>5 DEF AtDestroy
<1>9. ~raced => Stopped(k + 1)'
  <2> SUFFICES ASSUME ~raced PROVE Stopped(k + 1)'
    OBVIOUS
  <2>1. Stopped(k)
    BY <1>3 DEF Position
  <2>2. CASE k = 4 /\ w = "net"
    <3>1. NetEnds'
      BY <1>5, <2>2 DEF NetEnds
    <3>2. alive'["sync"] = alive["sync"]
      BY <1>5, <2>2 DEF Workers
    <3>3. Stopped(5)'
      BY <1>1, <2>1, <2>2, <3>1, <3>2 DEF Stopped
    <3> QED
      BY <2>2, <3>3
  <2>3. CASE k = 7 /\ w = "sync"
    <3>1. NetEnds' = NetEnds
      BY <1>5, <2>3 DEF NetEnds, Workers
    <3>2. Stopped(8)'
      BY <1>1, <1>5, <2>1, <2>3, <3>1 DEF Stopped
    <3> QED
      BY <2>3, <3>2
  <2> QED
    BY <1>4, <2>2, <2>3
<1>10. \A v \in Workers : alive'[v] => alive[v] /\ rest'[v] = rest[v]
  BY <1>5
<1>11. alive'["app"]
  BY <1>2, <1>5 DEF ScriptInv
<1> QED
  BY <1>1, <1>6, <1>7, <1>8, <1>9, <1>10, <1>11, DownStep

LEMMA AppUnlessInv ==
    ASSUME ThreadsInv, phase = "down", ReturnUnlessRunning("app")
    PROVE  ThreadsInv'
<1>1. /\ rest["app"] # <<>> /\ Head(rest["app"]).op = "unless"
      /\ UNCHANGED <<flags, m_pHost, threads, held, phase, late, raced>>
  BY DEF ReturnUnlessRunning, At, app
<1>2. /\ m_bServer' = m_bServer /\ m_bRunning' = m_bRunning /\ lists' = lists /\ late' = late
      /\ m_bShuttingDown' = m_bShuttingDown /\ raced' = raced
      /\ m_pHost' = m_pHost /\ object' = object /\ status' = status /\ alive' = alive
      /\ held' = held /\ phase' = phase
  BY <1>1 DEF flags, threads
<1>3. Types
  BY DEF ThreadsInv
<1>4. /\ m_bRunning' \in BOOLEAN /\ m_bShuttingDown' \in BOOLEAN /\ m_pHost' \in {"open", "null"}
      /\ object' \in [Workers -> BOOLEAN] /\ status' \in [Workers -> BOOLEAN]
  BY <1>2, <1>3 DEF Types
<1>5. PICK k \in 1 .. 13 : Position(k)
  BY <1>1, AppPosition
<1>6. /\ k = 1 /\ Head(rest["app"]).skip = 10 /\ rest["app"] = From(Destroy, 1)
      /\ Tail(rest["app"]) = From(Destroy, 2)
  <2>1. /\ k \in 1 .. 11 /\ rest["app"] = From(Destroy, k)
        /\ StopStep(k, Head(rest["app"])) /\ Tail(rest["app"]) = From(Destroy, k + 1)
    BY <1>1, <1>5 DEF Position
  <2>2. k = 1 /\ Head(rest["app"]).skip = 10
    BY <1>1, <2>1, StopStepOps
  <2>3. k + 1 = 2
    BY <2>2
  <2> QED
    BY <2>1, <2>2, <2>3
<1>7. CASE m_bRunning
  <2>1. rest' = [rest EXCEPT !["app"] = From(Destroy, 2)]
    <3>1. rest' = [rest EXCEPT !["app"] = Tail(rest["app"])]
      BY <1>7 DEF ReturnUnlessRunning, Continue, Run
    <3> QED
      BY <1>6, <1>7, <3>1
  <2>2. NetEnds' = NetEnds
    BY <1>2, <1>3, <2>1, NetStays
  <2>3. ~raced => Stopped(2)'
    BY <1>2, <1>5, <1>6, <1>7, <2>2 DEF Position, Stopped
  <2> QED
    BY <1>2, <1>4, <2>1, <2>3, AppMoves
<1>8. CASE ~m_bRunning
  <2>1. rest' = [rest EXCEPT !["app"] = From(Destroy, 12)]
    <3>1. rest' = [rest EXCEPT !["app"] =
                     SubSeq(rest["app"], Head(rest["app"]).skip + 2, Len(rest["app"]))]
      BY <1>8 DEF ReturnUnlessRunning, Skip, Run
    <3>2. 10 \in 0 .. 12 - 1 /\ 1 \in 1 .. 12 /\ 1 + 10 + 1 = 12
      OBVIOUS
    <3>3. SubSeq(From(Destroy, 1), 10 + 2, Len(From(Destroy, 1))) = From(Destroy, 1 + 10 + 1)
      BY <3>2, DestroyFrom
    <3> QED
      BY <1>6, <1>8, <3>1, <3>2, <3>3
  <2>2. raced
    BY <1>5, <1>6, <1>8 DEF Position, Stopped
  <2> QED
    BY <1>2, <1>4, <1>8, <2>1, <2>2, AppMoves
<1> QED
  BY <1>7, <1>8

-----------------------------------------------------------------------------
(* Steps of the network thread's own Stop.                                  *)

\* The network thread is at step k of its Stop.
NetAt(k) ==
    /\ rest["net"] = From(Stop, k) /\ StopStep(k, Head(rest["net"]))
    /\ Tail(rest["net"]) = From(Stop, k + 1)
    /\ (~raced => k <= 4) /\ (k # 4 => ~NetEnds)

LEMMA NetPosition ==
    ASSUME ThreadsInv, alive["net"], NetStops, rest["net"] # <<>>
    PROVE  \E k \in 1 .. 11 : NetAt(k)
<1>1. PICK k \in 1 .. 12 : rest["net"] = From(Stop, k) /\ (~raced => k <= 4)
  BY DEF NetStops
<1>2. k # 12
  BY <1>1, StopEnds
<1>3. k \in 1 .. 11 /\ 4 \in 1 .. 11
  BY <1>2
<1>4. /\ StopStep(k, Head(From(Stop, k))) /\ StopStep(4, Head(From(Stop, 4)))
      /\ Tail(From(Stop, k)) = From(Stop, k + 1)
  BY <1>3, StopFrom
<1>5. k # 4 => From(Stop, k) # From(Stop, 4)
  <2> SUFFICES ASSUME From(Stop, k) = From(Stop, 4) PROVE k = 4
    OBVIOUS
  <2>1. StopStep(k, Head(From(Stop, 4))) /\ StopStep(4, Head(From(Stop, 4)))
    BY <1>4
  <2> QED
    BY <2>1 DEF StopStep
<1>6. NetAt(k)
  BY <1>1, <1>4, <1>5 DEF NetAt, NetEnds
<1> QED
  BY <1>3, <1>6

\* While it has not ended, and nothing raced, the system runs.
LEMMA NetRunning ==
    ASSUME ThreadsInv, phase # "new", ~NetEnds, ~raced
    PROVE  m_bRunning /\ object["net"] /\ (phase = "up" => status["net"])
<1>1. phase = "up" \/ phase \in {"down", "gone"}
  BY DEF ThreadsInv, Types
<1>2. CASE phase = "up"
  BY <1>2 DEF ThreadsInv, PhaseInv, UpInv, Workers
<1>3. CASE phase \in {"down", "gone"}
  <2>1. PICK k \in 1 .. 13 : Stopped(k)
    BY <1>3 DEF ThreadsInv, PhaseInv, DownInv
  <2>2. k <= 4
    BY <2>1 DEF Stopped
  <2> QED
    BY <1>3, <2>1, <2>2 DEF Stopped
<1> QED
  BY <1>1, <1>2, <1>3

\* What such a step must leave.
LEMMA NetMoves ==
    ASSUME ThreadsInv, alive["net"], phase # "new", HeldBy("net") = None, NEW j \in 1 .. 12,
           Types', phase' = phase, held' = held, lists' = lists, late' = late, alive'["app"],
           rest'["net"] = From(Stop, j), rest'["app"] = rest["app"],
           alive'["sync"] => alive["sync"] /\ rest'["sync"] = rest["sync"],
           m_bRunning' => m_bRunning, raced => raced', ~raced' => j <= 4,
           raced' => phase \in {"down", "gone"},
           ~raced' => /\ m_bRunning' = m_bRunning /\ m_pHost' = m_pHost /\ object' = object
                      /\ alive' = alive /\ status'["sync"] = status["sync"] /\ ~NetEnds
                      /\ status'["net"] = status["net"] \/ j = 4
    PROVE  ThreadsInv'
<1>1. Types /\ ScriptInv /\ PhaseInv
  BY DEF ThreadsInv
<1>2. \A t \in Threads : HeldBy(t)' = HeldBy(t)
  BY DEF HeldBy
<1>3. NetStops'
  <2>1. HeldBy("net")' = None
    BY <1>2 DEF Threads
  <2> QED
    BY <2>1 DEF NetStops
<1>4. j = 4 => NetEnds'
  BY DEF NetEnds
<1>5. ASSUME phase = "up" PROVE UpInv'
  <2>1. UpInv /\ ~raced'
    BY <1>1, <1>5 DEF PhaseInv
  <2>2. \A w \in Workers : HeldBy(w)' = HeldBy(w)
    BY <1>2 DEF Workers, Threads
  <2>3. status'["net"] \/ NetEnds'
    BY <1>4, <2>1 DEF UpInv
  <2> QED
    BY <2>1, <2>2, <2>3 DEF UpInv
<1>6. ASSUME NEW k \in 1 .. 13, ~raced', Stopped(k) PROVE Stopped(k)'
  <2>1. k <= 4
    BY <1>6 DEF Stopped
  <2>2. k # 4 => status'["net"] \/ NetEnds'
    BY <1>4, <1>6 DEF Stopped
  <2> QED
    BY <1>6, <2>1, <2>2 DEF Stopped
<1> QED
  BY <1>3, <1>5, <1>6, WorkerStep

LEMMA NetPlainInv ==
    ASSUME ThreadsInv, NetStops, phase # "new",
           \/ BeginShutdown("net") \/ ClearRunning("net") \/ DestroyHost("net")
           \/ EndShutdown("net") \/ NullThread("net")
    PROVE  ThreadsInv'
<1>1. /\ alive["net"] /\ rest["net"] # <<>>
      /\ rest' = [rest EXCEPT !["net"] = Tail(rest["net"])]
      /\ phase' = phase /\ held' = held /\ raced' = raced /\ alive' = alive
      /\ m_bServer' = m_bServer /\ status' = status /\ lists' = lists /\ late' = late
  BY DEF BeginShutdown, ClearRunning, DestroyHost, EndShutdown, NullThread,
         At, Continue, Run, flags, threads, app
<1>2. Types /\ ScriptInv
  BY DEF ThreadsInv
<1>3. PICK k \in 1 .. 11 : NetAt(k)
  BY <1>1, NetPosition
<1>4. k + 1 \in 1 .. 12 /\ Tail(rest["net"]) = From(Stop, k + 1)
  BY <1>3 DEF NetAt
<1>5. /\ m_bRunning' \in BOOLEAN /\ m_bShuttingDown' \in BOOLEAN /\ m_pHost' \in {"open", "null"}
      /\ object' \in [Workers -> BOOLEAN]
      /\ m_bRunning' => m_bRunning
  <2>1. /\ m_bRunning \in BOOLEAN /\ m_bShuttingDown \in BOOLEAN /\ m_pHost \in {"open", "null"}
        /\ object \in [Workers -> BOOLEAN]
    BY <1>2 DEF Types
  <2>2. CASE BeginShutdown("net") \/ EndShutdown("net")
    <3>1. /\ m_bRunning' = m_bRunning /\ m_pHost' = m_pHost /\ object' = object
          /\ m_bShuttingDown' \in BOOLEAN
      BY <2>2 DEF BeginShutdown, EndShutdown, threads
    <3> QED
      BY <2>1, <3>1
  <2>3. CASE ClearRunning("net")
    <3>1. /\ m_bRunning' = FALSE /\ m_pHost' = m_pHost /\ object' = object
          /\ m_bShuttingDown' = m_bShuttingDown
      BY <2>3 DEF ClearRunning, threads
    <3> QED
      BY <2>1, <3>1
  <2>4. CASE DestroyHost("net")
    <3>1. /\ m_bRunning' = m_bRunning /\ m_pHost' = "null" /\ object' = object
          /\ m_bShuttingDown' = m_bShuttingDown
      BY <2>4 DEF DestroyHost, threads, flags
    <3> QED
      BY <2>1, <3>1
  <2>5. CASE NullThread("net")
    <3>1. /\ m_bRunning' = m_bRunning /\ m_pHost' = m_pHost
          /\ object' = [object EXCEPT ![On("net")] = FALSE]
          /\ m_bShuttingDown' = m_bShuttingDown
      BY <2>5 DEF NullThread, flags
    <3> QED
      BY <2>1, <3>1
  <2> QED
    BY <2>2, <2>3, <2>4, <2>5
<1>6. rest'["net"] = From(Stop, k + 1) /\ rest'["app"] = rest["app"] /\ rest'["sync"] = rest["sync"]
  BY <1>1, <1>2, <1>4 DEF Types, Threads
<1>7. Types'
  <2>1. rest' \in [Threads -> Seq(Steps)]
    BY <1>1, <1>2, <1>4, FromTypes DEF Types
  <2> QED
    BY <1>1, <1>2, <1>5, <2>1 DEF Types
<1>8. raced => phase \in {"down", "gone"}
  BY <1>2 DEF ThreadsInv, PhaseInv, UpInv, Types
<1>9. ~raced => k = 2 /\ BeginShutdown("net")
  <2>1. \/ Head(rest["net"]).op = "shutting" /\ BeginShutdown("net")
        \/ Head(rest["net"]).op \in {"stopped", "host", "shut", "null"}
    BY DEF BeginShutdown, ClearRunning, DestroyHost, EndShutdown, NullThread, At
  <2>2. Head(rest["net"]).op \in {"stopped", "host", "shut", "null"} => k > 4
    BY <1>3 DEF NetAt, StopStep
  <2>3. Head(rest["net"]).op = "shutting" => k = 2
    BY <1>3 DEF NetAt, StopStep
  <2>4. ~raced => k <= 4
    BY <1>3 DEF NetAt
  <2>5. k > 4 => ~(k <= 4)
    OBVIOUS
  <2> QED
    BY <2>1, <2>2, <2>3, <2>4, <2>5
<1>10. ~raced' => /\ m_bRunning' = m_bRunning /\ m_pHost' = m_pHost /\ object' = object
                  /\ alive' = alive /\ status'["sync"] = status["sync"] /\ ~NetEnds
                  /\ status'["net"] = status["net"] \/ k + 1 = 4
  <2> SUFFICES ASSUME ~raced
               PROVE  /\ m_bRunning' = m_bRunning /\ m_pHost' = m_pHost /\ object' = object
                      /\ ~NetEnds
    BY <1>1
  <2>1. m_bRunning' = m_bRunning /\ m_pHost' = m_pHost /\ object' = object
    BY <1>9 DEF BeginShutdown, threads
  <2>2. ~NetEnds
    BY <1>3, <1>9 DEF NetAt
  <2> QED
    BY <2>1, <2>2
<1>11. ~raced' => k + 1 <= 4
  BY <1>1, <1>9
<1>12. alive'["app"]
  BY <1>1, <1>2 DEF ScriptInv
<1>13. HeldBy("net") = None
  BY DEF NetStops
<1> QED
  BY <1>1, <1>4, <1>5, <1>6, <1>7, <1>8, <1>10, <1>11, <1>12, <1>13, NetMoves

LEMMA NetUnlessInv ==
    ASSUME ThreadsInv, NetStops, phase # "new", ReturnUnlessRunning("net")
    PROVE  ThreadsInv'
<1>1. /\ alive["net"] /\ rest["net"] # <<>> /\ Head(rest["net"]).op = "unless"
      /\ UNCHANGED <<flags, m_pHost, threads, held, phase, late, raced>>
  BY DEF ReturnUnlessRunning, At, app
<1>2. /\ m_bServer' = m_bServer /\ m_bRunning' = m_bRunning /\ lists' = lists /\ late' = late
      /\ m_bShuttingDown' = m_bShuttingDown /\ raced' = raced
      /\ m_pHost' = m_pHost /\ object' = object /\ status' = status /\ alive' = alive
      /\ held' = held /\ phase' = phase
  BY <1>1 DEF flags, threads
<1>3. Types /\ ScriptInv
  BY DEF ThreadsInv
<1>4. PICK k \in 1 .. 11 : NetAt(k)
  BY <1>1, NetPosition
<1>5. k = 1 /\ Head(rest["net"]).skip = 10
  <2>1. StopStep(k, Head(rest["net"]))
    BY <1>4 DEF NetAt
  <2> QED
    BY <1>1, <2>1, StopStepOps
<1>6. /\ rest["net"] = From(Stop, 1) /\ Tail(rest["net"]) = From(Stop, 2) /\ ~NetEnds
  <2>1. k + 1 = 2 /\ k # 4
    BY <1>5
  <2> QED
    BY <1>4, <1>5, <2>1 DEF NetAt
<1>7. raced => phase \in {"down", "gone"}
  BY <1>3 DEF ThreadsInv, PhaseInv, UpInv, Types
<1>8. ~raced => m_bRunning
  BY <1>6, NetRunning
<1>9. ASSUME NEW j \in 1 .. 12, rest' = [rest EXCEPT !["net"] = From(Stop, j)], ~raced => j <= 4
      PROVE  ThreadsInv'
  <2>1. rest'["net"] = From(Stop, j) /\ rest'["app"] = rest["app"] /\ rest'["sync"] = rest["sync"]
    BY <1>3, <1>9 DEF Types, Threads
  <2>2. Types'
    <3>1. rest' \in [Threads -> Seq(Steps)]
      BY <1>3, <1>9, FromTypes DEF Types
    <3> QED
      BY <1>2, <1>3, <3>1 DEF Types
  <2>3. alive'["app"] /\ HeldBy("net") = None
    BY <1>2, <1>3 DEF ScriptInv, NetStops
  <2> QED
    BY <1>1, <1>2, <1>6, <1>7, <1>9, <2>1, <2>2, <2>3, NetMoves
<1>10. CASE m_bRunning
  <2>1. rest' = [rest EXCEPT !["net"] = From(Stop, 2)]
    BY <1>6, <1>10 DEF ReturnUnlessRunning, Continue, Run
  <2> QED
    BY <1>9, <2>1
<1>11. CASE ~m_bRunning
  <2>1. rest' = [rest EXCEPT !["net"] =
                   SubSeq(rest["net"], Head(rest["net"]).skip + 2, Len(rest["net"]))]
    BY <1>11 DEF ReturnUnlessRunning, Skip, Run
  <2>2. 10 \in 0 .. 11 - 1 /\ 1 \in 1 .. 11 /\ 1 + 10 + 1 = 12
    OBVIOUS
  <2>3. SubSeq(From(Stop, 1), 10 + 2, Len(From(Stop, 1))) = From(Stop, 1 + 10 + 1)
    BY <2>2, StopFrom
  <2>4. rest' = [rest EXCEPT !["net"] = From(Stop, 12)]
    BY <1>5, <1>6, <2>1, <2>2, <2>3
  <2> QED
    BY <1>8, <1>9, <1>11, <2>4
<1> QED
  BY <1>10, <1>11

LEMMA NetClearInv ==
    ASSUME ThreadsInv, NetStops, phase # "new", ClearStatus("net")
    PROVE  ThreadsInv'
<1> DEFINE w == Head(rest["net"]).on
           n == IF ~object[w] THEN 2 ELSE IF ~status[w] THEN 1 ELSE 0
<1>1. /\ alive["net"] /\ rest["net"] # <<>> /\ Head(rest["net"]).op = "clear"
      /\ phase' = phase /\ held' = held /\ alive' = alive /\ object' = object
      /\ m_bServer' = m_bServer /\ m_bRunning' = m_bRunning /\ lists' = lists /\ late' = late
      /\ m_bShuttingDown' = m_bShuttingDown /\ m_pHost' = m_pHost
  BY DEF ClearStatus, At, flags, app
<1>2. raced' = (raced \/ (w = "net" /\ ~status["net"]))
  <2>1. raced' = (raced \/ ("net" = "net" /\ On("net") = "net" /\ ~status["net"]))
    BY DEF ClearStatus
  <2> QED
    BY <2>1 DEF On
<1>3. Types /\ ScriptInv /\ PhaseInv
  BY DEF ThreadsInv
<1>4. PICK k \in 1 .. 11 : NetAt(k)
  BY <1>1, NetPosition
<1>5. /\ (k = 3 /\ w = "net") \/ (k = 6 /\ w = "sync")
      /\ rest["net"] = From(Stop, k) /\ Tail(rest["net"]) = From(Stop, k + 1)
  BY <1>1, <1>4 DEF NetAt, StopStep
<1>6. /\ SubSeq(rest["net"], 2 + 2, Len(rest["net"])) = From(Stop, k + 2 + 1)
      /\ SubSeq(rest["net"], 1 + 2, Len(rest["net"])) = From(Stop, k + 1 + 1)
  <2>1. k \in 1 .. 11 /\ 2 \in 0 .. 11 - k /\ 1 \in 0 .. 11 - k
    BY <1>5
  <2> QED
    BY <1>5, <2>1, StopFrom
<1>7. rest' = [rest EXCEPT !["net"] = From(Stop, k + n + 1)]
  <2>1. CASE ~object[w]
    <3>1. rest' = [rest EXCEPT !["net"] = SubSeq(rest["net"], 2 + 2, Len(rest["net"]))]
      BY <2>1 DEF ClearStatus, Skip, Run, On
    <3> QED
      BY <1>6, <2>1, <3>1
  <2>2. CASE object[w] /\ ~status[w]
    <3>1. rest' = [rest EXCEPT !["net"] = SubSeq(rest["net"], 1 + 2, Len(rest["net"]))]
      BY <2>2 DEF ClearStatus, Skip, Run, On
    <3> QED
      BY <1>6, <2>2, <3>1
  <2>3. CASE object[w] /\ status[w]
    <3>1. rest' = [rest EXCEPT !["net"] = Tail(rest["net"])]
      BY <2>3 DEF ClearStatus, Continue, Run, On
    <3>2. k + n + 1 = k + 1
      BY <2>3
    <3> QED
      BY <1>5, <3>1, <3>2
  <2> QED
    BY <2>1, <2>2, <2>3
<1>8. status' = IF n = 0 THEN [status EXCEPT ![w] = FALSE] ELSE status
  BY DEF ClearStatus, On
<1>9. n \in 0 .. 2 /\ (object[w] /\ status[w] => n = 0)
  OBVIOUS
<1> HIDE DEF n, w
<1>10. PICK j \in 1 .. 12 : j = k + n + 1
  BY <1>5, <1>9
<1>11. rest' = [rest EXCEPT !["net"] = From(Stop, j)]
  BY <1>7, <1>10
<1>12. rest'["net"] = From(Stop, j) /\ rest'["app"] = rest["app"] /\ rest'["sync"] = rest["sync"]
  BY <1>3, <1>11 DEF Types, Threads
<1>13. /\ status' \in [Workers -> BOOLEAN]
       /\ w = "net" => status'["sync"] = status["sync"]
  BY <1>3, <1>8 DEF Types, Workers
<1>14. raced' \in BOOLEAN /\ (raced => raced')
  BY <1>2
<1>15. Types'
  <2>1. rest' \in [Threads -> Seq(Steps)]
    BY <1>3, <1>11, FromTypes DEF Types
  <2> QED
    BY <1>1, <1>3, <1>13, <1>14, <2>1 DEF Types
<1>16. k = 3 => ~NetEnds
  BY <1>4 DEF NetAt
<1>17. raced' => phase \in {"down", "gone"}
  <2>1. CASE raced
    BY <1>3, <2>1 DEF PhaseInv, UpInv, Types
  <2>2. CASE ~raced /\ raced'
    <3>1. w = "net" /\ ~status["net"]
      BY <1>2, <2>2
    <3>2. ~NetEnds
      BY <1>5, <1>16, <3>1
    <3>3. phase # "up"
      BY <2>2, <3>1, <3>2, NetRunning
    <3> QED
      BY <1>3, <3>3 DEF Types
  <2> QED
    BY <2>1, <2>2
<1>18. ASSUME ~raced'
       PROVE  k = 3 /\ w = "net" /\ j = 4 /\ ~NetEnds
  <2>1. ~raced
    BY <1>14, <1>18
  <2>2. k # 6
    BY <1>4, <2>1 DEF NetAt
  <2>3. k = 3 /\ w = "net" /\ ~NetEnds
    BY <1>5, <1>16, <2>2
  <2>4. status["net"]
    BY <1>2, <1>18, <2>3
  <2>5. object["net"]
    BY <2>1, <2>3, NetRunning
  <2>6. n = 0
    BY <1>9, <2>3, <2>4, <2>5
  <2> QED
    BY <1>10, <2>3, <2>6
<1>19. ~raced' => /\ m_bRunning' = m_bRunning /\ m_pHost' = m_pHost /\ object' = object
                  /\ alive' = alive /\ status'["sync"] = status["sync"] /\ ~NetEnds
                  /\ status'["net"] = status["net"] \/ j = 4
  BY <1>1, <1>13, <1>18
<1>20. ~raced' => j <= 4
  BY <1>18
<1>21. alive'["app"] /\ HeldBy("net") = None /\ (m_bRunning' => m_bRunning)
       /\ (alive'["sync"] => alive["sync"] /\ rest'["sync"] = rest["sync"])
  BY <1>1, <1>3, <1>12 DEF ScriptInv, NetStops
<1> QED
  BY <1>1, <1>12, <1>14, <1>15, <1>17, <1>19, <1>20, <1>21, NetMoves

LEMMA NetTerminateInv ==
    ASSUME ThreadsInv, NetStops, phase # "new", Terminate("net")
    PROVE  ThreadsInv'
<1> DEFINE w == Head(rest["net"]).on
<1>1. /\ alive["net"] /\ rest["net"] # <<>> /\ Head(rest["net"]).op = "terminate"
      /\ phase' = phase /\ held' = held /\ object' = object /\ status' = status
      /\ m_bServer' = m_bServer /\ m_bRunning' = m_bRunning /\ lists' = lists /\ late' = late
      /\ m_bShuttingDown' = m_bShuttingDown /\ m_pHost' = m_pHost /\ raced' = raced
      /\ alive' = [alive EXCEPT ![w] = FALSE]
      /\ rest' = [r \in Threads |->
                    IF r = w THEN <<>> ELSE IF r = "net" THEN Tail(rest["net"]) ELSE rest[r]]
  BY DEF Terminate, At, On, flags, app
<1>2. Types /\ ScriptInv /\ PhaseInv
  BY DEF ThreadsInv
<1>3. PICK k \in 1 .. 11 : NetAt(k)
  BY <1>1, NetPosition
<1>4. /\ (k = 4 /\ w = "net") \/ (k = 7 /\ w = "sync")
      /\ rest["net"] = From(Stop, k) /\ Tail(rest["net"]) = From(Stop, k + 1)
  BY <1>1, <1>3 DEF NetAt, StopStep
<1> HIDE DEF w
<1>5. Types'
  <2>1. From(Stop, k + 1) \in Seq(Steps) /\ <<>> \in Seq(Steps)
    <3>1. k + 1 \in 1 .. 12
      OBVIOUS
    <3>2. <<>> \in Seq(Steps)
      BY EmptySeq
    <3> QED
      BY <3>1, <3>2, FromTypes
  <2>2. rest' \in [Threads -> Seq(Steps)]
    BY <1>1, <1>2, <1>4, <2>1 DEF Types
  <2>3. alive' \in [Threads -> BOOLEAN]
    BY <1>1, <1>2 DEF Types
  <2> QED
    BY <1>1, <1>2, <2>2, <2>3 DEF Types
<1>6. /\ rest'["app"] = rest["app"] /\ alive'["app"] = alive["app"] /\ alive'["app"]
  BY <1>1, <1>2, <1>4 DEF Types, Threads, ScriptInv
<1>7. CASE k = 4 /\ w = "net"
  <2>1. /\ ~alive'["net"] /\ alive'["sync"] = alive["sync"] /\ rest'["sync"] = rest["sync"]
    BY <1>1, <1>2, <1>7 DEF Types, Threads
  <2>2. NetEnds'
    BY <2>1 DEF NetEnds
  <2>3. \A v \in Workers : HeldBy(v)' = HeldBy(v)
    BY <1>1 DEF HeldBy
  <2>4. ASSUME phase = "up" PROVE UpInv'
    <3>1. UpInv
      BY <1>2, <2>4 DEF PhaseInv
    <3>2. \A v \in Workers : ~alive'[v] => HeldBy(v)' = None
      BY <2>1, <2>3, <3>1 DEF UpInv, Workers, NetStops
    <3> QED
      BY <1>1, <2>1, <2>2, <3>1, <3>2 DEF UpInv
  <2>5. ASSUME NEW i \in 1 .. 13, Stopped(i) PROVE Stopped(i)'
    BY <1>1, <2>1, <2>2, <2>5 DEF Stopped
  <2> QED
    BY <1>1, <1>5, <1>6, <2>1, <2>4, <2>5, WorkerStep
<1>8. CASE k = 7 /\ w = "sync"
  <2>1. raced
    BY <1>3, <1>8 DEF NetAt
  <2>2. phase \in {"down", "gone"}
    BY <1>2, <2>1 DEF PhaseInv, UpInv, Types
  <2>3. k + 1 = 8 /\ 8 \in 1 .. 12
    BY <1>8
  <2>4. rest'["net"] = From(Stop, 8) /\ ~alive'["sync"]
    BY <1>1, <1>2, <1>4, <1>8, <2>3 DEF Types, Threads
  <2>5. HeldBy("net") = None /\ raced'
    BY <1>1, <2>1 DEF NetStops
  <2> QED
    BY <1>1, <1>5, <1>6, <2>2, <2>3, <2>4, <2>5, NetMoves
<1> QED
  BY <1>4, <1>7, <1>8

-----------------------------------------------------------------------------
(* The invariant.                                                           *)

LEMMA UnlessInv ==
    ASSUME ThreadsInv, NEW t \in Threads, ReturnUnlessRunning(t)
    PROVE  ThreadsInv'
<1>1. /\ alive[t] /\ rest[t] # <<>> /\ Head(rest[t]).op = "unless"
      /\ UNCHANGED <<flags, m_pHost, threads, held, phase, late, raced>>
  BY DEF ReturnUnlessRunning, At, app
<1>2. Types /\ ScriptInv /\ PhaseInv
  BY DEF ThreadsInv
<1>3. m_bRunning => /\ phase # "new"
                    /\ phase = "up" \/ phase = "down" \/ t # "app"
  <2>1. phase = "new" => ~m_bRunning
    BY <1>2 DEF PhaseInv, NewInv
  <2>2. phase = "gone" => ~m_bRunning
    <3> SUFFICES ASSUME phase = "gone" PROVE ~m_bRunning
      OBVIOUS
    <3>1. PICK k \in 1 .. 13 : AtDestroy(k) /\ (k >= 10 => ~m_bRunning)
      BY <1>2 DEF PhaseInv, DownInv
    <3>2. k = 13
      BY <3>1 DEF AtDestroy
    <3> QED
      BY <3>1, <3>2
  <2> QED
    BY <1>2, <2>1, <2>2 DEF Types
<1>9. phase = "new" => t = "app" /\ ~m_bServer
  BY <1>1, <1>2 DEF PhaseInv, NewInv, Workers, Threads
<1>4. ASSUME Safe(Who(t), HeldBy(t), rest[t]), t = "app" => phase # "down"
      PROVE  ThreadsInv'
  <2>1. t = "net" => rest["net"] # From(Stop, 4)
    BY <1>4, SafeNet
  <2>2. /\ Goes(Who(t), Head(rest[t])) =>
             Safe(Who(t), After(Head(rest[t]), HeldBy(t)), Tail(rest[t]))
        /\ Safe(Who(t), HeldBy(t), SubSeq(rest[t], Head(rest[t]).skip + 2, Len(rest[t])))
    BY <1>1, <1>4, SafeFirst DEF Skips
  <2>3. After(Head(rest[t]), HeldBy(t)) = HeldBy(t)
    BY <1>1 DEF After
  <2>4. m_bRunning => Goes(Who(t), Head(rest[t]))
    <3>1. m_bRunning => Who(t).mode \in Running
      BY <1>3, <1>4, WhoFacts
    <3> QED
      BY <3>1 DEF Goes
  <2>5. PICK s : rest' = [rest EXCEPT ![t] = s] /\ Safe(Who(t), HeldBy(t), s)
    <3>1. CASE m_bRunning
      BY <2>2, <2>3, <2>4, <3>1 DEF ReturnUnlessRunning, Continue, Run
    <3>2. CASE ~m_bRunning
      BY <2>2, <3>2 DEF ReturnUnlessRunning, Skip, Run
    <3> QED
      BY <3>1, <3>2
  <2>6. Safe(Who(t)', HeldBy(t), s) /\ late' \in BOOLEAN /\ late' = late
    BY <1>1, <2>5, WhoStays
  <2> QED
    BY <1>1, <1>4, <1>9, <2>1, <2>5, <2>6, ScriptMove
<1>5. CASE t = "app"
  <2>1. CASE phase = "down"
    BY <1>5, <2>1, AppUnlessInv
  <2>2. CASE phase # "down"
    <3>1. Safe(Who("app"), HeldBy("app"), rest["app"])
      BY <1>2, <2>2 DEF ScriptInv
    <3> QED
      BY <1>4, <1>5, <2>2, <3>1
  <2> QED
    BY <2>1, <2>2
<1>6. CASE t = "sync"
  <2>1. Safe(Who("sync"), HeldBy("sync"), rest["sync"])
    BY <1>1, <1>2, <1>6 DEF ScriptInv
  <2> QED
    BY <1>4, <1>6, <2>1
<1>7. CASE t = "net"
  <2>1. Safe(Who("net"), HeldBy("net"), rest["net"]) \/ NetStops
    BY <1>1, <1>2, <1>7 DEF ScriptInv
  <2>2. CASE NetStops
    <3>1. phase # "new"
      BY <1>7, <1>9
    <3> QED
      BY <1>7, <2>2, <3>1, NetUnlessInv
  <2>3. CASE Safe(Who("net"), HeldBy("net"), rest["net"])
    BY <1>4, <1>7, <2>3
  <2> QED
    BY <2>1, <2>2, <2>3
<1> QED
  BY <1>5, <1>6, <1>7 DEF Threads

\* The steps of Stop and Destroy.
LEMMA StopStepsInv ==
    ASSUME ThreadsInv, NEW t \in Threads,
           \/ BeginShutdown(t) \/ ClearStatus(t) \/ Terminate(t) \/ NullThread(t)
           \/ ClearRunning(t) \/ DestroyHost(t) \/ EndShutdown(t)
           \/ (t = "app" /\ AwaitShutdown)
    PROVE  ThreadsInv'
<1>1. alive[t] /\ rest[t] # <<>> /\ Head(rest[t]).op \in StopOps \cup {"wait"}
  BY DEF BeginShutdown, ClearStatus, Terminate, NullThread, ClearRunning, DestroyHost,
         EndShutdown, AwaitShutdown, At, StopOps
<1>2. \/ t = "app" /\ phase = "down"
      \/ t = "net" /\ NetStops /\ phase # "new" /\ Head(rest[t]).op # "wait"
  BY <1>1, AtStop
<1>3. CASE t = "app" /\ phase = "down"
  BY <1>3, AppPlainInv, AppClearInv, AppTerminateInv
<1>4. CASE t = "net" /\ NetStops /\ phase # "new"
  BY <1>4, NetPlainInv, NetClearInv, NetTerminateInv
<1> QED
  BY <1>2, <1>3, <1>4

LEMMA GoInv ==
    ASSUME ThreadsInv, NEW t \in Threads, Go(t)
    PROVE  ThreadsInv'
<1>1. CASE Lock(t)
  BY <1>1, LockInv
<1>2. CASE Unlock(t)
  BY <1>2, UnlockInv
<1>7. CASE LeaveOut(t)
  BY <1>7, LeaveOutInv
<1>3. CASE ReturnFromENet(t) \/ ReadTotal(t) \/ IncrementTotal(t)
  BY <1>3, PlainStepsInv
<1>4. CASE ReturnUnlessRunning(t)
  BY <1>4, UnlessInv
<1>5. CASE \/ BeginShutdown(t) \/ ClearStatus(t) \/ Terminate(t) \/ NullThread(t)
           \/ ClearRunning(t) \/ DestroyHost(t) \/ EndShutdown(t)
           \/ (t = "app" /\ AwaitShutdown)
  BY <1>5, StopStepsInv
<1>6. CASE t = "net" /\ HandleEvent
  BY <1>6, HandleEventInv
<1> QED
  BY <1>1, <1>2, <1>3, <1>4, <1>5, <1>6, <1>7 DEF Go

LEMMA StutterInv ==
    ASSUME ThreadsInv, UNCHANGED vars
    PROVE  ThreadsInv'
<1>1. /\ m_bServer' = m_bServer /\ m_bRunning' = m_bRunning
      /\ m_bShuttingDown' = m_bShuttingDown /\ raced' = raced
      /\ m_pHost' = m_pHost /\ object' = object /\ status' = status /\ alive' = alive
      /\ held' = held /\ phase' = phase /\ rest' = rest /\ lists' = lists /\ late' = late
  BY DEF vars, flags, threads, app
<1>2. Types /\ ScriptInv /\ PhaseInv
  BY DEF ThreadsInv
<1>3. Types'
  BY <1>1, <1>2 DEF Types
<1>4. \A t \in Threads : HeldBy(t)' = HeldBy(t) /\ Who(t)' = Who(t)
  BY <1>1 DEF HeldBy, Who, Mode
<1>5. /\ HeldBy("app")' = HeldBy("app") /\ HeldBy("net")' = HeldBy("net")
      /\ HeldBy("sync")' = HeldBy("sync")
      /\ Who("app")' = Who("app") /\ Who("net")' = Who("net") /\ Who("sync")' = Who("sync")
  BY <1>4 DEF Threads
<1>6. NetStops' = NetStops
  BY <1>1, <1>5 DEF NetStops
<1>7. ScriptInv'
  BY <1>1, <1>2, <1>5, <1>6 DEF ScriptInv
<1>8. NetEnds' = NetEnds
  BY <1>1 DEF NetEnds
<1>9. PhaseInv'
  <2>1. NewInv => NewInv'
    BY <1>1, <1>4 DEF NewInv, Workers, Threads
  <2>2. UpInv => UpInv'
    BY <1>1, <1>4, <1>8 DEF UpInv, Workers, Threads
  <2>3. \A k \in 1 .. 13 : Stopped(k) => Stopped(k)'
    BY <1>1, <1>8 DEF Stopped
  <2>4. DownInv => DownInv'
    BY <1>1, <2>3 DEF DownInv, AtDestroy
  <2> QED
    BY <1>1, <1>2, <2>1, <2>2, <2>4 DEF PhaseInv
<1> QED
  BY <1>3, <1>7, <1>9 DEF ThreadsInv

LEMMA NextInv ==
    ASSUME ThreadsInv, [Next]_vars
    PROVE  ThreadsInv'
<1>1. CASE Listen \/ Start
  BY <1>1, ListenInv, StartInv
<1>2. CASE CallConnect \/ CallBuild \/ CallList \/ CallReadMessage
  BY <1>2, CallsInv
<1>3. CASE CallAfter
  BY <1>3, CallAfterInv
<1>4. CASE CallDestroy
  BY <1>4, CallDestroyInv
<1>5. CASE \E w \in Workers : Loop(w)
  BY <1>5, LoopInv
<1>6. CASE \E t \in Threads : Go(t)
  BY <1>6, GoInv
<1>7. CASE Done \/ UNCHANGED vars
  BY <1>7, StutterInv DEF Done
<1> QED
  BY <1>1, <1>2, <1>3, <1>4, <1>5, <1>6, <1>7 DEF Next

LEMMA InitInv ==
    ASSUME Init
    PROVE  ThreadsInv
<1>1. <<>> \in Seq(Steps)
  BY EmptySeq
<1>2. \A l \in Locks : held[l].owner = NoThread /\ held[l].depth = 0
  BY DEF Init
<1>3. \A t \in Threads : rest[t] = <<>> /\ HeldBy(t) = None
  BY <1>2, LocksFacts DEF Init, HeldBy, None
<1>4. Types
  <2>1. rest \in [Threads -> Seq(Steps)]
    BY <1>1 DEF Init
  <2>2. held \in HeldType
    BY DEF Init, HeldType
  <2>3. \A l \in Locks : (held[l].depth = 0) = (held[l].owner = NoThread)
    BY <1>2
  <2>4. /\ object \in [Workers -> BOOLEAN] /\ status \in [Workers -> BOOLEAN]
        /\ alive \in [Threads -> BOOLEAN]
    BY DEF Init
  <2>5. m_bServer \in BOOLEAN /\ lists \subseteq {"NetworkUpdate", "invalidate_ents"}
    <3>1. PICK a \in Applications : m_bServer = a.server /\ lists = a.lists
      BY DEF Init
    <3>2. a.server \in BOOLEAN /\ a.lists \in SUBSET {"NetworkUpdate", "invalidate_ents"}
      BY ThreadsAssumption
    <3> QED
      BY <3>1, <3>2
  <2>6. /\ m_bRunning \in BOOLEAN /\ m_bShuttingDown \in BOOLEAN /\ raced \in BOOLEAN
        /\ late \in BOOLEAN /\ m_pHost \in {"open", "null"}
        /\ phase \in {"new", "up", "down", "gone"}
    BY DEF Init
  <2> QED
    BY <2>1, <2>2, <2>3, <2>4, <2>5, <2>6 DEF Types
<1>5. ScriptInv
  <2>1. alive["app"] /\ ~alive["net"] /\ ~alive["sync"] /\ phase = "new"
    BY DEF Init, Threads
  <2>2. rest["app"] = <<>> /\ HeldBy("app") = None
    BY <1>3 DEF Threads
  <2>3. Safe(Who("app"), HeldBy("app"), rest["app"])
    BY <2>2, SafeEmpty
  <2> QED
    BY <1>2, <2>1, <2>3, LocksFacts DEF ScriptInv
<1>6. PhaseInv
  <2>1. NewInv
    BY <1>3 DEF Init, NewInv, Workers, Threads
  <2> QED
    BY <2>1 DEF PhaseInv, Init
<1> QED
  BY <1>4, <1>5, <1>6 DEF ThreadsInv

\* The inductive invariant holds in every state: what each thread has still to do fits
\* the locks it has, and Destroy has stopped what its position says.
THEOREM ThreadsCorrect == Spec => []ThreadsInv
<1>1. Init => ThreadsInv
  BY InitInv
<1>2. ThreadsInv /\ [Next]_vars => ThreadsInv'
  BY NextInv
<1> QED
  BY <1>1, <1>2, PTL DEF Spec

\* Every variable of the threads' state has its type, and the depth of a lock and its
\* owner agree.
THEOREM TypeCorrect == Spec => []TypeOK
<1>1. ThreadsInv => TypeOK
  <2> SUFFICES ASSUME ThreadsInv PROVE TypeOK
    OBVIOUS
  <2>1. Types
    BY DEF ThreadsInv
  <2>2. \A l \in Locks : /\ held[l].owner \in Threads \cup {NoThread}
                         /\ held[l].depth \in Nat
    BY <2>1 DEF Types, HeldType
  <2> QED
    BY <2>1, <2>2 DEF Types, TypeOK
<1> QED
  BY <1>1, ThreadsCorrect, PTL

-----------------------------------------------------------------------------
(* Who waits for whom.                                                      *)

LEMMA WaitFacts ==
    ASSUME ThreadsInv, NEW t \in Threads, NEW u \in WaitsFor(t)
    PROVE  /\ u \in Threads /\ u # t /\ HeldBy(u)[On(t)] > 0 /\ HeldBy(t)[On(t)] = 0
           /\ MayWait(Who(t), On(t), HeldBy(t))
           /\ phase = "new" => t = "app"
           /\ t = "app" => phase # "down"
<1>1. /\ alive[t] /\ rest[t] # <<>> /\ Head(rest[t]).op = "lock"
      /\ u = held[On(t)].owner /\ u # t /\ u # NoThread
  BY DEF WaitsFor, At
<1>2. Head(rest[t]).op \in ScriptOps
  BY <1>1 DEF ScriptOps
<1>3. /\ Safe(Who(t), HeldBy(t), rest[t])
      /\ phase = "new" => t = "app"
      /\ t = "app" => phase # "down"
  BY <1>1, <1>2, AtScript
<1>4. May(Who(t), Head(rest[t]), HeldBy(t))
  BY <1>1, <1>3, SafeFirst
<1>5. MayWait(Who(t), On(t), HeldBy(t))
  BY <1>1, <1>4 DEF May, On
<1>6. On(t) \in Locks
  BY <1>5 DEF MayWait
<1>7. u \in Threads /\ held[On(t)].depth \in Nat /\ held[On(t)].depth # 0
  BY <1>1, <1>6 DEF ThreadsInv, Types, HeldType
<1>8. HeldBy(u)[On(t)] = held[On(t)].depth /\ HeldBy(t)[On(t)] = 0
  BY <1>1, <1>6 DEF HeldBy
<1>9. HeldBy(u)[On(t)] > 0
  BY <1>7, <1>8
<1> QED
  BY <1>1, <1>3, <1>5, <1>7, <1>8, <1>9

\* Before Destroy nobody waits for a lock that an ended thread keeps; after it the
\* application does only if it goes on to read messages or to delete managers, and never
\* for m_ENET_RW: whatever Stop has terminated, and wherever it was.
THEOREM OrphanCorrect == Spec => []NoOrphanedWait
<1>1. ThreadsInv => NoOrphanedWait
  <2> SUFFICES ASSUME ThreadsInv, NEW t \in Threads, NEW u \in WaitsFor(t), ~alive[u]
               PROVE  IF t = "app" THEN phase = "gone" /\ On(t) # "m_ENET_RW"
                                   ELSE phase \in {"down", "gone"}
    BY DEF NoOrphanedWait
  <2>1. /\ u \in Threads /\ HeldBy(u)[On(t)] > 0 /\ MayWait(Who(t), On(t), HeldBy(t))
        /\ t = "app" => phase # "down"
    BY WaitFacts
  <2>2. u \in Workers
    BY <2>1 DEF ThreadsInv, ScriptInv, Threads, Workers
  <2>3. On(t) \in Locks
    BY <2>1 DEF MayWait
  <2>4. HeldBy(u) # None
    <3> SUFFICES ASSUME HeldBy(u) = None PROVE FALSE
      OBVIOUS
    <3>1. None[On(t)] = 0
      BY <2>3, NoneFacts
    <3>2. None[On(t)] > 0
      BY <2>1
    <3> QED
      BY <3>1, <3>2
  <2>5. phase # "new" /\ phase # "up"
    BY <2>2, <2>4 DEF ThreadsInv, PhaseInv, NewInv, UpInv
  <2>6. phase \in {"down", "gone"}
    BY <2>5 DEF ThreadsInv, Types
  <2>7. ASSUME t = "app" PROVE On(t) # "m_ENET_RW"
    <3>1. Who("app").mode = "gone"
      BY <2>1, <2>6, <2>7, WhoFacts
    <3>2. "gone" \notin Running
      BY DEF Running
    <3> QED
      BY <2>1, <2>7, <3>1, <3>2 DEF MayWait
  <2> QED
    BY <2>1, <2>6, <2>7
<1> QED
  BY <1>1, ThreadsCorrect, PTL

\* No threads wait for each other in a circle, for any managers and in any order of
\* locking, as long as one thread at most builds with owners, and an application that
\* uses a list in NetworkUpdate does not call invalidate_ents.
THEOREM CircularCorrect ==
    ASSUME \A t, u \in OwnedBuilders : t = u
    PROVE  Spec => []NoCircularWait
<1>1. ThreadsInv => NoCircularWait
  <2> SUFFICES ASSUME ThreadsInv, lists # {"NetworkUpdate", "invalidate_ents"},
                      NEW S \in SUBSET Threads, S # {},
                      \A t \in S : WaitsFor(t) \cap S # {}
               PROVE  FALSE
    BY DEF NoCircularWait
  <2>1. "invalidate_ents" \notin lists \/ "NetworkUpdate" \notin lists
    BY DEF ThreadsInv, Types
  <2>2. ASSUME NEW t \in S
        PROVE  MayWait(Who(t), On(t), HeldBy(t)) /\ HeldBy(t)[On(t)] = 0
    <3>1. t \in Threads
      OBVIOUS
    <3>2. PICK u : u \in WaitsFor(t)
      OBVIOUS
    <3> QED
      BY <3>1, <3>2, WaitFacts
  <2>3. ASSUME NEW t \in S, NEW u \in S, u \in WaitsFor(t)
        PROVE  /\ u # t /\ HeldBy(u)[On(t)] > 0
               /\ On(t) \in ManagerSet \/ On(t) = "m_Mutex"
               /\ On(t) \in ManagerSet => HasManager(HeldBy(u))
               /\ On(t) # On(u)
    <3>1. t \in Threads /\ u \in Threads
      OBVIOUS
    <3>2. u # t /\ HeldBy(u)[On(t)] > 0
      BY <2>3, <3>1, WaitFacts
    <3>3. MayWait(Who(u), On(u), HeldBy(u)) /\ HeldBy(u)[On(u)] = 0
      BY <2>2
    <3>4. On(t) # "m_ENET_RW" /\ On(t) # "m_MessagesMutex"
      BY <3>2, <3>3 DEF MayWait
    <3>5. On(t) \in Locks
      BY <2>2 DEF MayWait
    <3>6. On(t) \in ManagerSet => HasManager(HeldBy(u))
      BY <3>2 DEF HasManager
    <3> QED
      BY <3>2, <3>3, <3>4, <3>5, <3>6 DEF Locks
  <2>4. ASSUME NEW t \in S, NEW u \in S, u \in WaitsFor(t),
               On(t) \in ManagerSet, On(u) \in ManagerSet
        PROVE  u \in OwnedBuilders
    <3>1. HasManager(HeldBy(u)) /\ MayWait(Who(u), On(u), HeldBy(u))
      BY <2>2, <2>3, <2>4
    <3> QED
      BY <2>4, <3>1, WhoFacts DEF MayWait
  <2>5. PICK t \in S : TRUE
    OBVIOUS
  <2>6. PICK u \in S : u \in WaitsFor(t)
    OBVIOUS
  <2>7. PICK v \in S : v \in WaitsFor(u)
    OBVIOUS
  <2>8. PICK x \in S : x \in WaitsFor(v)
    OBVIOUS
  <2>9. ~(On(t) \in ManagerSet /\ On(u) \in ManagerSet /\ On(v) \in ManagerSet)
    <3> SUFFICES ASSUME On(t) \in ManagerSet, On(u) \in ManagerSet, On(v) \in ManagerSet
                 PROVE  FALSE
      OBVIOUS
    <3>1. u \in OwnedBuilders
      BY <2>4, <2>6
    <3>2. v \in OwnedBuilders
      BY <2>4, <2>7
    <3>3. v # u
      BY <2>3, <2>7
    <3> QED
      BY <3>1, <3>2, <3>3
  <2>10. "m_Mutex" \notin ManagerSet
    BY LocksFacts
  <2>11. CASE "invalidate_ents" \notin lists
    <3>1. ASSUME NEW r \in S, NEW s \in S, s \in WaitsFor(r) PROVE On(r) \in ManagerSet
      <4> SUFFICES ASSUME On(r) = "m_Mutex" PROVE FALSE
        BY <2>3, <3>1
      <4>1. HeldBy(s)["m_Mutex"] > 0 /\ On(s) # "m_Mutex"
        BY <2>3, <3>1
      <4>2. PICK q \in S : q \in WaitsFor(s)
        OBVIOUS
      <4>3. On(s) \in ManagerSet
        BY <2>3, <4>1, <4>2
      <4>4. MayWait(Who(s), On(s), HeldBy(s))
        BY <2>2
      <4> QED
        BY <2>11, <4>1, <4>3, <4>4, WhoFacts DEF MayWait
    <3> QED
      BY <2>6, <2>7, <2>8, <2>9, <3>1
  <2>12. CASE "NetworkUpdate" \notin lists
    <3>1. ASSUME NEW r \in S, NEW s \in S, s \in WaitsFor(r), On(r) \in ManagerSet
          PROVE  On(s) \in ManagerSet
      <4>1. HasManager(HeldBy(s)) /\ MayWait(Who(s), On(s), HeldBy(s))
        BY <2>2, <2>3, <3>1
      <4>2. On(s) # "m_Mutex"
        BY <2>12, <4>1, WhoFacts DEF MayWait
      <4>3. PICK q \in S : q \in WaitsFor(s)
        OBVIOUS
      <4> QED
        BY <2>3, <4>2, <4>3
    <3>2. On(t) \notin ManagerSet
      BY <2>6, <2>7, <2>9, <3>1
    <3>3. On(t) = "m_Mutex" /\ On(u) # "m_Mutex"
      BY <2>3, <2>6, <3>2
    <3>4. On(u) \in ManagerSet
      BY <2>3, <2>7, <3>3
    <3>5. On(v) \in ManagerSet
      BY <2>7, <3>1, <3>4
    <3>6. On(x) \in ManagerSet
      BY <2>8, <3>1, <3>5
    <3>7. v \in OwnedBuilders /\ x \in OwnedBuilders /\ x # v
      BY <2>3, <2>4, <2>7, <2>8, <3>4, <3>5, <3>6
    <3> QED
      BY <3>7
  <2> QED
    BY <2>1, <2>11, <2>12
<1> QED
  BY <1>1, ThreadsCorrect, PTL

-----------------------------------------------------------------------------
(* Who is inside ENet.                                                      *)

LEMMA HostAt ==
    ASSUME ThreadsInv, ~raced, NEW t \in Threads, At(t, "host")
    PROVE  t = "app" /\ phase = "down" /\ NetEnds /\ ~alive["sync"]
<1>1. /\ alive[t] /\ rest[t] # <<>> /\ Head(rest[t]).op = "host"
  BY DEF At
<1>2. \/ t = "app" /\ phase = "down"
      \/ t = "net" /\ NetStops
  BY <1>1, AtStop DEF StopOps
<1>3. CASE t = "net" /\ NetStops
  <2>1. PICK k \in 1 .. 11 : NetAt(k)
    BY <1>1, <1>3, NetPosition
  <2>2. k = 10 /\ k <= 4
    BY <1>1, <1>3, <2>1 DEF NetAt, StopStep
  <2> QED
    BY <2>2
<1>4. CASE t = "app" /\ phase = "down"
  <2>1. PICK k \in 1 .. 13 : Position(k)
    BY <1>1, <1>4, AppPosition
  <2>2. k = 10
    BY <1>1, <1>4, <2>1 DEF Position, StopStep
  <2>3. Stopped(10)
    BY <2>1, <2>2 DEF Position
  <2> QED
    BY <1>4, <2>3 DEF Stopped
<1> QED
  BY <1>2, <1>3, <1>4

LEMMA ENetAt ==
    ASSUME ThreadsInv, ~raced, NEW t \in Threads, At(t, "enet")
    PROVE  /\ HeldBy(t)["m_ENET_RW"] > 0 /\ m_pHost = "open" /\ ~At("app", "host")
           /\ phase # "new"
<1>1. /\ alive[t] /\ rest[t] # <<>> /\ Head(rest[t]).op = "enet"
  BY DEF At
<1>2. Head(rest[t]).op \in ScriptOps
  BY <1>1 DEF ScriptOps
<1>3. /\ Safe(Who(t), HeldBy(t), rest[t]) /\ (phase = "new" => t = "app")
  BY <1>1, <1>2, AtScript
<1>4. HeldBy(t)["m_ENET_RW"] > 0 /\ Who(t).mode \in Running
  <2>1. May(Who(t), Head(rest[t]), HeldBy(t))
    BY <1>1, <1>3, SafeFirst
  <2> QED
    BY <1>1, <2>1 DEF May
<1>5. rest[t] # From(Stop, 4)
  BY <1>3, SafeIsNoStop
<1>6. t = "app" => phase = "up"
  <2>1. "new" \notin Running /\ "down" \notin Running /\ "gone" \notin Running
    BY DEF Running
  <2> QED
    BY <1>4, <2>1, WhoFacts DEF ThreadsInv, Types
<1>7. t = "sync" \/ (t = "net" /\ ~NetEnds) \/ phase = "up"
  BY <1>1, <1>5, <1>6 DEF NetEnds, Threads
<1>8. ~At("app", "host")
  <2> SUFFICES ASSUME At("app", "host") PROVE FALSE
    OBVIOUS
  <2>1. "app" \in Threads
    BY DEF Threads
  <2>2. phase = "down" /\ NetEnds /\ ~alive["sync"]
    BY <2>1, HostAt
  <2> QED
    BY <1>1, <1>7, <2>2
<1>9. CASE phase = "up"
  BY <1>4, <1>8, <1>9 DEF ThreadsInv, PhaseInv, UpInv
<1>10. CASE phase \in {"down", "gone"}
  <2>1. PICK k \in 1 .. 13 : Stopped(k)
    BY <1>10 DEF ThreadsInv, PhaseInv, DownInv
  <2>2. k <= 10
    BY <1>1, <1>7, <1>10, <2>1 DEF Stopped
  <2>3. m_pHost = "open"
    BY <2>1, <2>2 DEF Stopped
  <2> QED
    BY <1>4, <1>8, <1>10, <2>3
<1> QED
  BY <1>3, <1>6, <1>9, <1>10 DEF ThreadsInv, Types

LEMMA ConnectAt ==
    ASSUME ThreadsInv, ~late, NEW t \in Threads, At(t, "connect")
    PROVE  t = "app" /\ phase = "new" /\ m_pHost = "open"
<1>1. /\ alive[t] /\ rest[t] # <<>> /\ Head(rest[t]).op = "connect"
  BY DEF At
<1>2. Head(rest[t]).op \in ScriptOps
  BY <1>1 DEF ScriptOps
<1>3. /\ Safe(Who(t), HeldBy(t), rest[t]) /\ (phase = "new" => ~m_bServer)
  BY <1>1, <1>2, AtScript
<1>4. May(Who(t), Head(rest[t]), HeldBy(t))
  BY <1>1, <1>3, SafeFirst
<1>5. t = "app" /\ Who(t).mode \in {"new", "late"}
  BY <1>1, <1>4, WhoFacts DEF May
<1>6. phase = "new"
  <2>1. Mode("app") \in {"new", "late"}
    BY <1>5 DEF Who
  <2>2. phase # "up"
    BY <2>1 DEF Mode
  <2>3. phase \in {"new", "late"}
    BY <2>1, <2>2 DEF Mode
  <2> QED
    BY <2>3 DEF ThreadsInv, Types
<1>7. m_pHost = "open"
  BY <1>3, <1>6 DEF ThreadsInv, PhaseInv, NewInv
<1> QED
  BY <1>5, <1>6, <1>7

\* Unless the network thread has left its own object's destructor, or a client has called
\* Connect after Start, two threads are never inside ENet together, and none is when there
\* is no host, although Connect and Stop enter it without m_ENET_RW.
THEOREM ENetCorrect == Spec => []ENetSafe
<1>1. ThreadsInv => ENetSafe
  <2> SUFFICES ASSUME ThreadsInv, ~raced, ~late, NEW t \in Threads, InENet(t)
               PROVE  /\ At(t, "enet") \/ At(t, "connect") => m_pHost = "open"
                      /\ \A u \in Threads \ {t} : ~InENet(u)
    BY DEF ENetSafe
  <2>1. At(t, "enet") \/ At(t, "connect") => m_pHost = "open"
    BY ENetAt, ConnectAt
  <2>2. ASSUME NEW u \in Threads, u # t, InENet(u) PROVE FALSE
    <3>1. CASE At(t, "enet") /\ At(u, "enet")
      <4>1. HeldBy(t)["m_ENET_RW"] > 0 /\ HeldBy(u)["m_ENET_RW"] > 0
        BY <3>1, ENetAt
      <4> QED
        BY <2>2, <4>1, LocksFacts DEF HeldBy
    <3>2. CASE At(t, "enet") /\ At(u, "host")
      <4>1. u = "app" /\ ~At("app", "host")
        BY <3>2, ENetAt, HostAt
      <4> QED
        BY <3>2, <4>1
    <3>3. CASE At(t, "host") /\ At(u, "enet")
      <4>1. t = "app" /\ ~At("app", "host")
        BY <3>3, ENetAt, HostAt
      <4> QED
        BY <3>3, <4>1
    <3>4. CASE At(t, "host") /\ At(u, "host")
      BY <2>2, <3>4, HostAt
    <3>5. CASE At(t, "connect")
      <4>1. t = "app" /\ phase = "new"
        BY <3>5, ConnectAt
      <4>2. ~At(u, "enet")
        BY <4>1, ENetAt
      <4>3. ~At(u, "host")
        BY <4>1, HostAt
      <4>4. ~At(u, "connect")
        BY <2>2, <4>1, ConnectAt
      <4> QED
        BY <2>2, <4>2, <4>3, <4>4 DEF InENet
    <3>6. CASE At(u, "connect")
      <4>1. u = "app" /\ phase = "new"
        BY <3>6, ConnectAt
      <4>2. ~At(t, "enet")
        BY <4>1, ENetAt
      <4>3. ~At(t, "host")
        BY <4>1, HostAt
      <4>4. ~At(t, "connect")
        BY <2>2, <4>1, ConnectAt
      <4> QED
        BY <4>2, <4>3, <4>4 DEF InENet
    <3> QED
      BY <2>2, <3>1, <3>2, <3>3, <3>4, <3>5, <3>6 DEF InENet
  <2> QED
    BY <2>1, <2>2
<1> QED
  BY <1>1, ThreadsCorrect, PTL
=============================================================================
