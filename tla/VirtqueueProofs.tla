--------------------------- MODULE VirtqueueProofs ---------------------------
(***************************************************************************)
(* What the rings of a virtqueue hold, for every queue size and index      *)
(* width: the indexes wrap at IdxMod and the slots at QSize, and a ring    *)
(* behaves as a queue as long as no more than QSize entries are pending.   *)
(* InputProofs and GpuRequestsProofs rest on these lemmas.                 *)
(***************************************************************************)
EXTENDS Virtqueue, FiniteSetTheorems, SequenceTheorems, TLAPS

-----------------------------------------------------------------------------
(* Remainders by a divisor that is not a literal. *)
LEMMA ModFacts ==
    ASSUME NEW a \in Int, NEW b \in Nat \ {0}
    PROVE  /\ a % b \in 0 .. b - 1
           /\ \E q \in Int : a = b * q + (a % b)
<1>1. a % b \in 0 .. b - 1
  OBVIOUS
<1>2. a \div b \in Int
  OBVIOUS
<1>3. a = b * (a \div b) + (a % b)
  OBVIOUS
<1> QED BY <1>1, <1>2, <1>3

(* The remainder, from the quotient. *)
LEMMA ModUnique ==
    ASSUME NEW b \in Nat \ {0}, NEW q \in Int, NEW r \in 0 .. b - 1
    PROVE  (b * q + r) % b = r
OBVIOUS

(* Indexes of the ring: their successors and the distance of two of them. *)
LEMMA IndexFacts ==
    ASSUME NEW i \in Indexes, NEW j \in Indexes
    PROVE  /\ IdxMod \in Nat /\ IdxMod > 1 /\ QSize \in Nat /\ QSize > 0
           /\ i \in Nat /\ i < IdxMod /\ j \in Nat /\ j < IdxMod
           /\ wrapping_add(i) = (IF i = IdxMod - 1 THEN 0 ELSE i + 1)
           /\ wrapping_add(i) \in Indexes
           /\ (i - j) % IdxMod = (IF i >= j THEN i - j ELSE i - j + IdxMod)
<1>1. /\ IdxMod \in Nat /\ IdxMod > 1 /\ QSize \in Nat /\ QSize > 0
      /\ i \in Nat /\ i < IdxMod /\ j \in Nat /\ j < IdxMod
  BY RingAssumption DEF Indexes
<1>2. wrapping_add(i) = (IF i = IdxMod - 1 THEN 0 ELSE i + 1)
  <2>1. CASE i = IdxMod - 1
    <3>1. IdxMod * 1 + 0 = i + 1
      BY <1>1, <2>1
    <3> QED BY <1>1, <2>1, <3>1, ModUnique DEF wrapping_add
  <2>2. CASE i # IdxMod - 1
    <3>1. IdxMod * 0 + (i + 1) = i + 1 /\ i + 1 \in 0 .. IdxMod - 1
      BY <1>1, <2>2
    <3> QED BY <1>1, <2>2, <3>1, ModUnique DEF wrapping_add
  <2> QED BY <2>1, <2>2
<1>3. (i - j) % IdxMod = (IF i >= j THEN i - j ELSE i - j + IdxMod)
  <2>1. CASE i >= j
    <3>1. IdxMod * 0 + (i - j) = i - j /\ i - j \in 0 .. IdxMod - 1
      BY <1>1, <2>1
    <3> QED BY <1>1, <2>1, <3>1, ModUnique
  <2>2. CASE i < j
    <3>1. /\ IdxMod * (-1) + (i - j + IdxMod) = i - j
          /\ i - j + IdxMod \in 0 .. IdxMod - 1
      BY <1>1, <2>2
    <3>2. (IdxMod * (-1) + (i - j + IdxMod)) % IdxMod = i - j + IdxMod
      BY <1>1, <3>1, ModUnique
    <3> QED BY <1>1, <2>2, <3>1, <3>2
  <2> QED BY <1>1, <2>1, <2>2
<1> QED BY <1>1, <1>2, <1>3 DEF Indexes

(* The slots of QSize successive indexes differ, and a slot is the same    *)
(* before and after the wrap-around of its index.                          *)
LEMMA SlotFacts ==
    ASSUME NEW i \in Nat
    PROVE  /\ Slot(i) \in Descs
           /\ Slot(IdxMod + i) = Slot(i)
           /\ \A j \in 1 .. QSize - 1 : Slot(i + j) # Slot(i)
<1>1. QSize \in Nat \ {0} /\ IdxMod \in Nat /\ IdxMod % QSize = 0
  BY RingAssumption
<1>2. Slot(i) \in Descs
  BY <1>1, ModFacts DEF Slot, Descs
<1>3. PICK q \in Int : i = QSize * q + Slot(i)
  <2>1. i \in Int
    OBVIOUS
  <2>2. \E n \in Int : i = QSize * n + (i % QSize)
    BY <1>1, <2>1, ModFacts, Zenon
  <2> QED BY <2>2 DEF Slot
<1>4. Slot(IdxMod + i) = Slot(i)
  <2>1. PICK m \in Int : IdxMod = QSize * m + 0
    <3>1. \E n \in Int : IdxMod = QSize * n + (IdxMod % QSize)
      <4>1. IdxMod \in Int
        BY <1>1
      <4> QED BY <1>1, <4>1, ModFacts, Zenon
    <3> QED BY <1>1, <3>1
  <2>2. IdxMod + i = QSize * (m + q) + Slot(i)
    BY <1>1, <1>2, <1>3, <2>1 DEF Descs
  <2>3. m + q \in Int /\ Slot(i) \in 0 .. QSize - 1
    BY <1>2 DEF Descs
  <2>4. (QSize * (m + q) + Slot(i)) % QSize = Slot(i)
    BY <1>1, <2>3, ModUnique
  <2> QED BY <2>2, <2>4 DEF Slot
<1>5. ASSUME NEW j \in 1 .. QSize - 1
      PROVE  Slot(i + j) # Slot(i)
  <2>1. CASE Slot(i) + j < QSize
    <3>1. /\ i + j = QSize * q + (Slot(i) + j)
          /\ Slot(i) + j \in 0 .. QSize - 1
      BY <1>1, <1>2, <1>3, <2>1 DEF Descs
    <3>2. (QSize * q + (Slot(i) + j)) % QSize = Slot(i) + j
      BY <1>1, <3>1, ModUnique
    <3>3. Slot(i + j) = Slot(i) + j
      BY <3>1, <3>2 DEF Slot
    <3> QED BY <1>1, <1>2, <3>3 DEF Descs
  <2>2. CASE Slot(i) + j >= QSize
    <3>1. /\ i + j = QSize * (q + 1) + (Slot(i) + j - QSize)
          /\ Slot(i) + j - QSize \in 0 .. QSize - 1 /\ q + 1 \in Int
      BY <1>1, <1>2, <1>3, <2>2 DEF Descs
    <3>2. (QSize * (q + 1) + (Slot(i) + j - QSize)) % QSize = Slot(i) + j - QSize
      BY <1>1, <3>1, ModUnique
    <3>3. Slot(i + j) = Slot(i) + j - QSize
      BY <3>1, <3>2 DEF Slot
    <3> QED BY <1>1, <1>2, <3>3 DEF Descs
  <2> QED BY <1>1, <1>2, <2>1, <2>2 DEF Descs
<1> QED BY <1>2, <1>4, <1>5

-----------------------------------------------------------------------------
(* Sequences whose elements differ, as they grow, shrink and are joined. *)
LEMMA AppendFacts ==
    ASSUME NEW S, NEW s \in Seq(S), NEW e \in S
    PROVE  /\ Append(s, e) \in Seq(S) /\ Len(Append(s, e)) = Len(s) + 1
           /\ Range(Append(s, e)) = Range(s) \cup {e}
           /\ IsInjective(s) /\ e \notin Range(s) => IsInjective(Append(s, e))
<1>1. /\ Append(s, e) \in Seq(S) /\ Len(s) \in Nat
      /\ Len(Append(s, e)) = Len(s) + 1
      /\ DOMAIN Append(s, e) = 1 .. Len(s) + 1 /\ DOMAIN s = 1 .. Len(s)
      /\ \A i \in 1 .. Len(s) : Append(s, e)[i] = s[i]
      /\ Append(s, e)[Len(s) + 1] = e
  BY AppendProperties, LenProperties
<1>2. Range(Append(s, e)) = Range(s) \cup {e}
  BY <1>1 DEF Range
<1>3. ASSUME IsInjective(s), e \notin Range(s),
             NEW a \in 1 .. Len(s) + 1, NEW b \in 1 .. Len(s) + 1,
             Append(s, e)[a] = Append(s, e)[b]
      PROVE  a = b
  <2>1. CASE a \in 1 .. Len(s) /\ b \in 1 .. Len(s)
    BY <2>1, <1>1, <1>3 DEF IsInjective
  <2>2. CASE a \in 1 .. Len(s) /\ b = Len(s) + 1
    BY <2>2, <1>1, <1>3 DEF Range
  <2>3. CASE a = Len(s) + 1 /\ b \in 1 .. Len(s)
    BY <2>3, <1>1, <1>3 DEF Range
  <2> QED BY <2>1, <2>2, <2>3, <1>1
<1> QED BY <1>1, <1>2, <1>3 DEF IsInjective

(* A sequence without its first element. *)
LEMMA TailFacts ==
    ASSUME NEW S, NEW s \in Seq(S), s # <<>>
    PROVE  /\ Head(s) \in S /\ Tail(s) \in Seq(S)
           /\ Len(s) \in Nat \ {0} /\ Len(Tail(s)) = Len(s) - 1
           /\ Range(s) = Range(Tail(s)) \cup {Head(s)}
           /\ IsInjective(s) => /\ IsInjective(Tail(s))
                                /\ Head(s) \notin Range(Tail(s))
<1>1. /\ Head(s) \in S /\ Tail(s) \in Seq(S) /\ Len(s) \in Nat \ {0}
      /\ Len(Tail(s)) = Len(s) - 1
      /\ DOMAIN s = 1 .. Len(s) /\ DOMAIN Tail(s) = 1 .. Len(s) - 1
      /\ \A i \in 1 .. Len(s) - 1 : Tail(s)[i] = s[i + 1]
      /\ Head(s) = s[1]
  BY HeadTailProperties, LenProperties, EmptySeq
<1>2. Range(s) \subseteq Range(Tail(s)) \cup {Head(s)}
  <2> SUFFICES ASSUME NEW i \in 1 .. Len(s), i # 1
               PROVE  s[i] \in Range(Tail(s))
    BY <1>1 DEF Range
  <2>1. i - 1 \in 1 .. Len(s) - 1 /\ Tail(s)[i - 1] = s[i]
    BY <1>1
  <2> QED BY <2>1, <1>1 DEF Range
<1>3. Range(Tail(s)) \cup {Head(s)} \subseteq Range(s)
  BY <1>1 DEF Range
<1>4. ASSUME IsInjective(s)
      PROVE  IsInjective(Tail(s)) /\ Head(s) \notin Range(Tail(s))
  <2>1. \A a, b \in 1 .. Len(s) : s[a] = s[b] => a = b
    BY <1>1, <1>4 DEF IsInjective
  <2>2. \A a \in 1 .. Len(s) - 1 : a + 1 \in 1 .. Len(s) /\ a + 1 # 1
    BY <1>1
  <2>3. Head(s) \notin Range(Tail(s))
    BY <1>1, <2>1, <2>2 DEF Range
  <2>4. \A a, b \in 1 .. Len(s) - 1 : s[a + 1] = s[b + 1] => a = b
    BY <1>1, <2>1
  <2> QED BY <1>1, <2>3, <2>4 DEF IsInjective
<1> QED BY <1>1, <1>2, <1>3, <1>4

(* QueueFreeDescs: a stack popped at its end. *)
LEMMA FrontFacts ==
    ASSUME NEW S, NEW s \in Seq(S), s # <<>>
    PROVE  /\ Last(s) \in S /\ Front(s) \in Seq(S)
           /\ Len(s) \in Nat \ {0} /\ Len(Front(s)) = Len(s) - 1
           /\ Range(s) = Range(Front(s)) \cup {Last(s)}
           /\ IsInjective(s) => /\ IsInjective(Front(s))
                                /\ Last(s) \notin Range(Front(s))
<1>1. Len(s) \in Nat \ {0} /\ DOMAIN s = 1 .. Len(s)
  BY LenProperties, EmptySeq
<1>2. Last(s) = s[Len(s)] /\ Last(s) \in S
  BY <1>1, ElementOfSeq DEF Last
<1>3. /\ Front(s) \in Seq(S) /\ Len(Front(s)) = Len(s) - 1
      /\ \A i \in 1 .. Len(s) - 1 : Front(s)[i] = s[i]
      /\ DOMAIN Front(s) = 1 .. Len(s) - 1
  <2>1. \A i \in 1 .. Len(s) - 1 : s[i] \in S
    BY <1>1, ElementOfSeq
  <2>2. /\ Front(s) \in Seq(S) /\ Len(Front(s)) = Len(s) - 1
        /\ \A i \in 1 .. Len(s) - 1 : Front(s)[i] = s[i]
    BY <1>1, <2>1, SubSeqProperties DEF Front
  <2> QED BY <2>2, LenProperties
<1>4. \A n \in Nat \ {0} :
         /\ \A i \in 1 .. n : i \in 1 .. n - 1 \/ i = n
         /\ \A i \in 1 .. n - 1 : i \in 1 .. n /\ i # n
         /\ n \in 1 .. n
  OBVIOUS
<1>5. /\ \A i \in DOMAIN s : i \in DOMAIN Front(s) \/ i = Len(s)
      /\ \A i \in DOMAIN Front(s) : i \in DOMAIN s /\ i # Len(s)
      /\ Len(s) \in DOMAIN s
  BY <1>1, <1>3, <1>4, Zenon
<1>6. \A i \in DOMAIN Front(s) : Front(s)[i] = s[i]
  BY <1>3, Zenon
<1>7. Range(s) = Range(Front(s)) \cup {Last(s)}
  <2>1. Range(s) \subseteq Range(Front(s)) \cup {Last(s)}
    BY <1>2, <1>5, <1>6, Zenon DEF Range
  <2>2. Range(Front(s)) \cup {Last(s)} \subseteq Range(s)
    BY <1>2, <1>5, <1>6, Zenon DEF Range
  <2> QED BY <2>1, <2>2
<1>8. ASSUME IsInjective(s)
      PROVE  IsInjective(Front(s)) /\ Last(s) \notin Range(Front(s))
  BY <1>2, <1>5, <1>6, <1>8, Zenon DEF IsInjective, Range
<1> QED BY <1>1, <1>2, <1>3, <1>7, <1>8

(* One sequence after another. *)
LEMMA ConcatFacts ==
    ASSUME NEW S, NEW s \in Seq(S), NEW t \in Seq(S)
    PROVE  /\ s \o t \in Seq(S) /\ Len(s \o t) = Len(s) + Len(t)
           /\ Range(s \o t) = Range(s) \cup Range(t)
           /\ IsInjective(s \o t) <=> /\ IsInjective(s) /\ IsInjective(t)
                                      /\ Range(s) \cap Range(t) = {}
<1>1. /\ s \o t \in Seq(S) /\ Len(s \o t) = Len(s) + Len(t)
      /\ Len(s) \in Nat /\ Len(t) \in Nat
      /\ DOMAIN s = 1 .. Len(s) /\ DOMAIN t = 1 .. Len(t)
      /\ DOMAIN (s \o t) = 1 .. Len(s) + Len(t)
  BY ConcatProperties, LenProperties
<1>2. /\ \A i \in 1 .. Len(s) : /\ i \in 1 .. Len(s) + Len(t)
                                 /\ (s \o t)[i] = s[i]
      /\ \A i \in 1 .. Len(t) : /\ Len(s) + i \in 1 .. Len(s) + Len(t)
                                 /\ (s \o t)[Len(s) + i] = t[i]
  BY <1>1, ConcatProperties
<1>3. \A i \in 1 .. Len(s) + Len(t) :
         i \in 1 .. Len(s) \/ \E j \in 1 .. Len(t) : i = Len(s) + j
  <2> SUFFICES ASSUME NEW i \in 1 .. Len(s) + Len(t), i \notin 1 .. Len(s)
               PROVE  \E j \in 1 .. Len(t) : i = Len(s) + j
    OBVIOUS
  <2>1. i - Len(s) \in 1 .. Len(t) /\ i = Len(s) + (i - Len(s))
    BY <1>1
  <2> QED BY <2>1
<1>4. Range(s \o t) = Range(s) \cup Range(t)
  <2>1. ASSUME NEW x \in Range(s \o t) PROVE x \in Range(s) \cup Range(t)
    <3>1. PICK i \in 1 .. Len(s) + Len(t) : x = (s \o t)[i]
      BY <1>1, <2>1 DEF Range
    <3>2. CASE i \in 1 .. Len(s)
      BY <1>1, <1>2, <3>1, <3>2 DEF Range
    <3>3. CASE \E j \in 1 .. Len(t) : i = Len(s) + j
      BY <1>1, <1>2, <3>1, <3>3 DEF Range
    <3> QED BY <1>3, <3>2, <3>3
  <2>2. Range(s) \cup Range(t) \subseteq Range(s \o t)
    BY <1>1, <1>2 DEF Range
  <2> QED BY <2>1, <2>2
<1>5. ASSUME IsInjective(s \o t)
      PROVE  IsInjective(s) /\ IsInjective(t) /\ Range(s) \cap Range(t) = {}
  <2>1. \A a, b \in 1 .. Len(s) + Len(t) : (s \o t)[a] = (s \o t)[b] => a = b
    BY <1>1, <1>5 DEF IsInjective
  <2>2. IsInjective(s)
    BY <1>1, <1>2, <2>1 DEF IsInjective
  <2>3. IsInjective(t)
    <3> SUFFICES ASSUME NEW a \in 1 .. Len(t), NEW b \in 1 .. Len(t), t[a] = t[b]
                 PROVE  a = b
      BY <1>1 DEF IsInjective
    <3>1. Len(s) + a = Len(s) + b
      BY <1>2, <2>1
    <3> QED BY <3>1, <1>1
  <2>4. Range(s) \cap Range(t) = {}
    <3> SUFFICES ASSUME NEW a \in 1 .. Len(s), NEW b \in 1 .. Len(t), s[a] = t[b]
                 PROVE  FALSE
      BY <1>1 DEF Range
    <3>1. a = Len(s) + b
      BY <1>2, <2>1
    <3> QED BY <3>1, <1>1
  <2> QED BY <2>2, <2>3, <2>4
<1>6. ASSUME IsInjective(s), IsInjective(t), Range(s) \cap Range(t) = {}
      PROVE  IsInjective(s \o t)
  <2> SUFFICES ASSUME NEW a \in 1 .. Len(s) + Len(t), NEW b \in 1 .. Len(s) + Len(t),
                      (s \o t)[a] = (s \o t)[b]
               PROVE  a = b
    BY <1>1 DEF IsInjective
  <2>1. \A i \in 1 .. Len(s), j \in 1 .. Len(t) : s[i] # t[j]
    BY <1>1, <1>6, Zenon DEF Range
  <2>2. CASE a \in 1 .. Len(s) /\ b \in 1 .. Len(s)
    BY <2>2, <1>1, <1>2, <1>6 DEF IsInjective
  <2>3. CASE a \in 1 .. Len(s) /\ \E j \in 1 .. Len(t) : b = Len(s) + j
    BY <2>1, <2>3, <1>2
  <2>4. CASE b \in 1 .. Len(s) /\ \E j \in 1 .. Len(t) : a = Len(s) + j
    BY <2>1, <2>4, <1>2
  <2>5. ASSUME NEW i \in 1 .. Len(t), NEW j \in 1 .. Len(t),
               a = Len(s) + i, b = Len(s) + j
        PROVE  a = b
    <3>1. t[i] = t[j]
      BY <2>5, <1>2
    <3>2. i = j
      BY <3>1, <1>1, <1>6 DEF IsInjective
    <3> QED BY <3>2, <2>5
  <2> QED BY <1>3, <2>2, <2>3, <2>4, <2>5
<1> QED BY <1>1, <1>4, <1>5, <1>6

(* The sequences of at most one descriptor. *)
LEMMA OneOrNone ==
    /\ <<>> \in Seq(Descs) /\ IsInjective(<<>>) /\ Range(<<>>) = {}
    /\ \A d \in Descs :
         <<d>> \in Seq(Descs) /\ IsInjective(<<d>>) /\ Range(<<d>>) = {d}
BY DEF IsInjective, Range

(* A table of QSize descriptors. *)
LEMMA DescsFinite == QSize \in Nat /\ IsFiniteSet(Descs) /\ Cardinality(Descs) = QSize
BY RingAssumption, FS_Interval DEF Descs

(* Heads that differ and avoid a set of descriptors leave room for it. *)
LEMMA DistinctHeads ==
    ASSUME NEW s \in Seq(Descs), IsInjective(s),
           NEW T \in SUBSET Descs, Range(s) \cap T = {}
    PROVE  /\ Len(s) \in Nat /\ Len(s) <= QSize
           /\ T # {} => Len(s) < QSize
<1>1. Len(s) \in Nat /\ s \in [1 .. Len(s) -> Descs] /\ DOMAIN s = 1 .. Len(s)
  BY LenProperties
<1>2. QSize \in Nat /\ IsFiniteSet(Descs) /\ Cardinality(Descs) = QSize
  BY DescsFinite
<1>3. s \in [1 .. Len(s) -> Descs \ T]
  BY <1>1 DEF Range
<1>4. s \in Injection(1 .. Len(s), Descs \ T)
  BY <1>3 DEF Injection
<1>5. IsFiniteSet(Descs \ T) /\ Cardinality(Descs \ T) <= QSize
  BY <1>2, FS_Subset
<1>6. Cardinality(1 .. Len(s)) = Len(s)
  BY <1>1, FS_Interval
<1>7. Len(s) <= Cardinality(Descs \ T) /\ Cardinality(Descs \ T) \in Nat
  BY <1>4, <1>5, <1>6, FS_Injection, FS_CardinalityType
<1>8. T # {} => Cardinality(Descs \ T) # QSize
  BY <1>2, FS_Subset
<1> QED BY <1>1, <1>2, <1>5, <1>7, <1>8

-----------------------------------------------------------------------------
(* A ring between two indexes is a queue. *)
Rings      == [Descs -> Descs \cup {NoDesc}]
Dist(i, j) == (j - i) % IdxMod

(* The distance of two indexes, without the remainder. *)
LEMMA DistFacts ==
    ASSUME NEW from \in Indexes, NEW to \in Indexes
    PROVE  /\ Dist(from, to) \in 0 .. IdxMod - 1
           /\ Dist(from, to) =
                (IF to >= from THEN to - from ELSE to - from + IdxMod)
<1>1. /\ from \in Nat /\ to \in Nat /\ IdxMod \in Nat
      /\ from < IdxMod /\ to < IdxMod
  BY IndexFacts
<1>2. (to - from) % IdxMod = (IF to >= from THEN to - from ELSE to - from + IdxMod)
  BY IndexFacts
<1> QED BY <1>1, <1>2 DEF Dist

(* What is pending between two indexes, slot by slot. *)
LEMMA PendingFacts ==
    ASSUME NEW ring \in Rings, NEW from \in Indexes, NEW to \in Indexes,
           NEW p, p = Pending(ring, from, to)
    PROVE  /\ p \in Seq(Descs \cup {NoDesc})
           /\ Len(p) = Dist(from, to) /\ Dist(from, to) \in 0 .. IdxMod - 1
           /\ DOMAIN p = 1 .. Dist(from, to)
           /\ p = <<>> <=> from = to
           /\ \A k \in 1 .. Dist(from, to) : p[k] = ring[Slot(from + k - 1)]
<1> DEFINE n == Dist(from, to)
<1>1. /\ n \in 0 .. IdxMod - 1 /\ n = (IF to >= from THEN to - from ELSE to - from + IdxMod)
      /\ from \in Nat /\ to \in Nat /\ from < IdxMod /\ to < IdxMod /\ IdxMod \in Nat
  BY IndexFacts, DistFacts
<1>2. n = 0 <=> from = to
  BY <1>1
<1> HIDE DEF n
<1>3. p = [k \in 1 .. n |-> ring[Slot(from + k - 1)]]
  BY DEF n, Pending, Dist
<1>4. \A k \in 1 .. n : from + k - 1 \in Nat
  BY <1>1
<1>5. \A k \in 1 .. n : ring[Slot(from + k - 1)] \in Descs \cup {NoDesc}
  BY <1>4, SlotFacts DEF Rings
<1>6. p \in [1 .. n -> Descs \cup {NoDesc}]
  BY <1>3, <1>5
<1>7. p \in Seq(Descs \cup {NoDesc}) /\ Len(p) = n
  <2>1. n \in Nat
    BY <1>1
  <2> QED BY <1>6, <2>1, SeqDef, LenProperties
<1>8. p = <<>> <=> n = 0
  BY <1>7, EmptySeq
<1> QED BY <1>1, <1>2, <1>3, <1>7, <1>8 DEF n

(* A slot is written while the entries up to it leave it free. *)
LEMMA PendingWrite ==
    ASSUME NEW ring \in Rings, NEW from \in Indexes, NEW to \in Indexes,
           NEW d \in Descs \cup {NoDesc}, Dist(from, to) < QSize
    PROVE  /\ [ring EXCEPT ![Slot(to)] = d] \in Rings
           /\ [ring EXCEPT ![Slot(to)] = d][Slot(to)] = d
           /\ Pending([ring EXCEPT ![Slot(to)] = d], from, to)
                = Pending(ring, from, to)
<1> DEFINE n == Dist(from, to)
           new == [ring EXCEPT ![Slot(to)] = d]
<1>1. /\ n \in Nat /\ n = (IF to >= from THEN to - from ELSE to - from + IdxMod)
      /\ from \in Nat /\ to \in Nat /\ QSize \in Nat /\ IdxMod \in Nat
  BY IndexFacts, DistFacts
<1> HIDE DEF n
<1>2. Slot(to) \in Descs /\ Slot(to) = Slot(from + n)
  <2>1. from + n = to \/ from + n = IdxMod + to
    BY <1>1
  <2> QED BY <1>1, <2>1, SlotFacts
<1>3. ASSUME NEW k \in 1 .. n
      PROVE  new[Slot(from + k - 1)] = ring[Slot(from + k - 1)]
  <2>1. /\ from + k - 1 \in Nat /\ n - k + 1 \in 1 .. QSize - 1
        /\ (from + k - 1) + (n - k + 1) = from + n
    BY <1>1 DEF n
  <2>2. Slot((from + k - 1) + (n - k + 1)) # Slot(from + k - 1)
    BY <2>1, SlotFacts
  <2>3. Slot(to) # Slot(from + k - 1)
    BY <1>2, <2>1, <2>2
  <2> QED BY <2>1, <2>3, SlotFacts DEF Rings
<1>4. Pending(new, from, to) = Pending(ring, from, to)
  <2>1. /\ Pending(new, from, to) = [k \in 1 .. n |-> new[Slot(from + k - 1)]]
        /\ Pending(ring, from, to) = [k \in 1 .. n |-> ring[Slot(from + k - 1)]]
    BY DEF Pending, n, Dist
  <2> QED BY <1>3, <2>1
<1> QED BY <1>2, <1>4 DEF Rings

(* The index is advanced over the slot just written. *)
LEMMA PendingPush ==
    ASSUME NEW ring \in Rings, NEW from \in Indexes, NEW to \in Indexes,
           Dist(from, to) < QSize
    PROVE  Pending(ring, from, wrapping_add(to))
             = Append(Pending(ring, from, to), ring[Slot(to)])
<1> DEFINE n == Dist(from, to)
           p == Pending(ring, from, to)
           q == Pending(ring, from, wrapping_add(to))
           T == Descs \cup {NoDesc}
<1>1. /\ n \in Nat /\ n = (IF to >= from THEN to - from ELSE to - from + IdxMod)
      /\ from \in Nat /\ to \in Nat /\ QSize \in Nat /\ IdxMod \in Nat
      /\ from < IdxMod /\ to < IdxMod /\ wrapping_add(to) \in Indexes
      /\ wrapping_add(to) = (IF to = IdxMod - 1 THEN 0 ELSE to + 1)
  BY IndexFacts, DistFacts
<1>2. n + 1 < IdxMod
  BY <1>1, RingAssumption
<1>3. Dist(from, wrapping_add(to)) = n + 1
  <2>1. Dist(from, wrapping_add(to)) =
          (IF wrapping_add(to) >= from THEN wrapping_add(to) - from
           ELSE wrapping_add(to) - from + IdxMod)
    BY <1>1, DistFacts
  <2> QED BY <1>1, <1>2, <2>1
<1>4. Slot(to) = Slot(from + n) /\ Slot(to) \in Descs
  <2>1. from + n = to \/ from + n = IdxMod + to
    BY <1>1
  <2> QED BY <1>1, <2>1, SlotFacts
<1> HIDE DEF n
<1>5. /\ p \in Seq(T) /\ Len(p) = n /\ q \in Seq(T) /\ Len(q) = n + 1
      /\ \A k \in 1 .. n : p[k] = ring[Slot(from + k - 1)]
      /\ \A k \in 1 .. n + 1 : q[k] = ring[Slot(from + k - 1)]
  <2>1. /\ p \in Seq(T) /\ Len(p) = n
        /\ \A k \in 1 .. n : p[k] = ring[Slot(from + k - 1)]
    BY PendingFacts DEF n
  <2>2. /\ q \in Seq(T) /\ Len(q) = n + 1
        /\ \A k \in 1 .. n + 1 : q[k] = ring[Slot(from + k - 1)]
    <3>1. wrapping_add(to) \in Indexes
      BY <1>1
    <3>2. /\ q \in Seq(T) /\ Len(q) = Dist(from, wrapping_add(to))
          /\ \A k \in 1 .. Dist(from, wrapping_add(to)) :
               q[k] = ring[Slot(from + k - 1)]
      BY <3>1, PendingFacts
    <3> QED BY <3>2, <1>3, Zenon
  <2> QED BY <2>1, <2>2
<1>6. ring[Slot(to)] \in T
  BY <1>4 DEF Rings
<1> HIDE DEF p, q, T
<1>7. /\ Append(p, ring[Slot(to)]) \in Seq(T)
      /\ Len(Append(p, ring[Slot(to)])) = n + 1
      /\ \A k \in 1 .. n : Append(p, ring[Slot(to)])[k] = p[k]
      /\ Append(p, ring[Slot(to)])[n + 1] = ring[Slot(to)]
  BY <1>5, <1>6, AppendProperties
<1>8. ASSUME NEW k \in 1 .. n + 1
      PROVE  q[k] = Append(p, ring[Slot(to)])[k]
  <2>1. CASE k \in 1 .. n
    BY <1>5, <1>7, <2>1
  <2>2. CASE k = n + 1
    <3>1. from + k - 1 = from + n /\ n + 1 \in 1 .. n + 1
      BY <1>1, <2>2
    <3> QED BY <1>4, <1>5, <1>7, <2>2, <3>1
  <2>3. k \in 1 .. n \/ k = n + 1
    BY <1>1
  <2> QED BY <2>1, <2>2, <2>3, Zenon
<1>9. q = Append(p, ring[Slot(to)])
  BY <1>5, <1>7, <1>8, SeqEqual
<1> QED BY <1>9 DEF p, q

(* The oldest entry is taken: its slot is emptied, the index goes on. *)
LEMMA PendingPop ==
    ASSUME NEW ring \in Rings, NEW from \in Indexes, NEW to \in Indexes,
           NEW d \in Descs \cup {NoDesc}, from # to, Dist(from, to) <= QSize
    PROVE  /\ Pending(ring, from, to) # <<>>
           /\ Head(Pending(ring, from, to)) = ring[Slot(from)]
           /\ [ring EXCEPT ![Slot(from)] = d] \in Rings
           /\ wrapping_add(from) \in Indexes
           /\ Pending([ring EXCEPT ![Slot(from)] = d], wrapping_add(from), to)
                = Tail(Pending(ring, from, to))
<1> DEFINE n == Dist(from, to)
           new == [ring EXCEPT ![Slot(from)] = d]
           p == Pending(ring, from, to)
           q == Pending(new, wrapping_add(from), to)
           T == Descs \cup {NoDesc}
<1>1. /\ n \in Nat /\ n = (IF to >= from THEN to - from ELSE to - from + IdxMod)
      /\ from \in Nat /\ to \in Nat /\ QSize \in Nat /\ IdxMod \in Nat
      /\ from < IdxMod /\ to < IdxMod /\ wrapping_add(from) \in Indexes
      /\ wrapping_add(from) = (IF from = IdxMod - 1 THEN 0 ELSE from + 1)
  BY IndexFacts, DistFacts
<1>2. Dist(wrapping_add(from), to) = n - 1 /\ n - 1 \in Nat
  <2>1. Dist(wrapping_add(from), to) =
          (IF to >= wrapping_add(from) THEN to - wrapping_add(from)
           ELSE to - wrapping_add(from) + IdxMod)
    BY <1>1, DistFacts
  <2> QED BY <1>1, <2>1
<1>3. Slot(from) \in Descs /\ new \in Rings
  BY <1>1, SlotFacts DEF Rings
<1> HIDE DEF n
<1>4. /\ p \in Seq(T) /\ Len(p) = n /\ p # <<>> /\ q \in Seq(T) /\ Len(q) = n - 1
      /\ \A k \in 1 .. n : p[k] = ring[Slot(from + k - 1)]
      /\ \A k \in 1 .. n - 1 : q[k] = new[Slot(wrapping_add(from) + k - 1)]
  <2>1. /\ p \in Seq(T) /\ Len(p) = n /\ p # <<>>
        /\ \A k \in 1 .. n : p[k] = ring[Slot(from + k - 1)]
    BY PendingFacts DEF n
  <2>2. /\ q \in Seq(T) /\ Len(q) = n - 1
        /\ \A k \in 1 .. n - 1 : q[k] = new[Slot(wrapping_add(from) + k - 1)]
    <3> HIDE DEF new
    <3>1. wrapping_add(from) \in Indexes
      BY <1>1
    <3>2. /\ q \in Seq(T) /\ Len(q) = Dist(wrapping_add(from), to)
          /\ \A k \in 1 .. Dist(wrapping_add(from), to) :
               q[k] = new[Slot(wrapping_add(from) + k - 1)]
      BY SMTT(20), <1>3, <3>1, PendingFacts
    <3> QED BY <3>2, <1>2, Zenon
  <2> QED BY <2>1, <2>2
<1>5. ASSUME NEW k \in 1 .. n - 1
      PROVE  q[k] = p[k + 1]
  <2>1. /\ from + k \in Nat /\ k \in 1 .. QSize - 1 /\ k + 1 \in 1 .. n
        /\ from + (k + 1) - 1 = from + k /\ k - 1 \in Nat
    BY <1>1, <1>2 DEF n
  <2>2. Slot(wrapping_add(from) + k - 1) = Slot(from + k)
    <3>1. CASE from = IdxMod - 1
      <4>1. wrapping_add(from) + k - 1 = k - 1 /\ from + k = IdxMod + (k - 1)
        BY <1>1, <2>1, <3>1
      <4> QED BY <2>1, <4>1, SlotFacts
    <3>2. CASE from # IdxMod - 1
      <4>1. wrapping_add(from) + k - 1 = from + k
        BY <1>1, <2>1, <3>2
      <4> QED BY <4>1
    <3> QED BY <3>1, <3>2
  <2>3. Slot(from + k) # Slot(from) /\ Slot(from + k) \in Descs
    BY <1>1, <2>1, SlotFacts
  <2>4. new[Slot(from + k)] = ring[Slot(from + k)]
    BY <2>3 DEF Rings
  <2> QED BY <1>4, <2>1, <2>2, <2>4
<1>6. p[1] = ring[Slot(from)] /\ Head(p) = p[1]
  <2>1. 1 \in 1 .. n /\ from + 1 - 1 = from
    BY <1>1, <1>2
  <2> QED BY <1>4, <2>1
<1> HIDE DEF p, q, T, new
<1>7. /\ Tail(p) \in Seq(T) /\ Len(Tail(p)) = n - 1
      /\ \A k \in 1 .. n - 1 : Tail(p)[k] = p[k + 1]
  BY <1>4, HeadTailProperties
<1>8. q = Tail(p)
  BY <1>4, <1>5, <1>7, SeqEqual
<1> QED BY <1>1, <1>3, <1>4, <1>6, <1>8 DEF p, q, new

-----------------------------------------------------------------------------
(* The operations of the driver and of the device on the two rings. *)
LEMMA PendingTypes ==
    ASSUME VqTypeOK
    PROVE  /\ AvailPending \in Seq(Descs \cup {NoDesc})
           /\ UsedPending \in Seq(Descs \cup {NoDesc})
           /\ AvailPending = <<>> <=> dev_idx = avail_idx
           /\ UsedPending = <<>> <=> ~has_used
           /\ Len(AvailPending) = Dist(dev_idx, avail_idx)
           /\ Len(UsedPending) = Dist(wrapping_add(last_used_idx), used_idx)
<1>1. /\ wrapping_add(last_used_idx) \in Indexes /\ used_idx \in Indexes
      /\ dev_idx \in Indexes /\ avail_idx \in Indexes
      /\ avail_ring \in Rings /\ used_ring \in Rings
  BY IndexFacts DEF VqTypeOK, Rings
<1>2. /\ AvailPending \in Seq(Descs \cup {NoDesc})
      /\ AvailPending = <<>> <=> dev_idx = avail_idx
      /\ Len(AvailPending) = Dist(dev_idx, avail_idx)
  <2>1. AvailPending = Pending(avail_ring, dev_idx, avail_idx)
    BY DEF AvailPending
  <2>2. AvailPending \in Seq(Descs \cup {NoDesc})
    BY ZenonT(40), <1>1, <2>1, PendingFacts
  <2>3. Len(AvailPending) = Dist(dev_idx, avail_idx)
    BY <1>1, <2>1, PendingFacts
  <2>4. AvailPending = <<>> <=> dev_idx = avail_idx
    BY <1>1, <2>1, PendingFacts
  <2> QED BY <2>2, <2>3, <2>4
<1>3. /\ UsedPending \in Seq(Descs \cup {NoDesc})
      /\ UsedPending = <<>> <=> wrapping_add(last_used_idx) = used_idx
      /\ Len(UsedPending) = Dist(wrapping_add(last_used_idx), used_idx)
  <2>1. UsedPending = Pending(used_ring, wrapping_add(last_used_idx), used_idx)
    BY DEF UsedPending
  <2>2. UsedPending \in Seq(Descs \cup {NoDesc})
    BY <1>1, <2>1, PendingFacts
  <2>3. Len(UsedPending) = Dist(wrapping_add(last_used_idx), used_idx)
    BY <1>1, <2>1, PendingFacts
  <2>4. UsedPending = <<>> <=> wrapping_add(last_used_idx) = used_idx
    BY <1>1, <2>1, PendingFacts
  <2> QED BY <2>2, <2>3, <2>4
<1> QED BY <1>2, <1>3 DEF has_used

(* Virtio::init leaves empty rings and every descriptor free, once. *)
LEMMA VqInitFacts ==
    ASSUME VqInit
    PROVE  /\ VqTypeOK /\ AvailPending = <<>> /\ UsedPending = <<>>
           /\ dev_held = {}
           /\ free \in Seq(Descs) /\ IsInjective(free) /\ Range(free) = Descs
<1>1. QSize \in Nat /\ QSize > 0 /\ IdxMod \in Nat /\ IdxMod > QSize
  BY RingAssumption
<1>2. 0 \in Indexes /\ IdxMod - 1 \in Indexes
  BY <1>1 DEF Indexes
<1>3. /\ free \in [1 .. QSize -> Descs] /\ DOMAIN free = 1 .. QSize
      /\ IsInjective(free) /\ Range(free) = Descs
  <2>1. /\ free \in [1 .. QSize -> Descs] /\ DOMAIN free = 1 .. QSize
        /\ \A i \in 1 .. QSize : free[i] = i - 1
    BY <1>1 DEF VqInit, Descs
  <2>2. Descs \subseteq Range(free)
    <3> SUFFICES ASSUME NEW d \in Descs PROVE d \in Range(free)
      OBVIOUS
    <3>1. d + 1 \in 1 .. QSize /\ free[d + 1] = d
      BY <1>1, <2>1 DEF Descs
    <3> QED BY <2>1, <3>1 DEF Range
  <2> QED BY <1>1, <2>1, <2>2 DEF Range, IsInjective
<1>4. free \in Seq(Descs)
  BY <1>1, <1>3, SeqDef
<1>5. VqTypeOK
  BY <1>2, <1>4 DEF VqInit, VqTypeOK
<1>6. wrapping_add(last_used_idx) = used_idx
  BY <1>2, IndexFacts DEF VqInit
<1>7. AvailPending = <<>> /\ UsedPending = <<>>
  BY <1>5, <1>6, PendingTypes DEF VqInit, has_used
<1> QED BY <1>3, <1>4, <1>5, <1>7 DEF VqInit

(* Steps that leave the rings alone leave what is pending alone. *)
LEMMA PendingSame ==
    /\ UNCHANGED << availvars, dev_idx >> => AvailPending' = AvailPending
    /\ UNCHANGED usedvars => UsedPending' = UsedPending
BY DEF AvailPending, UsedPending, availvars, usedvars

(* Writing the slot at the index changes nothing that is pending... *)
LEMMA WriteSlotStep ==
    ASSUME VqTypeOK, Len(AvailPending) < QSize, NEW d \in Descs,
           write_slot(d), UNCHANGED << avail_idx, dev_idx >>
    PROVE  /\ AvailPending' = AvailPending
           /\ avail_ring' \in Rings
           /\ avail_ring'[Slot(avail_idx)] = d
<1>1. Dist(dev_idx, avail_idx) < QSize
  BY PendingTypes
<1> DEFINE new == [avail_ring EXCEPT ![Slot(avail_idx)] = d]
<1>2. avail_ring' = new
  BY DEF write_slot
<1>3. /\ avail_ring \in Rings /\ dev_idx \in Indexes /\ avail_idx \in Indexes
      /\ d \in Descs \cup {NoDesc}
  BY DEF VqTypeOK, Rings
<1>4. AvailPending' = Pending(avail_ring', dev_idx, avail_idx)
  BY DEF AvailPending
<1>5. AvailPending = Pending(avail_ring, dev_idx, avail_idx)
  BY DEF AvailPending
<1>6. /\ new \in Rings /\ new[Slot(avail_idx)] = d
      /\ Pending(new, dev_idx, avail_idx) = Pending(avail_ring, dev_idx, avail_idx)
  BY <1>1, <1>3, PendingWrite
<1> HIDE DEF new
<1> QED BY <1>2, <1>4, <1>5, <1>6

(* The slot the driver fills next is not one the device still has to read. *)
LEMMA HeadSlotNotNext ==
    ASSUME VqTypeOK, Len(AvailPending) < QSize, AvailPending # <<>>
    PROVE  Slot(dev_idx) # Slot(avail_idx)
<1>1. dev_idx \in Indexes /\ avail_idx \in Indexes /\ dev_idx # avail_idx
  BY PendingTypes DEF VqTypeOK
<1>2. Dist(dev_idx, avail_idx) < QSize
  BY PendingTypes
<1>3. /\ dev_idx \in Nat /\ avail_idx \in Nat /\ IdxMod \in Nat
      /\ dev_idx < IdxMod /\ avail_idx < IdxMod /\ QSize \in Nat
  BY <1>1, IndexFacts
<1>4. Dist(dev_idx, avail_idx) =
        (IF avail_idx >= dev_idx THEN avail_idx - dev_idx
                                 ELSE avail_idx - dev_idx + IdxMod)
  BY <1>1, DistFacts
<1>5. CASE avail_idx >= dev_idx
  <2>1. /\ avail_idx - dev_idx \in 1 .. QSize - 1
        /\ avail_idx = dev_idx + (avail_idx - dev_idx)
    BY <1>1, <1>2, <1>3, <1>4, <1>5
  <2> QED BY <1>3, <2>1, SlotFacts
<1>6. CASE avail_idx < dev_idx
  <2>1. /\ avail_idx - dev_idx + IdxMod \in 1 .. QSize - 1
        /\ IdxMod + avail_idx = dev_idx + (avail_idx - dev_idx + IdxMod)
    BY <1>1, <1>2, <1>3, <1>4, <1>6
  <2>2. Slot(IdxMod + avail_idx) # Slot(dev_idx)
    BY <1>3, <2>1, SlotFacts
  <2> QED BY <1>3, <2>2, SlotFacts
<1> QED BY <1>3, <1>5, <1>6

(* ...and advancing the index makes it the last pending one. *)
LEMMA WriteIdxStep ==
    ASSUME VqTypeOK, Len(AvailPending) < QSize,
           write_idx, UNCHANGED << avail_ring, dev_idx >>
    PROVE  /\ AvailPending' = Append(AvailPending, avail_ring[Slot(avail_idx)])
           /\ avail_idx' \in Indexes
<1>1. Dist(dev_idx, avail_idx) < QSize
  BY PendingTypes
<1>2. avail_ring \in Rings /\ dev_idx \in Indexes /\ avail_idx \in Indexes
  BY DEF VqTypeOK, Rings
<1>3. AvailPending' = Pending(avail_ring, dev_idx, wrapping_add(avail_idx))
  BY DEF AvailPending, write_idx
<1>4. AvailPending = Pending(avail_ring, dev_idx, avail_idx)
  BY DEF AvailPending
<1>5. Pending(avail_ring, dev_idx, wrapping_add(avail_idx))
        = Append(Pending(avail_ring, dev_idx, avail_idx), avail_ring[Slot(avail_idx)])
  BY <1>1, <1>2, PendingPush
<1>6. avail_idx' \in Indexes
  BY <1>2, IndexFacts DEF write_idx
<1> QED BY <1>3, <1>4, <1>5, <1>6

(* The device takes the oldest pending descriptor of the available ring. *)
LEMMA DevTakeStep ==
    ASSUME VqTypeOK, Len(AvailPending) <= QSize, NEW d, DevTake(d)
    PROVE  /\ AvailPending # <<>> /\ d = Head(AvailPending)
           /\ AvailPending' = Tail(AvailPending)
           /\ UsedPending' = UsedPending
           /\ avail_ring' \in Rings /\ dev_idx' \in Indexes
<1>1. Dist(dev_idx, avail_idx) <= QSize
  BY PendingTypes
<1>2. /\ avail_ring \in Rings /\ dev_idx \in Indexes /\ avail_idx \in Indexes
      /\ NoDesc \in Descs \cup {NoDesc} /\ dev_idx # avail_idx
  BY DEF VqTypeOK, Rings, DevTake
<1> DEFINE new == [avail_ring EXCEPT ![Slot(dev_idx)] = NoDesc]
<1>3. /\ Pending(avail_ring, dev_idx, avail_idx) # <<>>
      /\ Head(Pending(avail_ring, dev_idx, avail_idx)) = avail_ring[Slot(dev_idx)]
      /\ new \in Rings /\ wrapping_add(dev_idx) \in Indexes
      /\ Pending(new, wrapping_add(dev_idx), avail_idx)
            = Tail(Pending(avail_ring, dev_idx, avail_idx))
  BY <1>1, <1>2, PendingPop
<1>4. /\ avail_ring' = new /\ dev_idx' = wrapping_add(dev_idx)
      /\ avail_idx' = avail_idx /\ d = avail_ring[Slot(dev_idx)]
  BY DEF DevTake
<1>5. UsedPending' = UsedPending
  BY DEF DevTake, UsedPending, usedvars
<1> HIDE DEF new
<1> QED BY <1>3, <1>4, <1>5 DEF AvailPending

(* The device puts a descriptor at the end of the used ring. *)
LEMMA DevReturnStep ==
    ASSUME VqTypeOK, Len(UsedPending) < QSize, NEW d \in Descs, DevReturn(d)
    PROVE  /\ UsedPending' = Append(UsedPending, d)
           /\ AvailPending' = AvailPending
           /\ used_ring' \in Rings /\ used_idx' \in Indexes
<1> DEFINE from == wrapping_add(last_used_idx)
           new  == [used_ring EXCEPT ![Slot(used_idx)] = d]
<1>1. Dist(from, used_idx) < QSize
  BY PendingTypes
<1>2. /\ used_ring \in Rings /\ from \in Indexes /\ used_idx \in Indexes
      /\ d \in Descs \cup {NoDesc} /\ wrapping_add(used_idx) \in Indexes
  BY IndexFacts DEF VqTypeOK, Rings
<1> HIDE DEF from
<1>3. /\ new \in Rings /\ new[Slot(used_idx)] = d
      /\ Pending(new, from, used_idx) = Pending(used_ring, from, used_idx)
  BY <1>1, <1>2, PendingWrite
<1> HIDE DEF new
<1>4. Pending(new, from, wrapping_add(used_idx))
        = Append(Pending(new, from, used_idx), new[Slot(used_idx)])
  BY <1>1, <1>2, <1>3, PendingPush
<1>5. used_ring' = new /\ used_idx' = wrapping_add(used_idx) /\ from' = from
  BY DEF DevReturn, new, from, wrapping_add
<1>6. /\ UsedPending' = Pending(new, from, wrapping_add(used_idx))
      /\ UsedPending = Pending(used_ring, from, used_idx)
  BY <1>5 DEF UsedPending, from
<1>7. AvailPending' = AvailPending
  BY DEF DevReturn, AvailPending, availvars
<1> QED BY <1>2, <1>3, <1>4, <1>5, <1>6, <1>7

(* next_used takes the oldest pending descriptor of the used ring. *)
LEMMA NextUsedStep ==
    ASSUME VqTypeOK, Len(UsedPending) <= QSize, NEW d, next_used(d),
           UNCHANGED used_idx
    PROVE  /\ UsedPending # <<>> /\ d = Head(UsedPending)
           /\ UsedPending' = Tail(UsedPending)
           /\ used_ring' \in Rings /\ last_used_idx' \in Indexes
<1> DEFINE from == wrapping_add(last_used_idx)
           new  == [used_ring EXCEPT ![Slot(from)] = NoDesc]
<1>1. Dist(from, used_idx) <= QSize
  BY PendingTypes
<1>2. /\ used_ring \in Rings /\ from \in Indexes /\ used_idx \in Indexes
      /\ NoDesc \in Descs \cup {NoDesc} /\ from # used_idx
  BY IndexFacts DEF VqTypeOK, Rings, next_used, has_used
<1>3. last_used_idx' = from /\ used_ring' = new /\ d = used_ring[Slot(from)]
  BY DEF next_used
<1> HIDE DEF from
<1>4. /\ Pending(used_ring, from, used_idx) # <<>>
      /\ Head(Pending(used_ring, from, used_idx)) = used_ring[Slot(from)]
      /\ new \in Rings
      /\ Pending(new, wrapping_add(from), used_idx)
            = Tail(Pending(used_ring, from, used_idx))
  BY <1>1, <1>2, PendingPop
<1> HIDE DEF new
<1>5. /\ UsedPending' = Pending(new, wrapping_add(from), used_idx)
      /\ UsedPending = Pending(used_ring, from, used_idx)
  BY <1>3 DEF UsedPending, from, wrapping_add
<1> QED BY <1>2, <1>3, <1>4, <1>5
=============================================================================
