------------------------ MODULE Bzip3FormatTheorems ------------------------
(***************************************************************************)
(* Lemmas about the operators of Bzip3Format and FileContents: which bytes *)
(* a block holds, how many blocks there are, when a segment of the stream  *)
(* no longer depends on the bytes that are still to come, and what a file  *)
(* decodes to, up to its first fault.                                      *)
(***************************************************************************)
EXTENDS FileContents, SequenceTheorems, WellFoundedInduction, TLAPS

(* The block size is positive. *)
LEMMA BlockSizePositive == BlockSize \in Nat \ {0}
  BY FormatAssumption DEF ValidBlockSize

(* Products: monotonicity, and one factor more. *)
LEMMA MulMonotonic ==
  ASSUME NEW a \in Nat, NEW b \in Nat, NEW c \in Nat, a <= b
  PROVE  a * c <= b * c
  BY SMTT(20)

LEMMA MulSuccessor ==
  ASSUME NEW a \in Int, NEW c \in Int
  PROVE  (a + 1) * c = a * c + c /\ (a - 1) * c = a * c - c /\ a * c \in Int
  BY SMTT(20)

LEMMA MulNatural ==
  ASSUME NEW a \in Nat, NEW c \in Nat
  PROVE  a * c \in Nat
  BY SMTT(20)

(* A quotient rounded up. *)
LEMMA DivisionRoundedUp ==
  ASSUME NEW q \in Nat, NEW len \in Nat, NEW c \in Nat \ {0}, q * c < len + c, len <= q * c
  PROVE  (len + c - 1) \div c = q
  BY SMTT(20)

(* The number of blocks is determined by where the last block ends. *)
LEMMA NumBlocksFromEnd ==
  ASSUME NEW S, NEW s \in Seq(S), NEW q \in Nat,
         q * BlockSize < Len(s) + BlockSize, Len(s) <= q * BlockSize
  PROVE  NumBlocks(s) = q
  BY BlockSizePositive, DivisionRoundedUp DEF NumBlocks

(* The first t elements of a sequence. *)
LEMMA PrefixProperties ==
  ASSUME NEW S, NEW s \in Seq(S), NEW t \in 0..Len(s)
  PROVE  SubSeq(s, 1, t) \in Seq(S) /\ Len(SubSeq(s, 1, t)) = t
  <1>1. \A i \in 1..t : s[i] \in S
    BY ElementOfSeq
  <1> QED  BY <1>1, SubSeqProperties

(* The k elements that end at t, followed by the next m. *)
LEMMA AdjacentParts ==
  ASSUME NEW S, NEW s \in Seq(S), NEW t \in Nat, NEW k \in Nat, NEW m \in Nat,
         k <= t, t + m <= Len(s)
  PROVE  /\ SubSeq(s, t - k + 1, t) \o SubSeq(s, t + 1, t + m) = SubSeq(s, t - k + 1, t + m)
         /\ SubSeq(s, t - k + 1, t + m) \in Seq(S)
         /\ Len(SubSeq(s, t - k + 1, t + m)) = k + m
  <1> DEFINE from == t - k + 1
             to   == t + m
  <1>1. /\ from \in 1..Len(s) + 1 /\ t \in from - 1..Len(s) /\ to \in t..Len(s)
        /\ Len(s) \in Nat /\ from \in Int /\ to \in Int
    BY LenProperties
  <1>2. to - from + 1 = k + m /\ (from <= to <=> k + m > 0)
    OBVIOUS
  <1> HIDE DEF from, to
  <1>3. SubSeq(s, from, t) \o SubSeq(s, t + 1, to) = SubSeq(s, from, to)
    BY <1>1, ConcatAdjacentSubSeq
  <1>4. \A i \in from..to : s[i] \in S
    BY <1>1, ElementOfSeq
  <1>5. /\ SubSeq(s, from, to) \in Seq(S)
        /\ Len(SubSeq(s, from, to)) = IF from <= to THEN to - from + 1 ELSE 0
    BY <1>1, <1>4, SubSeqProperties
  <1> QED  BY <1>2, <1>3, <1>5 DEF from, to

(* Block k of a prefix of s is a part of s. *)
LEMMA BlockOfPrefix ==
  ASSUME NEW S, NEW s \in Seq(S), NEW t \in 0..Len(s), NEW k \in Nat \ {0}
  PROVE  Block(SubSeq(s, 1, t), k)
           = SubSeq(s, (k - 1) * BlockSize + 1, MinOf(k * BlockSize, t))
  <1> DEFINE from == (k - 1) * BlockSize + 1
             to   == MinOf(k * BlockSize, t)
  <1>1. from \in Nat \ {0} /\ to \in 0..t
    BY BlockSizePositive, MulNatural DEF MinOf
  <1>2. Block(SubSeq(s, 1, t), k) = SubSeq(SubSeq(s, 1, t), from, to)
    BY PrefixProperties DEF Block
  <1>3. CASE to < from
    BY <1>1, <1>2, <1>3, SubSeqEmpty
  <1>4. CASE from <= to
    <2>1. from \in 1..t - 1 + 1 /\ to \in 1..t - 1 + 1 /\ 1 \in 1..Len(s) /\ t \in 1..Len(s)
      BY <1>1, <1>4
    <2> HIDE DEF from, to
    <2>2. SubSeq(SubSeq(s, 1, t), from, to) = SubSeq(s, 1 + from - 1, 1 + to - 1)
      BY <2>1, SubSeqOfSubSeq
    <2>3. 1 + from - 1 = from /\ 1 + to - 1 = to
      BY <1>1
    <2> QED  BY <1>2, <2>2, <2>3 DEF from, to
  <1> QED  BY <1>1, <1>3, <1>4

(* A complete block does not change when more bytes come.                   *)
LEMMA BlockStable ==
  ASSUME NEW S, NEW s \in Seq(S), NEW t \in 0..Len(s), NEW u \in t..Len(s),
         NEW k \in Nat \ {0}, k * BlockSize <= t
  PROVE  Block(SubSeq(s, 1, t), k) = Block(SubSeq(s, 1, u), k)
  <1>1. k * BlockSize \in Nat
    BY BlockSizePositive, MulNatural
  <1>2. MinOf(k * BlockSize, t) = k * BlockSize /\ MinOf(k * BlockSize, u) = k * BlockSize
    BY <1>1 DEF MinOf
  <1>3. t \in 0..Len(s) /\ u \in 0..Len(s)
    OBVIOUS
  <1>4. Block(SubSeq(s, 1, t), k) = SubSeq(s, (k - 1) * BlockSize + 1, k * BlockSize)
    BY <1>2, <1>3, BlockOfPrefix
  <1>5. Block(SubSeq(s, 1, u), k) = SubSeq(s, (k - 1) * BlockSize + 1, k * BlockSize)
    BY <1>2, <1>3, BlockOfPrefix
  <1> QED  BY <1>4, <1>5

(* Nor does a segment whose block is complete.                               *)
LEMMA SegmentStable ==
  ASSUME NEW S, NEW s \in Seq(S), NEW t \in 0..Len(s), NEW u \in t..Len(s),
         NEW i \in Nat \ {0}, i = 1 \/ (i \div 2) * BlockSize <= t
  PROVE  Segment(SubSeq(s, 1, t), i) = Segment(SubSeq(s, 1, u), i)
  <1>1. CASE i = 1
    BY <1>1 DEF Segment
  <1>2. CASE i # 1
    <2>1. i \div 2 \in Nat \ {0}
      BY <1>2
    <2>2. Block(SubSeq(s, 1, t), i \div 2) = Block(SubSeq(s, 1, u), i \div 2)
      BY <1>2, <2>1, BlockStable
    <2> QED  BY <2>2 DEF Segment
  <1> QED  BY <1>1, <1>2

(* The last block of the first t bytes, k blocks being before it. *)
LEMMA LastBlock ==
  ASSUME NEW S, NEW s \in Seq(S), NEW k \in Nat, NEW len \in 1..BlockSize,
         NEW t \in 0..Len(s), t = k * BlockSize + len
  PROVE  /\ Block(SubSeq(s, 1, t), k + 1) = SubSeq(s, k * BlockSize + 1, t)
         /\ SubSeq(s, k * BlockSize + 1, t) \in Seq(S)
         /\ Len(SubSeq(s, k * BlockSize + 1, t)) = len
  <1>1. k + 1 \in Nat \ {0} /\ k * BlockSize \in Nat
    BY BlockSizePositive, MulNatural
  <1>2. (k + 1) * BlockSize = k * BlockSize + BlockSize
    BY BlockSizePositive, MulSuccessor
  <1>3. MinOf((k + 1) * BlockSize, t) = t
    BY <1>1, <1>2, BlockSizePositive DEF MinOf
  <1>4. Block(SubSeq(s, 1, t), k + 1) = SubSeq(s, (k + 1 - 1) * BlockSize + 1, t)
    BY <1>1, <1>3, BlockOfPrefix
  <1>5. k + 1 - 1 = k
    OBVIOUS
  <1>6. \A j \in k * BlockSize + 1..t : s[j] \in S
    BY <1>1, ElementOfSeq
  <1>7. /\ SubSeq(s, k * BlockSize + 1, t) \in Seq(S)
        /\ Len(SubSeq(s, k * BlockSize + 1, t)) = len
    BY <1>1, <1>6, SubSeqProperties
  <1> QED  BY <1>4, <1>5, <1>7

(* The segments of a block are its header and its payload.                   *)
LEMMA BlockSegments ==
  ASSUME NEW k \in Nat, NEW data, NEW b, Block(data, k + 1) = b
  PROVE  /\ Segment(data, 2 * k + 2) = BlockHeader(EncSize(b), Len(b))
         /\ Segment(data, 2 * k + 3) = Payload(EncSize(b), Enc(b))
  <1>1. /\ (2 * k + 2) \div 2 = k + 1 /\ (2 * k + 3) \div 2 = k + 1
        /\ (2 * k + 2) % 2 = 0 /\ (2 * k + 3) % 2 = 1
    OBVIOUS
  <1>2. 2 * k + 2 # 1 /\ 2 * k + 3 # 1
    OBVIOUS
  <1> QED  BY <1>1, <1>2 DEF Segment

(* The compressed size of a block is a size.  *)
LEMMA EncSizeType ==
  ASSUME NEW b \in Seq(Byte), Len(b) \in 1..BlockSize
  PROVE  EncSize(b) \in Int
  <1>1. b \in [1..Len(b) -> Byte]
    BY LenProperties
  <1>2. EncSize(b) \in 1..Bound(Len(b))
    BY <1>1, FormatAssumption
  <1> QED  BY <1>2

(* A sequence made of the segments of a stream, as many as there are, is it. *)
LEMMA StreamFromSegments ==
  ASSUME NEW S, NEW out \in Seq(S), NEW data,
         Len(out) = 1 + 2 * NumBlocks(data),
         \A i \in 1..Len(out) : out[i] = Segment(data, i)
  PROVE  out = Stream(data)
  BY LenProperties DEF Stream

-----------------------------------------------------------------------------
(* Every set of natural numbers that is not empty has a least element.       *)
LEMMA LeastNatural ==
  ASSUME NEW T \in SUBSET Nat, T # {}
  PROVE  \E x \in T : \A y \in T : x <= y
  <1> DEFINE R == OpToRel(<, Nat)
  <1>1. IsWellFoundedOn(R, Nat)
    BY NatLessThanWellFounded
  <1>2. PICK x \in T : \A y \in T : ~(<<y, x>> \in R)
    <2> HIDE DEF R
    <2> QED  BY <1>1, WFMin
  <1>3. ASSUME NEW y \in T PROVE x <= y
    <2>1. y \in Nat /\ x \in Nat
      OBVIOUS
    <2>2. <<y, x>> \in R <=> y < x
      BY DEF OpToRel
    <2> HIDE DEF R
    <2>3. ~(y < x)
      BY <1>2, <2>2
    <2> QED  BY <2>1, <2>3
  <1> QED  BY <1>3

(* Induction over the natural numbers, for a set of them.                    *)
LEMMA InductionInSet ==
  ASSUME NEW T \in SUBSET Nat, 0 \in T, \A k \in T : k + 1 \in T
  PROVE  T = Nat
  <1> SUFFICES ASSUME T # Nat PROVE FALSE
    OBVIOUS
  <1>1. PICK x \in Nat \ T : \A y \in Nat \ T : x <= y
    BY LeastNatural
  <1>2. x # 0 /\ x - 1 \in Nat
    BY <1>1
  <1>3. x - 1 \in T
    BY <1>1, <1>2
  <1> QED  BY <1>1, <1>2, <1>3

(* A bounded set of natural numbers that is not empty has a maximum.         *)
LEMMA GreatestNatural ==
  ASSUME NEW T \in SUBSET Nat, T # {}, NEW b \in Nat, \A t \in T : t <= b
  PROVE  Max(T) \in T /\ \A t \in T : t <= Max(T)
  <1> DEFINE U == {b - t : t \in T}
  <1>1. U \in SUBSET Nat /\ U # {}
    <2>1. \A t \in T : t \in Nat /\ b - t \in Nat
      OBVIOUS
    <2>2. PICK t \in T : TRUE
      OBVIOUS
    <2> QED  BY <2>1, <2>2
  <1>2. PICK u \in U : \A v \in U : u <= v
    BY <1>1, LeastNatural
  <1>3. PICK x \in T : u = b - x
    OBVIOUS
  <1>4. \A t \in T : x >= t
    <2> SUFFICES ASSUME NEW t \in T PROVE x >= t
      OBVIOUS
    <2>1. b - x <= b - t
      BY <1>2, <1>3
    <2> QED  BY <2>1
  <1>5. Max(T) \in T /\ \A t \in T : Max(T) >= t
    BY <1>4 DEF Max
  <1> QED  BY <1>5

-----------------------------------------------------------------------------
(* The recursive function in the definition of FlattenSeq, for the first n   *)
(* sequences of ss.                                                          *)
IsFlattening(g, ss, n) ==
  g = [i \in 1..n |-> IF i = 1 THEN ss[i] ELSE g[i - 1] \o ss[i]]

LEMMA FlatteningEquation ==
  ASSUME NEW g, NEW ss, NEW n \in Nat, IsFlattening(g, ss, n), NEW i \in 1..n
  PROVE  g[i] = IF i = 1 THEN ss[i] ELSE g[i - 1] \o ss[i]
  <1> DEFINE e == [j \in 1..n |-> IF j = 1 THEN ss[j] ELSE g[j - 1] \o ss[j]]
  <1>1. g = e
    BY DEF IsFlattening
  <1>2. e[i] = IF i = 1 THEN ss[i] ELSE g[i - 1] \o ss[i]
    OBVIOUS
  <1> HIDE DEF e
  <1> QED  BY <1>1, <1>2

LEMMA FlatteningStep ==
  ASSUME NEW ss, NEW k \in Nat, NEW g, IsFlattening(g, ss, k)
  PROVE  \E h : IsFlattening(h, ss, k + 1)
  <1> DEFINE h == [i \in 1..k + 1 |-> IF i = 1 THEN ss[i]
                                      ELSE IF i <= k THEN g[i - 1] \o ss[i] ELSE g[k] \o ss[i]]
  <1>1. ASSUME NEW i \in 1..k PROVE h[i] = g[i]
    <2>1. g[i] = IF i = 1 THEN ss[i] ELSE g[i - 1] \o ss[i]
      BY FlatteningEquation
    <2> QED  BY <2>1
  <1>2. \A i \in 1..k + 1 : h[i] = IF i = 1 THEN ss[i] ELSE h[i - 1] \o ss[i]
    <2> SUFFICES ASSUME NEW i \in 1..k + 1, i # 1 PROVE h[i] = h[i - 1] \o ss[i]
      OBVIOUS
    <2>1. i - 1 \in 1..k
      OBVIOUS
    <2>2. h[i - 1] = g[i - 1]
      BY <1>1, <2>1
    <2>3. h[i] = g[i - 1] \o ss[i]
      <3>1. CASE i <= k
        BY <3>1
      <3>2. CASE i = k + 1
        <4>1. i - 1 = k /\ ~(i <= k) /\ i # 1
          BY <3>2
        <4>2. h[i] = g[k] \o ss[i]
          BY <4>1
        <4> HIDE DEF h
        <4> QED  BY <4>1, <4>2
      <3>3. i <= k \/ i = k + 1
        OBVIOUS
      <3> HIDE DEF h
      <3> QED  BY <3>1, <3>2, <3>3
    <2> HIDE DEF h
    <2> QED  BY <2>2, <2>3
  <1>3. h = [i \in 1..k + 1 |-> h[i]]
    OBVIOUS
  <1> HIDE DEF h
  <1>4. IsFlattening(h, ss, k + 1)
    BY <1>2, <1>3 DEF IsFlattening
  <1> QED  BY <1>4

LEMMA FlatteningExists == ASSUME NEW ss, NEW n \in Nat PROVE \E g : IsFlattening(g, ss, n)
  <1> DEFINE T == {k \in Nat : \E g : IsFlattening(g, ss, k)}
  <1>1. 0 \in T
    <2>1. IsFlattening([i \in 1..0 |-> ss[i]], ss, 0)
      BY DEF IsFlattening
    <2> QED  BY <2>1
  <1>2. \A k \in T : k + 1 \in T
    BY FlatteningStep
  <1>3. T = Nat
    <2> HIDE DEF T
    <2>1. T \in SUBSET Nat
      BY DEF T
    <2> QED  BY <1>1, <1>2, <2>1, InductionInSet
  <1> QED  BY <1>3

(* The first n elements of ss are sequences, and tt begins with them.        *)
BeginsWith(tt, ss, n, S) == \A i \in 1..n : ss[i] \in Seq(S) /\ tt[i] = ss[i]

(* It is made of sequences, and does not depend on what follows.             *)
LEMMA FlatteningValues ==
  ASSUME NEW S, NEW n \in Nat, NEW m \in Nat, n <= m, NEW ss, NEW tt,
         BeginsWith(tt, ss, n, S),
         NEW g, IsFlattening(g, ss, n), NEW h, IsFlattening(h, tt, m)
  PROVE  \A i \in 1..n : g[i] \in Seq(S) /\ h[i] = g[i]
  <1> DEFINE T == {k \in Nat : k \in 1..n => g[k] \in Seq(S) /\ h[k] = g[k]}
  <1>1. 0 \in T
    OBVIOUS
  <1>2. ASSUME NEW k \in T PROVE k + 1 \in T
    <2> SUFFICES ASSUME k + 1 \in 1..n PROVE g[k + 1] \in Seq(S) /\ h[k + 1] = g[k + 1]
      OBVIOUS
    <2>1. k \in Nat /\ k + 1 \in 1..m
      OBVIOUS
    <2>2. /\ g[k + 1] = IF k + 1 = 1 THEN ss[k + 1] ELSE g[k] \o ss[k + 1]
          /\ h[k + 1] = IF k + 1 = 1 THEN tt[k + 1] ELSE h[k] \o tt[k + 1]
      <3>1. k + 1 - 1 = k
        BY <2>1
      <3> QED  BY <2>1, <3>1, FlatteningEquation
    <2>3. CASE k = 0
      BY <2>2, <2>3 DEF BeginsWith
    <2>4. CASE k # 0
      <3>1. k \in 1..n /\ k + 1 # 1
        BY <2>1, <2>4
      <3>2. g[k] \in Seq(S) /\ h[k] = g[k]
        BY <3>1
      <3>3. ss[k + 1] \in Seq(S) /\ tt[k + 1] = ss[k + 1]
        BY DEF BeginsWith
      <3> QED  BY <2>2, <3>1, <3>2, <3>3, ConcatProperties
    <2> QED  BY <2>3, <2>4
  <1>3. T = Nat
    <2> HIDE DEF T
    <2>1. T \in SUBSET Nat
      BY DEF T
    <2> QED  BY <1>1, <1>2, <2>1, InductionInSet
  <1> QED  BY <1>3

LEMMA FlattenIsFlattening ==
  ASSUME NEW S, NEW ss \in Seq(S), Len(ss) # 0
  PROVE  \E g : IsFlattening(g, ss, Len(ss)) /\ FlattenSeq(ss) = g[Len(ss)]
  <1>1. Len(ss) \in Nat
    BY LenProperties
  <1>2. \E g : g = [i \in 1..Len(ss) |-> IF i = 1 THEN ss[i] ELSE g[i - 1] \o ss[i]]
    BY <1>1, FlatteningExists DEF IsFlattening
  <1> DEFINE f == CHOOSE g : g = [i \in 1..Len(ss) |-> IF i = 1 THEN ss[i]
                                                       ELSE g[i - 1] \o ss[i]]
  <1>3. f = [i \in 1..Len(ss) |-> IF i = 1 THEN ss[i] ELSE f[i - 1] \o ss[i]]
    BY <1>2
  <1>4. FlattenSeq(ss) = f[Len(ss)]
    BY DEF FlattenSeq
  <1> HIDE DEF f
  <1>5. IsFlattening(f, ss, Len(ss))
    BY <1>3 DEF IsFlattening
  <1> QED  BY <1>4, <1>5

LEMMA FlattenEmpty == FlattenSeq(<<>>) = <<>>
  BY EmptySeq DEF FlattenSeq

LEMMA FlattenOne == ASSUME NEW S, NEW s \in Seq(S) PROVE FlattenSeq(<<s>>) = s
  <1>1. PICK h : IsFlattening(h, <<s>>, 1) /\ FlattenSeq(<<s>>) = h[1]
    <2>1. <<s>> \in Seq(Seq(S)) /\ Len(<<s>>) = 1
      OBVIOUS
    <2> DEFINE ss == <<s>>
    <2> HIDE DEF ss
    <2>2. ss \in Seq(Seq(S)) /\ Len(ss) # 0 /\ Len(ss) = 1
      BY <2>1 DEF ss
    <2>3. \E h : IsFlattening(h, ss, Len(ss)) /\ FlattenSeq(ss) = h[Len(ss)]
      BY <2>2, FlattenIsFlattening
    <2> QED  BY <2>2, <2>3 DEF ss
  <1>2. h[1] = s
    BY <1>1, FlatteningEquation
  <1> QED  BY <1>1, <1>2

(* Flattening one sequence more appends it. *)
LEMMA FlattenAppend ==
  ASSUME NEW S, NEW ss \in Seq(Seq(S)), NEW s \in Seq(S)
  PROVE  /\ FlattenSeq(ss) \in Seq(S)
         /\ FlattenSeq(Append(ss, s)) = FlattenSeq(ss) \o s
  <1> DEFINE n  == Len(ss)
             m  == n + 1
             tt == Append(ss, s)
  <1>1. /\ n \in Nat /\ tt \in Seq(Seq(S)) /\ Len(tt) = m
        /\ \A i \in 1..n : ss[i] \in Seq(S) /\ tt[i] = ss[i]
        /\ tt[m] = s
    BY LenProperties, AppendProperties, ElementOfSeq
  <1>2. m \in Nat /\ m \in 1..m /\ m # 0 /\ n <= m /\ m - 1 = n /\ (n # 0 => n \in 1..n /\ m # 1)
    BY <1>1
  <1>3. CASE n = 0
    <2>1. ss = <<>>
      BY <1>3, EmptySeq
    <2>2. tt = <<s>>
      BY <2>1
    <2> QED  BY <1>1, <2>1, <2>2, FlattenEmpty, FlattenOne, EmptySeq, ConcatEmptySeq
  <1>4. CASE n # 0
    <2>1. PICK g : IsFlattening(g, ss, n) /\ FlattenSeq(ss) = g[n]
      BY <1>4, FlattenIsFlattening
    <2> HIDE DEF tt, m, n
    <2>2. PICK h : IsFlattening(h, tt, m) /\ FlattenSeq(tt) = h[m]
      BY <1>1, <1>2, FlattenIsFlattening
    <2>3. g[n] \in Seq(S) /\ h[n] = g[n]
      <3>1. BeginsWith(tt, ss, n, S)
        BY <1>1 DEF BeginsWith
      <3>2. \A k \in 1..n : g[k] \in Seq(S) /\ h[k] = g[k]
        BY <1>1, <1>2, <2>1, <2>2, <3>1, FlatteningValues
      <3> QED  BY <1>2, <1>4, <3>2
    <2>4. h[m] = IF m = 1 THEN tt[m] ELSE h[m - 1] \o tt[m]
      BY <1>2, <2>2, FlatteningEquation
    <2>5. FlattenSeq(tt) = FlattenSeq(ss) \o s /\ FlattenSeq(ss) \in Seq(S)
      BY <1>1, <1>2, <1>4, <2>1, <2>2, <2>3, <2>4
    <2> QED  BY <2>5 DEF tt
  <1> QED  BY <1>3, <1>4

-----------------------------------------------------------------------------
(* The bytes of the blocks of a file: none, and one block more. *)
LEMMA BytesNone == ASSUME NEW f PROVE Bytes(f, 0) = <<>>
  <1>1. [k \in 1..0 |-> BlockData(f, k)] = <<>>
    OBVIOUS
  <1> QED  BY <1>1, FlattenEmpty DEF Bytes

LEMMA BytesNext ==
  ASSUME NEW f, NEW m \in Nat, \A k \in 1..m + 1 : BlockData(f, k) \in Seq(Byte)
  PROVE  /\ Bytes(f, m) \in Seq(Byte)
         /\ Bytes(f, m + 1) = Bytes(f, m) \o BlockData(f, m + 1)
  <1> DEFINE ss == [k \in 1..m |-> BlockData(f, k)]
             tt == [k \in 1..m + 1 |-> BlockData(f, k)]
  <1>1. ss \in Seq(Seq(Byte)) /\ BlockData(f, m + 1) \in Seq(Byte)
    OBVIOUS
  <1>2. tt = Append(ss, BlockData(f, m + 1))
    OBVIOUS
  <1>3. Bytes(f, m) = FlattenSeq(ss) /\ Bytes(f, m + 1) = FlattenSeq(tt)
    BY DEF Bytes
  <1> HIDE DEF ss, tt
  <1> QED  BY <1>1, <1>2, <1>3, FlattenAppend

LEMMA BytesType ==
  ASSUME NEW f, NEW m \in Nat, \A k \in 1..m : BlockData(f, k) \in Seq(Byte)
  PROVE  Bytes(f, m) \in Seq(Byte)
  <1>1. CASE m = 0
    BY <1>1, BytesNone, EmptySeq
  <1>2. CASE m # 0
    <2>1. m - 1 \in Nat /\ m - 1 + 1 = m
      BY <1>2
    <2>2. Bytes(f, m - 1) \in Seq(Byte) /\ Bytes(f, m) = Bytes(f, m - 1) \o BlockData(f, m)
      BY <2>1, BytesNext
    <2>3. BlockData(f, m) \in Seq(Byte)
      BY <2>1
    <2> QED  BY <2>2, <2>3, ConcatProperties
  <1> QED  BY <1>1, <1>2

(* The bytes of the first m blocks come first among those of the first n.    *)
LEMMA BytesExtend ==
  ASSUME NEW f, NEW m \in Nat, NEW n \in Nat, m <= n,
         \A k \in 1..n : BlockData(f, k) \in Seq(Byte)
  PROVE  \E r \in Seq(Byte) : Bytes(f, n) = Bytes(f, m) \o r
  <1> DEFINE Extends(k) == \E r \in Seq(Byte) : Bytes(f, k) = Bytes(f, m) \o r
             T          == {d \in Nat : m + d <= n => Extends(m + d)}
  <1>1. 0 \in T
    <2>1. Bytes(f, m) \in Seq(Byte) /\ m + 0 = m
      BY BytesType
    <2>2. Bytes(f, m) = Bytes(f, m) \o <<>> /\ <<>> \in Seq(Byte)
      BY <2>1, ConcatEmptySeq, EmptySeq
    <2>3. Extends(m + 0)
      BY <2>1, <2>2
    <2> HIDE DEF Extends
    <2> QED  BY <2>3
  <1>2. ASSUME NEW d \in T PROVE d + 1 \in T
    <2>0. d \in Nat /\ d + 1 \in Nat
      OBVIOUS
    <2> SUFFICES ASSUME m + (d + 1) <= n PROVE Extends(m + (d + 1))
      <3> HIDE DEF Extends
      <3> QED  BY <2>0
    <2>1. d \in Nat /\ m + d <= n /\ m + d \in Nat /\ m + (d + 1) = m + d + 1
      BY <2>0
    <2>2. PICK r \in Seq(Byte) : Bytes(f, m + d) = Bytes(f, m) \o r
      BY <2>1
    <2> DEFINE b == BlockData(f, m + d + 1)
    <2>3. b \in Seq(Byte) /\ Bytes(f, m + (d + 1)) = Bytes(f, m + d) \o b
      <3>1. \A k \in 1..m + d + 1 : BlockData(f, k) \in Seq(Byte)
        BY <2>1
      <3>2. m + d + 1 \in 1..m + d + 1
        BY <2>1
      <3> QED  BY <2>1, <3>1, <3>2, BytesNext
    <2>4. Bytes(f, m) \in Seq(Byte)
      BY BytesType
    <2> HIDE DEF b
    <2>5. (Bytes(f, m) \o r) \o b = Bytes(f, m) \o (r \o b) /\ r \o b \in Seq(Byte)
      <3>1. r \in Seq(Byte)
        BY <2>2
      <3>2. r \o b \in Seq(Byte)
        BY <2>3, <3>1, ConcatProperties
      <3> HIDE DEF T
      <3> QED  BY <2>3, <2>4, <3>1, <3>2, ConcatAssociative, SMTT(40)
    <2>6. Bytes(f, m + (d + 1)) = Bytes(f, m) \o (r \o b)
      BY <2>2, <2>3, <2>5
    <2> QED  BY <2>5, <2>6
  <1>3. T = Nat
    <2> HIDE DEF T
    <2>1. T \in SUBSET Nat
      BY DEF T
    <2> QED  BY <1>1, <1>2, <2>1, InductionInSet
  <1>4. n - m \in T /\ m + (n - m) = n
    <2> HIDE DEF T
    <2> QED  BY <1>3
  <1>5. Extends(n)
    <2> HIDE DEF Extends
    <2> QED  BY <1>4
  <1> QED  BY <1>5

(* What is concatenated first is a prefix. *)
LEMMA PrefixOfConcat ==
  ASSUME NEW S, NEW a \in Seq(S), NEW b \in Seq(S)
  PROVE  /\ SubSeq(a \o b, 1, Len(a)) = a
         /\ Len(a) <= Len(a \o b)
         /\ a \o b \in Seq(S) /\ Len(a) \in Nat /\ Len(a \o b) \in Nat
  <1>1. a \o b \in Seq(S) /\ Len(a \o b) = Len(a) + Len(b) /\ Len(a) \in Nat /\ Len(b) \in Nat
    BY ConcatProperties, LenProperties
  <1>2. SubSeq(a \o b, 1, Len(a)) = a
    <2>1. CASE Len(a) = 0
      <3>1. a = <<>>
        BY <2>1, EmptySeq
      <3> QED  BY <1>1, <2>1, <3>1, SubSeqEmpty
    <2>2. CASE Len(a) # 0
      <3>1. 1 \in 1..Len(a) /\ Len(a) \in 1..Len(a)
        BY <1>1, <2>2
      <3> QED  BY <3>1, SubSeqOfConcat1, SubSeqFull
    <2> QED  BY <2>1, <2>2
  <1> QED  BY <1>1, <1>2

-----------------------------------------------------------------------------
LEMMA FileProperties ==
  ASSUME NEW f, IsFile(f)
  PROVE  f \in Seq(Segments(Bodies)) /\ Len(f) \in Nat
  BY LenProperties DEF IsFile

LEMMA GoodBlockData ==
  ASSUME NEW f, IsFile(f), NEW k \in Nat \ {0}, BlockGood(f, k)
  PROVE  BlockData(f, k) \in Seq(Byte)
  <1>1. 2 * k + 1 \in 1..Len(f)
    BY FileProperties DEF BlockGood
  <1>2. f[2 * k + 1] \in Segments(Bodies)
    BY <1>1, FileProperties, ElementOfSeq
  <1>3. f[2 * k + 1].kind = "payload"
    BY DEF BlockGood
  <1>4. f[2 * k + 1].body \in Bodies
    BY <1>2, <1>3 DEF Segments, Part
  <1> QED  BY <1>4 DEF Bodies, BlockData

(* The first m blocks of a file are good. *)
GoodUpTo(f, m) == \A k \in 1..m : BlockGood(f, k)

LEMMA GoodUpToData ==
  ASSUME NEW f, IsFile(f), NEW m \in Nat, GoodUpTo(f, m)
  PROVE  \A k \in 1..m : BlockData(f, k) \in Seq(Byte)
  <1> SUFFICES ASSUME NEW k \in 1..m PROVE BlockData(f, k) \in Seq(Byte)
    OBVIOUS
  <1>1. k \in Nat \ {0} /\ BlockGood(f, k)
    BY DEF GoodUpTo
  <1> QED  BY <1>1, GoodBlockData

LEMMA GoodBlocksProperties ==
  ASSUME NEW f, IsFile(f), HeaderGood(f)
  PROVE  /\ GoodBlocks(f) \in Nat
         /\ GoodUpTo(f, GoodBlocks(f))
         /\ \A m \in Nat : GoodUpTo(f, m) => m <= GoodBlocks(f)
  <1> DEFINE T == {m \in 0..Len(f) : \A k \in 1..m : BlockGood(f, k)}
  <1>1. Len(f) \in Nat
    BY FileProperties
  <1>2. GoodBlocks(f) = Max(T)
    BY DEF GoodBlocks
  <1>3. T \in SUBSET Nat /\ 0 \in T /\ \A t \in T : t <= Len(f)
    BY <1>1
  <1>4. \A m \in Nat : GoodUpTo(f, m) => m \in T
    <2> SUFFICES ASSUME NEW m \in Nat, GoodUpTo(f, m), m # 0 PROVE m \in T
      BY <1>3
    <2>1. BlockGood(f, m)
      BY DEF GoodUpTo
    <2>2. 2 * m + 1 <= Len(f)
      BY <2>1 DEF BlockGood
    <2> QED  BY <1>1, <2>2 DEF GoodUpTo
  <1>5. \A m \in T : GoodUpTo(f, m)
    BY DEF GoodUpTo
  <1> HIDE DEF T
  <1>6. Max(T) \in T /\ \A t \in T : t <= Max(T)
    BY <1>1, <1>3, GreatestNatural
  <1> QED  BY <1>2, <1>3, <1>4, <1>5, <1>6

(* The first fault is in the block after the last good one.                  *)
LEMMA FirstFault ==
  ASSUME NEW f, IsFile(f), HeaderGood(f), NEW m \in Nat, GoodUpTo(f, m), ~BlockGood(f, m + 1)
  PROVE  GoodBlocks(f) = m
  <1>1. GoodBlocks(f) \in Nat /\ m <= GoodBlocks(f)
    BY GoodBlocksProperties
  <1>2. GoodUpTo(f, GoodBlocks(f))
    BY GoodBlocksProperties
  <1>3. ~(m + 1 \in 1..GoodBlocks(f))
    BY <1>2 DEF GoodUpTo
  <1> QED  BY <1>1, <1>3

LEMMA ContentType == ASSUME NEW f, IsFile(f) PROVE Content(f) \in Seq(Byte)
  <1>1. CASE HeaderGood(f)
    BY <1>1, GoodBlocksProperties, GoodUpToData, BytesType DEF Content
  <1>2. CASE ~HeaderGood(f)
    BY <1>2, BytesNone, EmptySeq DEF Content, GoodBlocks
  <1> QED  BY <1>1, <1>2

(* What has been decoded of a file, as long as there was no fault, is the    *)
(* beginning of its content.                                                 *)
LEMMA ContentExtends ==
  ASSUME NEW f, IsFile(f), HeaderGood(f), NEW m \in Nat, GoodUpTo(f, m)
  PROVE  /\ Bytes(f, m) \in Seq(Byte)
         /\ \E r \in Seq(Byte) : Content(f) = Bytes(f, m) \o r
  <1>1. GoodBlocks(f) \in Nat /\ GoodUpTo(f, GoodBlocks(f)) /\ m <= GoodBlocks(f)
    BY GoodBlocksProperties
  <1>2. \A k \in 1..GoodBlocks(f) : BlockData(f, k) \in Seq(Byte)
    BY <1>1, GoodUpToData
  <1>3. \A k \in 1..m : BlockData(f, k) \in Seq(Byte)
    BY GoodUpToData
  <1> QED  BY <1>1, <1>2, <1>3, BytesType, BytesExtend DEF Content

(* Without a good stream header there is nothing in a file. *)
LEMMA NoHeader ==
  ASSUME NEW f, ~HeaderGood(f)
  PROVE  Content(f) = <<>> /\ ~Intact(f)
  BY BytesNone DEF Content, GoodBlocks, Intact

(* Block m + 1 of a file, seen from the segment that holds its header.       *)
LEMMA BlockGoodAt ==
  ASSUME NEW f, NEW m \in Nat, NEW j, j = 2 * m + 2
  PROVE  /\ BlockGood(f, m + 1) <=>
              /\ j + 1 <= Len(f)
              /\ f[j + 1].kind = "payload"
              /\ SizesInBounds(f[j], f[1].blockSize)
              /\ f[j + 1].body.tag = "enc"
              /\ Len(f[j + 1].body.data) = f[j].origSize
              /\ f[j].origSize <= f[1].blockSize
         /\ BlockData(f, m + 1) = f[j + 1].body.data
  <1>1. 2 * (m + 1) = j /\ 2 * (m + 1) + 1 = j + 1
    OBVIOUS
  <1> QED  BY <1>1 DEF BlockGood, BlockData, SizesInBounds

(* One good block more. *)
LEMMA GoodUpToNext ==
  ASSUME NEW f, NEW m \in Nat, GoodUpTo(f, m), BlockGood(f, m + 1)
  PROVE  GoodUpTo(f, m + 1)
  BY DEF GoodUpTo

(* What a decoder may find wrong with block m + 1, whose header is segment j. *)
LEMMA FaultyBlock ==
  ASSUME NEW f, IsFile(f), HeaderGood(f), NEW m \in Nat, NEW j, j = 2 * m + 2,
         \/ Len(f) < j + 1
         \/ j \in 1..Len(f) /\ f[j] = Part
         \/ f[j + 1] = Part
         \/ ~SizesInBounds(f[j], f[1].blockSize)
         \/ f[j + 1].body.tag # "enc"
         \/ Len(f[j + 1].body.data) # f[j].origSize
         \/ Len(f[j + 1].body.data) > f[1].blockSize
  PROVE  ~BlockGood(f, m + 1)
  <1>1. Len(f) \in Nat
    BY FileProperties
  <1>2. j \in 1..Len(f) /\ f[j] = Part => Len(f) = j
    BY DEF IsFile
  <1>3. Part.kind # "payload"
    BY DEF Part
  <1>4. ASSUME Len(f[j + 1].body.data) = f[j].origSize, f[j].origSize <= f[1].blockSize,
               SizesInBounds(f[j], f[1].blockSize)
        PROVE  ~(Len(f[j + 1].body.data) > f[1].blockSize)
    <2>1. f[j].origSize \in Int
      BY <1>4 DEF SizesInBounds
    <2>2. f[1].blockSize \in Int
      BY FormatAssumption DEF HeaderGood, ValidBlockSize
    <2> QED  BY <1>4, <2>1, <2>2
  <1> SUFFICES ASSUME BlockGood(f, m + 1) PROVE FALSE
    OBVIOUS
  <1>5. /\ j + 1 <= Len(f)
        /\ f[j + 1].kind = "payload"
        /\ SizesInBounds(f[j], f[1].blockSize)
        /\ f[j + 1].body.tag = "enc"
        /\ Len(f[j + 1].body.data) = f[j].origSize
        /\ f[j].origSize <= f[1].blockSize
    BY BlockGoodAt
  <1> QED  BY <1>1, <1>2, <1>3, <1>4, <1>5

(* When all blocks before it are good, that is the first fault of the file.  *)
LEMMA FaultAt ==
  ASSUME NEW f, IsFile(f), HeaderGood(f), NEW m \in Nat, GoodUpTo(f, m),
         NEW j, j = 2 * m + 2,
         \/ Len(f) < j + 1
         \/ j \in 1..Len(f) /\ f[j] = Part
         \/ f[j + 1] = Part
         \/ ~SizesInBounds(f[j], f[1].blockSize)
         \/ f[j + 1].body.tag # "enc"
         \/ Len(f[j + 1].body.data) # f[j].origSize
         \/ Len(f[j + 1].body.data) > f[1].blockSize
  PROVE  GoodBlocks(f) = m
  BY FaultyBlock, FirstFault

(* A fault in block m + 1 leaves m good blocks at most. *)
LEMMA GoodAtMost ==
  ASSUME NEW f, IsFile(f), HeaderGood(f), NEW m \in Nat, ~BlockGood(f, m + 1)
  PROVE  GoodBlocks(f) \in Nat /\ GoodBlocks(f) <= m
  <1>1. GoodBlocks(f) \in Nat /\ GoodUpTo(f, GoodBlocks(f))
    BY GoodBlocksProperties
  <1>2. ~(m + 1 \in 1..GoodBlocks(f))
    BY <1>1 DEF GoodUpTo
  <1> QED  BY <1>1, <1>2

(* The blocks of a file, as one sequence for each. *)
LEMMA FlattenBlocks ==
  ASSUME NEW f, NEW ss, ss = [k \in 1..Len(ss) |-> BlockData(f, k)]
  PROVE  FlattenSeq(ss) = Bytes(f, Len(ss))
  BY DEF Bytes

-----------------------------------------------------------------------------
LEMMA ProductOrder ==
  ASSUME NEW w \in Nat \ {0}, NEW a \in Int, NEW b \in Int, a < b
  PROVE  w * a + w <= w * b /\ w * a \in Int /\ w * b \in Int
  <1> DEFINE e == b - a - 1
  <1>1. e \in Nat /\ b = a + 1 + e
    OBVIOUS
  <1> HIDE DEF e
  <1>2. w * b = w * a + w + w * e
    BY <1>1
  <1>3. w * e >= 0 /\ w * e \in Int
    BY <1>1
  <1> QED  BY <1>2, <1>3

LEMMA QuotientBounds ==
  ASSUME NEW w \in Nat \ {0}, NEW x \in Nat
  PROVE  x \div w \in Int /\ w * (x \div w) <= x /\ x < w * (x \div w) + w
  OBVIOUS

(* Of w * q and less than w more, the quotient by w is q. *)
LEMMA QuotientOfSum ==
  ASSUME NEW w \in Nat \ {0}, NEW q \in Nat, NEW x \in Nat, w * q <= x, x < w * q + w
  PROVE  w * (x \div w) = w * q
  <1> DEFINE d == x \div w
  <1>1. d \in Int /\ w * d <= x /\ x < w * d + w
    BY QuotientBounds
  <1> HIDE DEF d
  <1>2. CASE d < q
    BY <1>1, <1>2, ProductOrder
  <1>3. CASE q < d
    BY <1>1, <1>3, ProductOrder
  <1>4. d = q
    BY <1>1, <1>2, <1>3
  <1> QED  BY <1>4 DEF d
=============================================================================
