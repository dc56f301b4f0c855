------------------------- MODULE ArithCoderBwtProofs ------------------------
(***************************************************************************)
(* Proofs about ArithCoder, for every size of digits, numbers, symbols and *)
(* counters, every input and every source: counters stay in range, no      *)
(* prediction splits off an empty half, the number that Decode reads stays *)
(* inside the interval for as long as the source lasts, and Decode gives   *)
(* back what Encode was given.                                             *)
(*                                                                         *)
(* Proofs about Bwt, for every text, alphabet and size of fastbits: the    *)
(* walk of Decode stays inside its tables on any input, and leads from     *)
(* what Encode made of a text back to the text.                            *)
(***************************************************************************)
EXTENDS ArithCoder, Bwt, FiniteSetTheorems, SequenceTheorems, WellFoundedInduction, TLAPS

LEMMA SizesPositive ==
  /\ Base \in Nat /\ Base >= 2 /\ Top \in Nat \ {0} /\ Step \in Nat \ {0}
  /\ Size \in Nat \ {0} /\ Scale \in Nat \ {0}
  BY DigitsAssumption, StepAssumption, SMTT(20) DEF Size, Scale

-----------------------------------------------------------------------------
(* Quotients by a number that is not fixed. *)
LEMMA Product ==
  ASSUME NEW a \in Int, NEW b \in Int
  PROVE  a * b \in Int /\ (a >= 0 /\ b >= 0 => a * b >= 0)
  BY SMTT(20)

LEMMA Quotient ==
  ASSUME NEW a \in Int, NEW s \in Nat \ {0}
  PROVE  /\ a \div s \in Int /\ a % s \in 0..s - 1
         /\ a = s * (a \div s) + (a % s)
  BY SMTT(20)

LEMMA QuotientBelow ==
  ASSUME NEW a \in Int, NEW m \in Int, NEW s \in Nat \ {0}, a < m * s
  PROVE  a \div s < m
  BY SMTT(20)

LEMMA QuotientAbove ==
  ASSUME NEW a \in Int, NEW m \in Int, NEW s \in Nat \ {0}, m * s <= a
  PROVE  m <= a \div s
  BY SMTT(20)

LEMMA ProductBelow ==
  ASSUME NEW r \in Nat \ {0}, NEW q \in Int, NEW s \in Int, q < s
  PROVE  r * q < r * s /\ r * s = s * r
  BY SMTT(20)

LEMMA ProductAtMost ==
  ASSUME NEW r \in Nat, NEW q \in Int, NEW s \in Int, q <= s
  PROVE  r * q <= r * s /\ q * r <= s * r
  BY SMTT(20)

(* A proper fraction of an interval is inside it. *)
LEMMA FractionInside ==
  ASSUME NEW r \in Nat \ {0}, NEW q \in Nat, NEW s \in Nat \ {0}, q < s
  PROVE  (r * q) \div s \in 0..r - 1
  <1>1. r * q < r * s /\ r * q >= 0 /\ r * q \in Int
    BY ProductBelow, Product
  <1>2. (r * q) \div s < r
    BY <1>1, QuotientBelow
  <1>3. 0 <= (r * q) \div s
    BY <1>1, QuotientAbove
  <1> QED  BY <1>1, <1>2, <1>3, Quotient

(* Interpolation between two counters gives a number between them. *)
LEMMA Interpolated ==
  ASSUME NEW x \in Counter, NEW y \in Counter, NEW t \in 0..Step - 1
  PROVE  x + (((y - x) * t) \div Step) \in Counter
  <1> DEFINE v == ((y - x) * t) \div Step
  <1>1. /\ t \in Nat /\ t <= Step /\ Step \in Nat \ {0} /\ Step \in Int
        /\ x \in Int /\ y \in Int /\ y - x \in Int /\ 0 \in Int /\ 1 \in Int
    BY StepAssumption, SizesPositive DEF Counter
  <1>2. (y - x) * t \in Int /\ v \in Int
    BY <1>1, Product, Quotient
  <1>3. CASE x <= y
    <2>1. (y - x) * t <= (y - x) * Step /\ (y - x) * t >= 0
      BY <1>1, <1>3, ProductAtMost, Product DEF Counter
    <2>2. v < y - x + 1
      <3>1. (y - x) * t < (y - x + 1) * Step /\ y - x + 1 \in Int
        BY <2>1, <1>1, <1>2, SMTT(20)
      <3> QED  BY <3>1, <1>1, <1>2, QuotientBelow
    <2>3. 0 <= v
      BY <2>1, <1>1, <1>2, QuotientAbove
    <2> HIDE DEF v
    <2>4. x <= x + v /\ x + v <= y /\ x + v \in Int
      BY <2>2, <2>3, <1>1, <1>2
    <2> QED  BY <2>4, <1>1, SizesPositive DEF Counter, v
  <1>4. CASE y < x
    <2>1. (y - x) * t <= 0 /\ (y - x) * Step <= (y - x) * t
      <3>1. (x - y) * t <= (x - y) * Step /\ (x - y) * t >= 0
        BY <1>1, <1>4, ProductAtMost, Product DEF Counter
      <3>2. (x - y) * t = -((y - x) * t) /\ (x - y) * Step = -((y - x) * Step)
        BY <1>1, SMTT(20) DEF Counter
      <3> QED  BY <3>1, <3>2, <1>1, Product
    <2>2. v < 1
      BY <2>1, <1>1, <1>2, QuotientBelow
    <2>3. y - x <= v
      BY <2>1, <1>1, <1>2, QuotientAbove
    <2> HIDE DEF v
    <2>4. y <= x + v /\ x + v <= x /\ x + v \in Int
      BY <2>2, <2>3, <1>1, <1>2
    <2> QED  BY <2>4, <1>1, SizesPositive DEF Counter, v
  <1> QED  BY <1>3, <1>4 DEF Counter

(* The sixteen intervals of the fourth table. *)
LEMMA IntervalExists ==
  ASSUME NEW q \in Counter
  PROVE  q \div Step \in 0..15 /\ q % Step \in 0..Step - 1
  <1>1. q < 16 * Step /\ 0 * Step <= q /\ q \in Int /\ Step \in Nat \ {0} /\ 16 \in Int /\ 0 \in Int
    BY StepAssumption DEF Counter, Scale
  <1>2. q \div Step < 16
    BY <1>1, QuotientBelow
  <1>3. 0 <= q \div Step
    BY <1>1, QuotientAbove
  <1>4. q \div Step \in Int /\ q % Step \in 0..Step - 1
    BY <1>1, Quotient
  <1> QED  BY <1>2, <1>3, <1>4

(* Counters stay counters. *)
LEMMA LearntCounter ==
  ASSUME NEW x \in Counter, NEW bit \in BOOLEAN, NEW part \in {4, 16, 64}
  PROVE  Learn(x, bit, part) \in Counter
  <1>1. \A y \in Nat : y \div part \in 0..y
    BY SMTT(20)
  <1>2. x \in Nat /\ Scale - 1 - x \in Nat
    BY SizesPositive DEF Counter
  <1>3. x \div part \in 0..x /\ (Scale - 1 - x) \div part \in 0..Scale - 1 - x
    BY <1>1, <1>2
  <1> QED  BY <1>2, <1>3, SizesPositive DEF Learn, Counter

-----------------------------------------------------------------------------
(* Moving a number up by one digit drops its leading one. *)
LEMMA ShiftedNumber ==
  ASSUME NEW m \in 0..Size - 1, NEW d \in 0..Base - 1
  PROVE  /\ m % Top \in 0..Top - 1 /\ m \div Top \in 0..Base - 1
         /\ m = Top * (m \div Top) + (m % Top)
         /\ ((m * Base) % Size) + d = (m % Top) * Base + d
         /\ (m * Base + d) % Size = (m % Top) * Base + d
         /\ (m % Top) * Base + d \in 0..Size - 1
  <1> DEFINE l == m % Top
             t == m \div Top
  <1>1. /\ Base \in Nat /\ Top \in Nat \ {0} /\ Size \in Nat \ {0} /\ Size = Base * Top
        /\ m \in Nat /\ d \in Nat /\ Base \in Int /\ Top \in Int
    BY SizesPositive DEF Size
  <1>2. l \in 0..Top - 1 /\ t \in Int /\ m = Top * t + l
    BY <1>1, Quotient
  <1>3. t \in 0..Base - 1
    <2>1. m < Base * Top /\ 0 * Top <= m /\ m \in Int /\ 0 \in Int
      BY <1>1
    <2>2. t < Base
      BY <2>1, <1>1, QuotientBelow
    <2>3. 0 <= t
      BY <2>1, <1>1, QuotientAbove
    <2> QED  BY <2>2, <2>3, <1>1, <1>2
  <1> HIDE DEF l, t
  <1>4. l * Base \in Nat /\ l * Base + d <= Size - 1
    <2>1. l * Base <= (Top - 1) * Base
      BY <1>1, <1>2, ProductAtMost
    <2>2. (Top - 1) * Base = Size - Base
      BY <1>1, SMTT(20)
    <2> QED  BY <2>1, <2>2, <1>1, <1>2, Product
  <1>5. m * Base = t * Size + l * Base
    BY <1>1, <1>2, SMTT(20)
  <1>6. \A e \in 0..Size - 1 : (t * Size + e) % Size = e
    BY <1>1, <1>2, SMTT(60)
  <1>7. t * Size \in Int
    BY <1>1, <1>2, Product
  <1>8. (m * Base) % Size = l * Base /\ (m * Base + d) % Size = l * Base + d
    <2>1. l * Base \in 0..Size - 1 /\ l * Base + d \in 0..Size - 1
      BY <1>1, <1>4
    <2>2. m * Base + d = t * Size + (l * Base + d)
      <3>1. m * Base \in Int /\ t * Size \in Int /\ l * Base \in Int
        BY <1>1, <1>4, <1>7, Product
      <3> QED  BY <3>1, <1>1, <1>5
    <2> QED  BY <2>1, <2>2, <1>5, <1>6
  <1> QED  BY <1>1, <1>2, <1>3, <1>4, <1>8 DEF l, t

(* Numbers with the same leading digit keep their order when moved up, and   *)
(* anything between them has that digit too.                                 *)
LEMMA ShiftKeepsOrder ==
  ASSUME NEW a \in 0..Size - 1, NEW b \in 0..Size - 1, a <= b, a \div Top = b \div Top,
         NEW d \in 0..Base - 1, NEW e \in 0..Base - 1, d <= e
  PROVE  (a % Top) * Base + d <= (b % Top) * Base + e
  <1>1. /\ a % Top \in Int /\ b % Top \in Int /\ b % Top >= 0 /\ a % Top <= b % Top /\ Base \in Nat
    BY ShiftedNumber, SizesPositive
  <1>2. (a % Top) * Base <= (b % Top) * Base
    BY <1>1, ProductAtMost
  <1> QED  BY <1>1, <1>2, Product

LEMMA SameLeadingDigit ==
  ASSUME NEW a \in 0..Size - 1, NEW b \in 0..Size - 1, NEW m \in 0..Size - 1,
         a <= m, m <= b, a \div Top = b \div Top
  PROVE  m \div Top = a \div Top
  <1>1. \A x, y \in 0..Size - 1 : x <= y => x \div Top <= y \div Top
    <2> SUFFICES ASSUME NEW x \in 0..Size - 1, NEW y \in 0..Size - 1, x <= y
                 PROVE  x \div Top <= y \div Top
      OBVIOUS
    <2>1. x \div Top \in Int /\ Top \in Nat \ {0} /\ x = Top * (x \div Top) + (x % Top)
          /\ x % Top >= 0 /\ x % Top \in Int
      BY SizesPositive, Quotient
    <2>2. (x \div Top) * Top <= y
      BY <2>1, SMTT(20)
    <2> QED  BY <2>1, <2>2, QuotientAbove
  <1>2. a \div Top \in Int /\ m \div Top \in Int
    BY SizesPositive, Quotient
  <1> QED  BY <1>1, <1>2

-----------------------------------------------------------------------------
(* The model's part: whatever it has learnt, the prediction is a proper      *)
(* fraction, and every table entry it uses exists.                           *)
LEMMA PredictionInRange ==
  ASSUME TypeOK, ctx \in 1..Symbols - 1
  PROVE  /\ p0 \in Counter /\ p1 \in Counter /\ row \in 2..2 * Symbols - 1
         /\ j1 \in 0..15 /\ x1 \in Counter /\ x2 \in Counter
         /\ ssep * 3 + p \in Nat /\ ssep * 3 + p < 4 * Scale
  <1>1. p0 \in Counter /\ p1 \in Counter /\ p2 \in Counter
    BY DEF TypeOK, p0, p1, p2
  <1>2. p \in Counter
    BY <1>1, SizesPositive DEF p, Counter
  <1>3. j1 \in 0..15 /\ p % Step \in 0..Step - 1
    BY <1>2, IntervalExists DEF j1
  <1>4. row \in 2..2 * Symbols - 1
    BY SymbolsAssumption DEF row
  <1>5. x1 \in Counter /\ x2 \in Counter
    <2>1. c2[row] \in [0..16 -> Counter] /\ j1 \in 0..16 /\ j1 + 1 \in 0..16
      BY <1>3, <1>4, SMTT(40) DEF TypeOK
    <2> QED  BY <2>1 DEF x1, x2
  <1>6. ssep \in Counter
    BY <1>3, <1>5, Interpolated DEF ssep
  <1> QED  BY <1>1, <1>2, <1>3, <1>4, <1>5, <1>6, SizesPositive DEF Counter

LEMMA MidInside ==
  ASSUME TypeOK, ctx \in 1..Symbols - 1, low < high
  PROVE  mid \in low..high - 1
  <1> DEFINE r == high - low
             q == ssep * 3 + p
             v == (r * q) \div (4 * Scale)
  <1>1. r \in Nat \ {0} /\ low \in Int /\ high \in Int /\ 4 * Scale \in Nat \ {0}
    BY SizesPositive DEF TypeOK
  <1>2. q \in Nat /\ q < 4 * Scale
    BY PredictionInRange
  <1> HIDE DEF q
  <1>3. v \in 0..r - 1
    BY <1>1, <1>2, FractionInside
  <1>4. mid = low + v
    BY DEF mid, q
  <1> HIDE DEF v
  <1> QED  BY <1>1, <1>3, <1>4

LEMMA SettledApart ==
  ASSUME TypeOK, Settled, low <= high
  PROVE  low < high
  BY DEF TypeOK, Settled

-----------------------------------------------------------------------------
LEMMA FreshTyped ==
  /\ Fresh0 \in [1..Symbols - 1 -> Counter]
  /\ Fresh1 \in [0..Symbols - 1 -> [1..Symbols - 1 -> Counter]]
  /\ Fresh2 \in [2..2 * Symbols - 1 -> [0..16 -> Counter]]
  <1>1. 8 * Step \in Counter /\ Scale - 1 \in Counter
    BY StepAssumption DEF Counter, Scale
  <1>2. \A j \in 0..15 : j * Step \in Counter
    <2> SUFFICES ASSUME NEW j \in 0..15  PROVE j * Step \in Counter
      OBVIOUS
    <2>1. j * Step <= 15 * Step /\ j * Step \in Int /\ j * Step >= 0
      BY StepAssumption, ProductAtMost, Product
    <2> QED  BY <2>1, StepAssumption DEF Counter, Scale
  <1>3. Fresh0 \in [1..Symbols - 1 -> Counter]
    BY <1>1 DEF Fresh0
  <1>4. \A j \in 0..16 : (IF j = 16 THEN Scale - 1 ELSE j * Step) \in Counter
    BY <1>1, <1>2
  <1>5. Fresh2 \in [2..2 * Symbols - 1 -> [0..16 -> Counter]]
    BY <1>4 DEF Fresh2
  <1> QED  BY <1>3, <1>5 DEF Fresh1

LEMMA InitEstablishesInvariant == Init => IInv
  <1> SUFFICES ASSUME Init  PROVE IInv
    OBVIOUS
  <1>1. TypeOK
    <2>1. Size - 1 \in Nat /\ Digits \in Nat /\ Base \in Nat /\ 2 * Symbols - 1 \in Nat
          /\ Symbols - 1 \in Nat
      BY SizesPositive, DigitsAssumption, SymbolsAssumption
    <2>2. out \in Seq(0..Base - 1)
      <3>1. CASE out = <<>>
        BY <3>1
      <3>2. CASE out \in ForeignSources
        BY <3>2, InputsAssumption
      <3> QED  BY <3>1, <3>2 DEF Init
    <2>3. inPos \in 0..Len(out)
      BY <2>2 DEF Init
    <2>4. phase \in {"encode", "flush", "prime", "decode", "done"}
      BY DEF Init
    <2>5. /\ c0 \in [1..Symbols - 1 -> Counter]
          /\ c1 \in [0..Symbols - 1 -> [1..Symbols - 1 -> Counter]]
          /\ c2 \in [2..2 * Symbols - 1 -> [0..16 -> Counter]]
      BY FreshTyped DEF Init
    <2>6. /\ low \in 0..Size - 1 /\ high \in 0..Size - 1 /\ code \in 0..Size - 1
          /\ ctx \in 0..2 * Symbols - 1 /\ run \in Nat
          /\ last \in 0..Symbols - 1 /\ beforeLast \in 0..Symbols - 1 /\ k \in 0..Digits
      BY <2>1 DEF Init
    <2> QED  BY <2>2, <2>3, <2>4, <2>5, <2>6 DEF TypeOK
  <1>2. IntervalNotEmpty /\ CodeInInterval
    BY SizesPositive DEF Init, IntervalNotEmpty, CodeInInterval
  <1> QED  BY <1>1, <1>2 DEF IInv

-----------------------------------------------------------------------------
(* One bit: the model learns, the interval becomes one of its two halves.    *)
LEMMA BitKeepsTypes ==
  ASSUME TypeOK, low <= high, BitToCome, NEW bit \in BOOLEAN, Bit(bit)
  PROVE  /\ c0' \in [1..Symbols - 1 -> Counter]
         /\ c1' \in [0..Symbols - 1 -> [1..Symbols - 1 -> Counter]]
         /\ c2' \in [2..2 * Symbols - 1 -> [0..16 -> Counter]]
         /\ ctx' \in 0..2 * Symbols - 1
         /\ low' \in 0..Size - 1 /\ high' \in 0..Size - 1 /\ low' <= high'
  <1>1. ctx \in 1..Symbols - 1 /\ low < high
    BY SettledApart DEF BitToCome, Coding
  <1>2. /\ p0 \in Counter /\ p1 \in Counter /\ row \in 2..2 * Symbols - 1
        /\ j1 \in 0..15 /\ x1 \in Counter /\ x2 \in Counter
    BY <1>1, PredictionInRange
  <1>3. /\ Learn(p0, bit, 4) \in Counter /\ Learn(p1, bit, 16) \in Counter
        /\ Learn(x1, bit, 64) \in Counter /\ Learn(x2, bit, 64) \in Counter
    BY <1>2, LearntCounter
  <1>4. c0' \in [1..Symbols - 1 -> Counter]
    BY <1>1, <1>3 DEF TypeOK, Bit
  <1>5. c1' \in [0..Symbols - 1 -> [1..Symbols - 1 -> Counter]]
    BY <1>1, <1>3 DEF TypeOK, Bit
  <1>6. c2' \in [2..2 * Symbols - 1 -> [0..16 -> Counter]]
    <2> DEFINE a == Learn(x1, bit, 64)
               b == Learn(x2, bit, 64)
    <2>1. a \in Counter /\ b \in Counter
      BY <1>3
    <2>2. c2' = [c2 EXCEPT ![row][j1] = a, ![row][j1 + 1] = b]
      BY DEF Bit
    <2> HIDE DEF a, b
    <2>3. j1 \in 0..16 /\ j1 + 1 \in 0..16
      BY <1>2
    <2> QED  BY <2>1, <2>2, <2>3, <1>2 DEF TypeOK
  <1>7. ctx' \in 0..2 * Symbols - 1
    BY <1>1, SymbolsAssumption DEF Bit
  <1>8. low' \in 0..Size - 1 /\ high' \in 0..Size - 1 /\ low' <= high'
    <2>1. mid \in low..high - 1 /\ low \in 0..Size - 1 /\ high \in 0..Size - 1
      BY <1>1, MidInside DEF TypeOK
    <2> QED  BY <2>1, SizesPositive DEF Bit, LowAbove
  <1> QED  BY <1>4, <1>5, <1>6, <1>7, <1>8

(* One digit: both ends move up, and stay in order.                          *)
LEMMA ShiftKeepsTypes ==
  ASSUME TypeOK, low <= high, ~Settled, Shift
  PROVE  /\ low' = (low % Top) * Base /\ high' = (high % Top) * Base + (Base - 1)
         /\ low' \in 0..Size - 1 /\ high' \in 0..Size - 1 /\ low' <= high'
  <1>1. low \in 0..Size - 1 /\ high \in 0..Size - 1 /\ low \div Top = high \div Top
        /\ 0 \in 0..Base - 1 /\ Base - 1 \in 0..Base - 1 /\ Base \in Nat
    BY SizesPositive DEF TypeOK, Settled
  <1>2. low % Top \in Nat /\ high % Top \in Nat
    BY <1>1, ShiftedNumber
  <1>3. /\ ((low * Base) % Size) + 0 = (low % Top) * Base + 0
        /\ (low % Top) * Base + 0 \in 0..Size - 1
    BY <1>1, ShiftedNumber
  <1>4. /\ ((high * Base) % Size) + (Base - 1) = (high % Top) * Base + (Base - 1)
        /\ (high % Top) * Base + (Base - 1) \in 0..Size - 1
    BY <1>1, ShiftedNumber
  <1>5. (low % Top) * Base + 0 <= (high % Top) * Base + (Base - 1)
    BY <1>1, ShiftKeepsOrder
  <1>6. (low * Base) % Size \in Int /\ (high * Base) % Size \in Int
        /\ (low % Top) * Base \in Int /\ (high % Top) * Base \in Int
    BY <1>1, <1>2, Product, Quotient, SizesPositive
  <1> QED  BY <1>1, <1>3, <1>4, <1>5, <1>6 DEF Shift

(* One digit of the source, or what is taken for one.                        *)
LEMMA ReadKeepsTypes ==
  ASSUME TypeOK, ReadDigit
  PROVE  /\ code' \in 0..Size - 1 /\ inPos' \in 0..Len(out)
         /\ inPos' < Len(out) => code' = (code % Top) * Base + out[inPos + 1]
                                 /\ out[inPos + 1] \in 0..Base - 1
  <1>1. code \in 0..Size - 1 /\ inPos \in 0..Len(out) /\ out \in Seq(0..Base - 1)
        /\ Len(out) \in Nat
    BY DEF TypeOK
  <1>2. ASSUME inPos < Len(out)
        PROVE  readIn \in 0..Base - 1 /\ readIn = out[inPos + 1]
    <2>1. inPos + 1 \in 1..Len(out)
      BY <1>1, <1>2
    <2>2. out[inPos + 1] \in 0..Base - 1
      BY <1>1, <2>1, ElementOfSeq
    <2> QED  BY <1>2, <2>2 DEF readIn
  <1>3. readIn \in Int
    BY <1>2, SizesPositive DEF readIn
  <1>4. code' \in 0..Size - 1
    <2>1. code * Base \in Int
      BY <1>1, SizesPositive, Product
    <2>2. code * Base + readIn \in Int
      BY <2>1, <1>3
    <2>3. (code * Base + readIn) % Size \in 0..Size - 1
      BY <2>2, SizesPositive, Quotient
    <2> QED  BY <2>3 DEF ReadDigit
  <1>5. inPos' \in 0..Len(out) /\ (inPos' < Len(out) => inPos < Len(out))
    BY <1>1 DEF ReadDigit
  <1>6. ASSUME inPos < Len(out)
        PROVE  code' = (code % Top) * Base + out[inPos + 1]
    <2>1. (code * Base + readIn) % Size = (code % Top) * Base + readIn
      BY <1>1, <1>2, <1>6, ShiftedNumber
    <2> QED  BY <2>1, <1>2, <1>6 DEF ReadDigit
  <1> QED  BY <1>2, <1>4, <1>5, <1>6

(* The digit that leaves the interval. *)
LEMMA LeadingDigit ==
  ASSUME TypeOK
  PROVE  low \div Top \in 0..Base - 1 /\ (low * Base) % Size \in 0..Size - 1
         /\ Append(out, low \div Top) \in Seq(0..Base - 1)
         /\ Len(Append(out, low \div Top)) = Len(out) + 1
  <1>1. low \in 0..Size - 1 /\ 0 \in 0..Base - 1 /\ low * Base \in Int
    BY SizesPositive, Product DEF TypeOK
  <1>2. low \div Top \in 0..Base - 1
    BY <1>1, ShiftedNumber
  <1>3. (low * Base) % Size \in 0..Size - 1
    BY <1>1, SizesPositive, Quotient
  <1> QED  BY <1>2, <1>3 DEF TypeOK

-----------------------------------------------------------------------------
(* The actions that code and decode. *)
LEMMA BitKeepsInvariant ==
  ASSUME IInv, EncodeBit \/ DecodeBit
  PROVE  IInv'
  <1>1. TypeOK /\ BitToCome /\ low <= high /\ phase \in {"encode", "decode"}
    BY DEF IInv, EncodeBit, DecodeBit, BitToCome, Coding, IntervalNotEmpty
  <1>2. PICK bit \in BOOLEAN : Bit(bit) /\ (phase = "decode" => bit = (code <= mid))
    <2>1. CASE EncodeBit
      <3>1. (c >= Symbols \div 2) \in BOOLEAN /\ phase # "decode"
        BY <2>1 DEF EncodeBit
      <3> QED  BY <2>1, <3>1 DEF EncodeBit
    <2>2. CASE DecodeBit
      <3>1. (code <= mid) \in BOOLEAN
        OBVIOUS
      <3> QED  BY <2>2, <3>1 DEF DecodeBit, DecodedBit
    <2> QED  BY <2>1, <2>2
  <1>3. UNCHANGED <<phase, run, last, beforeLast, k, out, code, inPos>>
    BY <1>2 DEF Bit, EncodeBit, DecodeBit
  <1>4. /\ c0' \in [1..Symbols - 1 -> Counter]
        /\ c1' \in [0..Symbols - 1 -> [1..Symbols - 1 -> Counter]]
        /\ c2' \in [2..2 * Symbols - 1 -> [0..16 -> Counter]]
        /\ ctx' \in 0..2 * Symbols - 1
        /\ low' \in 0..Size - 1 /\ high' \in 0..Size - 1 /\ low' <= high'
    BY <1>1, <1>2, BitKeepsTypes
  <1>5. TypeOK'
    BY <1>1, <1>3, <1>4 DEF TypeOK
  <1>6. IntervalNotEmpty'
    BY <1>4 DEF IntervalNotEmpty
  <1>7. CodeInInterval'
    <2>1. phase' # "prime" /\ (phase' = "decode" <=> phase = "decode")
      BY <1>1, <1>3
    <2>2. ASSUME phase = "decode", inPos < Len(out)
          PROVE  low' <= code /\ code <= high'
      <3>1. low <= code /\ code <= high
        BY <2>2 DEF IInv, CodeInInterval
      <3>2. Settled /\ ctx \in 1..Symbols - 1
        BY <1>1 DEF BitToCome, Coding
      <3>3. mid \in low..high - 1
        BY <1>1, <3>2, SettledApart, MidInside
      <3>4. low \in Int /\ high \in Int /\ code \in Int /\ mid \in Int
        BY <1>1, <3>3 DEF TypeOK
      <3>5. CASE bit
        <4>1. high' = mid /\ low' = low /\ code <= mid
          BY <1>2, <2>2, <3>5 DEF Bit
        <4> QED  BY <4>1, <3>1
      <3>6. CASE ~bit
        <4>1. high' = high /\ low' = mid + 1 /\ ~(code <= mid)
          BY <1>2, <2>2, <3>6 DEF Bit, LowAbove
        <4> QED  BY <4>1, <3>1, <3>4
      <3> QED  BY <3>5, <3>6
    <2> QED  BY <1>3, <2>1, <2>2 DEF CodeInInterval
  <1> QED  BY <1>5, <1>6, <1>7 DEF IInv

LEMMA EncodeShiftKeepsInvariant ==
  ASSUME IInv, EncodeShift
  PROVE  IInv'
  <1>1. TypeOK /\ low <= high /\ ~Settled /\ Shift /\ phase = "encode"
    BY DEF IInv, EncodeShift, IntervalNotEmpty
  <1>2. low' \in 0..Size - 1 /\ high' \in 0..Size - 1 /\ low' <= high'
    BY <1>1, ShiftKeepsTypes
  <1>3. out' \in Seq(0..Base - 1) /\ Len(out') = Len(out) + 1
    BY <1>1, LeadingDigit DEF EncodeShift
  <1>4. UNCHANGED <<phase, c0, c1, c2, ctx, run, last, beforeLast, k, code, inPos>>
    BY <1>1 DEF Shift, EncodeShift, model, symbol
  <1>5. inPos' \in 0..Len(out')
    BY <1>1, <1>3, <1>4 DEF TypeOK
  <1>6. TypeOK'
    BY <1>1, <1>2, <1>3, <1>4, <1>5 DEF TypeOK
  <1> QED  BY <1>1, <1>2, <1>4, <1>6 DEF IInv, IntervalNotEmpty, CodeInInterval

LEMMA DecodeShiftKeepsInvariant ==
  ASSUME IInv, DecodeShift
  PROVE  IInv'
  <1>1. TypeOK /\ low <= high /\ ~Settled /\ Shift /\ ReadDigit /\ phase = "decode"
    BY DEF IInv, DecodeShift, IntervalNotEmpty
  <1>2. /\ low' = (low % Top) * Base /\ high' = (high % Top) * Base + (Base - 1)
        /\ low' \in 0..Size - 1 /\ high' \in 0..Size - 1 /\ low' <= high'
    BY <1>1, ShiftKeepsTypes
  <1>3. UNCHANGED <<phase, c0, c1, c2, ctx, run, last, beforeLast, k, out>>
    BY <1>1 DEF Shift, ReadDigit, model, symbol
  <1>4. /\ code' \in 0..Size - 1 /\ inPos' \in 0..Len(out)
        /\ inPos' < Len(out) => code' = (code % Top) * Base + out[inPos + 1]
                                /\ out[inPos + 1] \in 0..Base - 1
    BY <1>1, ReadKeepsTypes
  <1>5. TypeOK'
    BY <1>1, <1>2, <1>3, <1>4 DEF TypeOK
  <1>6. ASSUME inPos' < Len(out)
        PROVE  low' <= code' /\ code' <= high'
    <2> DEFINE d == out[inPos + 1]
    <2>1. inPos < Len(out) /\ code' = (code % Top) * Base + d /\ d \in 0..Base - 1
      BY <1>1, <1>4, <1>6 DEF ReadDigit, TypeOK
    <2> HIDE DEF d
    <2>2. low <= code /\ code <= high
      BY <1>1, <2>1 DEF IInv, CodeInInterval
    <2>3. /\ low \in 0..Size - 1 /\ high \in 0..Size - 1 /\ code \in 0..Size - 1
          /\ low \div Top = high \div Top
      BY <1>1 DEF TypeOK, Settled
    <2>4. code \div Top = low \div Top /\ code \div Top = high \div Top
      BY <2>2, <2>3, SameLeadingDigit
    <2>5. 0 \in 0..Base - 1 /\ Base - 1 \in 0..Base - 1 /\ 0 <= d /\ d <= Base - 1
      BY <2>1, SizesPositive
    <2>6. (low % Top) * Base + 0 <= (code % Top) * Base + d
      BY <2>1, <2>2, <2>3, <2>4, <2>5, ShiftKeepsOrder
    <2>7. (code % Top) * Base + d <= (high % Top) * Base + (Base - 1)
      BY <2>1, <2>2, <2>3, <2>4, <2>5, ShiftKeepsOrder
    <2>8. (low % Top) * Base + 0 = (low % Top) * Base
      BY <1>2, <2>3, SizesPositive
    <2> QED  BY <1>2, <2>1, <2>6, <2>7, <2>8
  <1>7. CodeInInterval'
    BY <1>1, <1>3, <1>6 DEF CodeInInterval
  <1> QED  BY <1>2, <1>5, <1>7 DEF IInv, IntervalNotEmpty

LEMMA PrimeKeepsInvariant ==
  ASSUME IInv, Prime
  PROVE  IInv'
  <1>1. TypeOK /\ ReadDigit /\ phase = "prime" /\ k < Digits /\ k' = k + 1
    BY DEF IInv, Prime
  <1>2. UNCHANGED <<phase, c0, c1, c2, low, high, ctx, run, last, beforeLast, out>>
    BY <1>1 DEF Prime, ReadDigit, model, symbol
  <1>3. code' \in 0..Size - 1 /\ inPos' \in 0..Len(out)
    BY <1>1, ReadKeepsTypes
  <1>4. TypeOK'
    BY <1>1, <1>2, <1>3, DigitsAssumption, SMTT(40) DEF TypeOK
  <1> QED  BY <1>1, <1>2, <1>4 DEF IInv, IntervalNotEmpty, CodeInInterval

(* The actions that leave the interval alone, write it out or start afresh.  *)
LEMMA SymbolKeepsInvariant ==
  ASSUME IInv, BeginSymbol \/ EndSymbol
  PROVE  IInv'
  <1>1. TypeOK
    BY DEF IInv
  <1>2. UNCHANGED <<phase, c0, c1, c2, low, high, k, out, code, inPos>>
    BY DEF BeginSymbol, EndSymbol, model, decoding
  <1>3. /\ ctx' \in 0..2 * Symbols - 1 /\ run' \in Nat
        /\ last' \in 0..Symbols - 1 /\ beforeLast' \in 0..Symbols - 1
    <2>1. CASE BeginSymbol
      BY <1>1, <2>1, SymbolsAssumption DEF BeginSymbol, TypeOK
    <2>2. CASE EndSymbol
      BY <1>1, <2>2, SymbolsAssumption DEF EndSymbol, TypeOK
    <2> QED  BY <2>1, <2>2
  <1>4. TypeOK'
    BY <1>1, <1>2, <1>3 DEF TypeOK
  <1> QED  BY <1>2, <1>4 DEF IInv, IntervalNotEmpty, CodeInInterval

LEMMA FlushKeepsInvariant ==
  ASSUME IInv, Flush
  PROVE  IInv'
  <1>1. TypeOK /\ phase = "flush" /\ k < Digits /\ k' = k + 1
    BY DEF IInv, Flush
  <1>2. UNCHANGED <<phase, c0, c1, c2, high, ctx, run, last, beforeLast, code, inPos>>
    BY DEF Flush, model, symbol, decoding
  <1>3. /\ low' \in 0..Size - 1 /\ out' \in Seq(0..Base - 1)
        /\ Len(out') = Len(out) + 1
    BY <1>1, LeadingDigit DEF Flush
  <1>4. inPos' \in 0..Len(out') /\ k' \in 0..Digits
    BY <1>1, <1>2, <1>3, DigitsAssumption, SMTT(40) DEF TypeOK
  <1>5. TypeOK'
    BY <1>1, <1>2, <1>3, <1>4 DEF TypeOK
  <1> QED  BY <1>1, <1>2, <1>5 DEF IInv, IntervalNotEmpty, CodeInInterval

LEMMA EncodeReturnsKeepsInvariant ==
  ASSUME IInv, EncodeReturns
  PROVE  IInv'
  <1>1. TypeOK /\ phase' = "prime" /\ k' = 0 /\ Begin
    BY DEF IInv, EncodeReturns
  <1>2. UNCHANGED <<out, code, inPos>>
    BY DEF EncodeReturns, decoding
  <1>3. /\ Size - 1 \in 0..Size - 1 /\ 0 \in 0..Size - 1 /\ 0 <= Size - 1
        /\ 0 \in 0..2 * Symbols - 1 /\ 0 \in 0..Symbols - 1 /\ 0 \in 0..Digits
    BY SizesPositive, SymbolsAssumption, DigitsAssumption
  <1>4. TypeOK'
    <2>1. /\ c0' \in [1..Symbols - 1 -> Counter]
          /\ c1' \in [0..Symbols - 1 -> [1..Symbols - 1 -> Counter]]
          /\ c2' \in [2..2 * Symbols - 1 -> [0..16 -> Counter]]
      BY <1>1, FreshTyped DEF Begin
    <2> QED  BY <1>1, <1>2, <1>3, <2>1 DEF TypeOK, Begin
  <1> QED  BY <1>1, <1>3, <1>4 DEF IInv, IntervalNotEmpty, CodeInInterval, Begin

LEMMA PhaseKeepsInvariant ==
  ASSUME IInv, EncodeEnds \/ DecodeStarts \/ DecodeReturns
  PROVE  IInv'
  <1>1. TypeOK /\ phase' \in {"flush", "decode", "done"}
    BY DEF IInv, EncodeEnds, DecodeStarts, DecodeReturns
  <1>2. UNCHANGED <<c0, c1, c2, low, high, ctx, run, last, beforeLast, k, out, code, inPos>>
    BY DEF EncodeEnds, DecodeStarts, DecodeReturns, model, symbol, decoding
  <1>3. TypeOK'
    BY <1>1, <1>2 DEF TypeOK
  <1>4. IntervalNotEmpty'
    BY <1>2 DEF IInv, IntervalNotEmpty, EncodeEnds, DecodeStarts, DecodeReturns
  <1>5. CodeInInterval'
    <2>1. ASSUME phase' = "decode"
          PROVE  low <= code /\ code <= high
      <3>1. low = 0 /\ high = Size - 1
        BY <2>1 DEF IInv, CodeInInterval, EncodeEnds, DecodeStarts, DecodeReturns
      <3> QED  BY <1>1, <3>1, SizesPositive DEF TypeOK
    <2> QED  BY <1>1, <1>2, <2>1 DEF CodeInInterval
  <1> QED  BY <1>3, <1>4, <1>5 DEF IInv

LEMMA StutterKeepsInvariant ==
  ASSUME IInv, UNCHANGED vars
  PROVE  IInv'
  BY DEF IInv, TypeOK, IntervalNotEmpty, CodeInInterval, vars, model, symbol, decoding

(***************************************************************************)
(* Whatever is coded and whatever Decode is given, counters stay within    *)
(* their width, the interval is never empty, and the decoder's number lies *)
(* in it while the source lasts.                                           *)
(***************************************************************************)
THEOREM CoderInvariant == Spec => []IInv
  <1>1. IInv /\ [Next]_vars => IInv'
    <2> SUFFICES ASSUME IInv, [Next]_vars  PROVE IInv'
      OBVIOUS
    <2>1. CASE BeginSymbol \/ EndSymbol
      BY <2>1, SymbolKeepsInvariant
    <2>2. CASE EncodeBit \/ DecodeBit
      BY <2>2, BitKeepsInvariant
    <2>3. CASE EncodeShift
      BY <2>3, EncodeShiftKeepsInvariant
    <2>4. CASE Flush
      BY <2>4, FlushKeepsInvariant
    <2>5. CASE EncodeReturns
      BY <2>5, EncodeReturnsKeepsInvariant
    <2>6. CASE Prime
      BY <2>6, PrimeKeepsInvariant
    <2>7. CASE DecodeShift
      BY <2>7, DecodeShiftKeepsInvariant
    <2>8. CASE EncodeEnds \/ DecodeStarts \/ DecodeReturns
      BY <2>8, PhaseKeepsInvariant
    <2>9. CASE UNCHANGED vars
      BY <2>9, StutterKeepsInvariant
    <2> QED  BY <2>1, <2>2, <2>3, <2>4, <2>5, <2>6, <2>7, <2>8, <2>9 DEF Next
  <1> QED  BY InitEstablishesInvariant, <1>1, PTL DEF Spec

-----------------------------------------------------------------------------
(* A set of natural numbers that is not empty has a least element.           *)
LEMMA LeastNatural ==
  ASSUME NEW Q \in SUBSET Nat, Q # {}
  PROVE  \E x \in Q : \A y \in Q : x <= y
  <1> DEFINE R == OpToRel(<, Nat)
  <1>1. IsWellFoundedOn(R, Nat)
    BY NatLessThanWellFounded
  <1>2. PICK x \in Q : \A y \in Q : ~(<<y, x>> \in R)
    <2> HIDE DEF R
    <2> QED  BY <1>1, WFMin
  <1>3. ASSUME NEW y \in Q PROVE x <= y
    <2>1. y \in Nat /\ x \in Nat
      OBVIOUS
    <2>2. <<y, x>> \in R <=> y < x
      BY DEF OpToRel
    <2> HIDE DEF R
    <2>3. ~(y < x)
      BY <1>2, <2>2
    <2> QED  BY <2>1, <2>3
  <1> QED  BY <1>3

(* Induction over the natural numbers, for a set of them.                    *)
LEMMA InductionInSet ==
  ASSUME NEW Q \in SUBSET Nat, 0 \in Q, \A n \in Q : n + 1 \in Q
  PROVE  Q = Nat
  <1> SUFFICES ASSUME Q # Nat PROVE FALSE
    OBVIOUS
  <1>1. PICK x \in Nat \ Q : \A y \in Nat \ Q : x <= y
    BY LeastNatural
  <1>2. x # 0 /\ x - 1 \in Nat
    BY <1>1
  <1>3. x - 1 \in Q
    BY <1>1, <1>2
  <1> QED  BY <1>1, <1>2, <1>3

(* A step can be repeated m times.                                           *)
Iterates(g, x, F, m) == g[0] = x /\ \A i \in 0..m - 1 : g[i + 1] = F[<<i, g[i]>>]

LEMMA IterationExists ==
  ASSUME NEW X, NEW x \in X, NEW F \in [Nat \X X -> X], NEW m \in Nat
  PROVE  \E g \in [0..m -> X] : Iterates(g, x, F, m)
  <1> DEFINE Q == {n \in Nat : \E g \in [0..n -> X] : Iterates(g, x, F, n)}
  <1>1. 0 \in Q
    <2> DEFINE g == [i \in 0..0 |-> x]
    <2>1. g \in [0..0 -> X] /\ Iterates(g, x, F, 0)
      BY DEF Iterates
    <2> HIDE DEF g
    <2> QED  BY <2>1
  <1>2. ASSUME NEW n \in Q PROVE n + 1 \in Q
    <2>1. n \in Nat
      OBVIOUS
    <2>2. PICK g \in [0..n -> X] : Iterates(g, x, F, n)
      OBVIOUS
    <2> DEFINE y == F[<<n, g[n]>>]
               h == [i \in 0..n + 1 |-> IF i = n + 1 THEN y ELSE g[i]]
    <2>3. y \in X
      <3>1. g[n] \in X
        BY <2>1, <2>2
      <3> QED  BY <2>1, <3>1
    <2> HIDE DEF y
    <2>4. h \in [0..n + 1 -> X] /\ h[n + 1] = y /\ \A i \in 0..n : h[i] = g[i]
      BY <2>1, <2>3
    <2> HIDE DEF h
    <2>5. Iterates(h, x, F, n + 1)
      <3>1. h[0] = x
        BY <2>1, <2>2, <2>4 DEF Iterates
      <3>2. ASSUME NEW i \in 0..n PROVE h[i + 1] = F[<<i, h[i]>>]
        <4>1. CASE i = n
          BY <2>1, <2>4, <4>1 DEF y
        <4>2. CASE i # n
          <5>1. i \in 0..n - 1 /\ i + 1 \in 0..n
            BY <2>1, <4>2
          <5> QED  BY <2>2, <2>4, <5>1 DEF Iterates
        <4> QED  BY <4>1, <4>2
      <3>3. n + 1 - 1 = n
        BY <2>1
      <3> QED  BY <3>1, <3>2, <3>3 DEF Iterates
    <2> QED  BY <2>1, <2>4, <2>5
  <1>3. Q = Nat
    <2> HIDE DEF Q
    <2>1. Q \in SUBSET Nat
      BY DEF Q
    <2> QED  BY <1>1, <1>2, <2>1, InductionInSet
  <1> QED  BY <1>3

LEMMA PowerValues ==
  /\ Power \in [0..Digits -> Nat]
  /\ Power[0] = 1
  /\ \A n \in 0..Digits - 1 : Power[n + 1] = Base * Power[n]
  <1> DEFINE F == [q \in Nat \X Nat |-> Base * q[2]]
  <1>1. Digits \in Nat /\ Digits >= 1 /\ Base \in Nat
    BY DigitsAssumption
  <1>2. F \in [Nat \X Nat -> Nat]
    BY <1>1, Product
  <1>3. PICK g \in [0..Digits -> Nat] : Iterates(g, 1, F, Digits)
    <2> HIDE DEF F
    <2> QED  BY <1>1, <1>2, IterationExists
  <1>4. g = [n \in 0..Digits |-> IF n = 0 THEN 1 ELSE Base * g[n - 1]]
    <2> SUFFICES ASSUME NEW n \in 0..Digits PROVE g[n] = IF n = 0 THEN 1 ELSE Base * g[n - 1]
      BY <1>3
    <2>1. CASE n = 0
      BY <1>3, <2>1 DEF Iterates
    <2>2. CASE n # 0
      <3>1. n - 1 \in 0..Digits - 1 /\ n - 1 + 1 = n /\ n - 1 \in Nat
        BY <1>1, <2>2
      <3>2. g[n - 1] \in Nat
        BY <1>1, <1>3, <3>1
      <3>3. g[n - 1 + 1] = F[<<n - 1, g[n - 1]>>]
        BY <1>3, <3>1 DEF Iterates
      <3>4. F[<<n - 1, g[n - 1]>>] = Base * g[n - 1]
        BY <3>1, <3>2
      <3> QED  BY <2>2, <3>1, <3>3, <3>4
    <2> QED  BY <2>1, <2>2
  <1>5. Power = [n \in 0..Digits |-> IF n = 0 THEN 1 ELSE Base * Power[n - 1]]
    <2>1. \E f : f = [n \in 0..Digits |-> IF n = 0 THEN 1 ELSE Base * f[n - 1]]
      BY <1>4
    <2> QED  BY <2>1 DEF Power
  <1>6. Power[0] = 1
    BY <1>1, <1>5
  <1>7. ASSUME NEW n \in 0..Digits - 1 PROVE Power[n + 1] = Base * Power[n]
    <2>1. n + 1 \in 0..Digits /\ n + 1 # 0 /\ n + 1 - 1 = n
      BY <1>1
    <2>2. \A m \in 0..Digits : Power[m] = IF m = 0 THEN 1 ELSE Base * Power[m - 1]
      BY <1>5
    <2>3. Power[n + 1] = IF n + 1 = 0 THEN 1 ELSE Base * Power[n + 1 - 1]
      BY <2>1, <2>2
    <2> QED  BY <2>1, <2>3
  <1>8. \A n \in 0..Digits : Power[n] \in Nat
    <2> DEFINE Q == {n \in Nat : n <= Digits => Power[n] \in Nat}
    <2>1. 0 \in Q
      BY <1>6
    <2>2. ASSUME NEW n \in Q PROVE n + 1 \in Q
      <3> SUFFICES ASSUME n + 1 <= Digits PROVE Power[n + 1] \in Nat
        OBVIOUS
      <3>1. n \in 0..Digits - 1 /\ Power[n] \in Nat
        BY <1>1
      <3> QED  BY <1>1, <1>7, <3>1, Product, SMTT(40)
    <2>3. Q = Nat
      <3> HIDE DEF Q
      <3>1. Q \in SUBSET Nat
        BY DEF Q
      <3> QED  BY <2>1, <2>2, <3>1, InductionInSet
    <2> QED  BY <1>1, <2>3
  <1>9. Power \in [0..Digits -> Nat]
    BY <1>5, <1>8
  <1> QED  BY <1>6, <1>7, <1>9

(* A number of n digits and the rest of them.                                *)
LEMMA PowerSplit ==
  ASSUME NEW n \in 0..Digits
  PROVE  /\ Power[n] \in Nat \ {0} /\ Power[Digits - n] \in Nat \ {0}
         /\ Power[n] * Power[Digits - n] = Size
         /\ Power[n] <= Size
  <1>1. Digits \in Nat /\ Digits >= 1 /\ Base \in Nat /\ Base >= 2 /\ Size \in Nat \ {0}
    BY DigitsAssumption, SizesPositive
  <1> DEFINE Q == {m \in Nat : m <= Digits => Power[m] * Power[Digits - m] = Size}
  <1>2. 0 \in Q
    <2>1. Power[Digits] = Size
      <3>1. Digits - 1 \in 0..Digits - 1 /\ Digits - 1 + 1 = Digits
        BY <1>1
      <3> QED  BY <3>1, PowerValues, TopAssumption DEF Size
    <2>2. Power[0] * Power[Digits - 0] = Size
      BY <1>1, <2>1, PowerValues
    <2> QED  BY <2>2
  <1>3. ASSUME NEW m \in Q PROVE m + 1 \in Q
    <2> SUFFICES ASSUME m + 1 <= Digits PROVE Power[m + 1] * Power[Digits - (m + 1)] = Size
      OBVIOUS
    <2>1. /\ m \in 0..Digits - 1 /\ Digits - (m + 1) \in 0..Digits - 1
          /\ Digits - (m + 1) + 1 = Digits - m /\ m \in 0..Digits
      BY <1>1
    <2> DEFINE a == Power[m]
               b == Power[Digits - (m + 1)]
    <2>2. a \in Nat /\ b \in Nat
      <3>1. Digits - (m + 1) \in 0..Digits
        BY <1>1, <2>1
      <3> QED  BY <2>1, <3>1, PowerValues
    <2>3. Power[m + 1] = Base * a /\ Power[Digits - m] = Base * b
      BY <2>1, PowerValues
    <2> HIDE DEF a, b
    <2>4. a * (Base * b) = Size
      BY <1>1, <2>3 DEF a
    <2>5. (Base * a) * b = a * (Base * b)
      BY <1>1, <2>2, SMTT(20)
    <2> QED  BY <2>3, <2>4, <2>5 DEF b
  <1>4. Q = Nat
    <2> HIDE DEF Q
    <2>1. Q \in SUBSET Nat
      BY DEF Q
    <2> QED  BY <1>2, <1>3, <2>1, InductionInSet
  <1> DEFINE a == Power[n]
             b == Power[Digits - n]
  <1>5. a * b = Size /\ a \in Nat /\ b \in Nat
    <2>1. n \in Nat /\ n <= Digits /\ Digits - n \in 0..Digits
      BY <1>1
    <2> QED  BY <1>4, <2>1, PowerValues
  <1> HIDE DEF a, b
  <1>6. a # 0 /\ b # 0 /\ a <= Size
    BY <1>1, <1>5, SMTT(20)
  <1> QED  BY <1>5, <1>6 DEF a, b

LEMMA PowerLast == Power[Digits] = Size /\ Power[Digits - 1] = Top
  <1>1. Digits \in Nat /\ Digits >= 1 /\ Digits - 1 \in 0..Digits - 1 /\ Digits - 1 + 1 = Digits
    BY DigitsAssumption
  <1> QED  BY <1>1, PowerValues, TopAssumption DEF Size

-----------------------------------------------------------------------------
(* The numbers that digits make: row i of table g has, for every position j  *)
(* of z, the number made of the i digits after j.                            *)
Digit == 0..Base - 1

IsTable(z, g) ==
  /\ z \in [Nat -> Digit]
  /\ g \in [0..Digits -> [Nat -> Nat]]
  /\ \A j \in Nat : g[0][j] = 0
  /\ \A i \in 0..Digits - 1, j \in Nat : g[i + 1][j] = g[i][j] * Base + z[j + i + 1]

LEMMA TableExists == ASSUME NEW z \in [Nat -> Digit] PROVE \E g : IsTable(z, g)
  <1> DEFINE X == [Nat -> Nat]
             F == [q \in Nat \X X |-> [j \in Nat |-> q[2][j] * Base + z[j + q[1] + 1]]]
             x == [j \in Nat |-> 0]
  <1>1. Digits \in Nat /\ Base \in Nat
    BY DigitsAssumption
  <1>2. \A j \in Nat, i \in Nat : z[j + i + 1] \in Nat
    BY <1>1 DEF Digit
  <1>3. F \in [Nat \X X -> X]
    <2> SUFFICES ASSUME NEW i \in Nat, NEW r \in X, NEW j \in Nat
                 PROVE  r[j] * Base + z[j + i + 1] \in Nat
      OBVIOUS
    <2> QED  BY <1>1, <1>2, Product
  <1>4. PICK g \in [0..Digits -> X] : Iterates(g, x, F, Digits)
    <2>1. x \in X
      OBVIOUS
    <2> HIDE DEF F, X, x
    <2> QED  BY <1>1, <1>3, <2>1, IterationExists
  <1>5. \A j \in Nat : g[0][j] = 0
    BY <1>4 DEF Iterates
  <1>6. ASSUME NEW i \in 0..Digits - 1, NEW j \in Nat
        PROVE  g[i + 1][j] = g[i][j] * Base + z[j + i + 1]
    <2>1. i \in Nat /\ i \in 0..Digits
      BY <1>1
    <2>2. g[i] \in X
      BY <1>4, <2>1
    <2>3. g[i + 1] = F[<<i, g[i]>>]
      BY <1>4 DEF Iterates
    <2>4. F[<<i, g[i]>>] = [h \in Nat |-> g[i][h] * Base + z[h + i + 1]]
      BY <2>1, <2>2
    <2> QED  BY <2>3, <2>4
  <1> QED  BY <1>4, <1>5, <1>6 DEF IsTable

(* The first digit of a number, and what is left without it.                 *)
LEMMA TableFirst ==
  ASSUME NEW z, NEW g, IsTable(z, g), NEW i \in 0..Digits - 1, NEW j \in Nat
  PROVE  /\ z[j + 1] \in Digit /\ g[i][j + 1] \in Nat /\ g[i + 1][j] \in Nat
         /\ g[i + 1][j] = z[j + 1] * Power[i] + g[i][j + 1]
  <1>1. Digits \in Nat /\ Digits >= 1 /\ Base \in Nat /\ Base >= 2
    BY DigitsAssumption
  <1>2. \A m \in 0..Digits, h \in Nat : g[m][h] \in Nat
    BY DEF IsTable
  <1> DEFINE Holds(m) == g[m + 1][j] = z[j + 1] * Power[m] + g[m][j + 1]
             Q == {m \in Nat : m <= Digits - 1 => Holds(m)}
  <1>3. 0 \in Q
    <2>1. g[0][j] = 0 /\ g[0][j + 1] = 0 /\ 0 \in 0..Digits - 1 /\ z[j + 1] \in Digit
      <3>1. j + 1 \in Nat /\ 0 \in 0..Digits - 1
        BY <1>1
      <3>2. \A h \in Nat : g[0][h] = 0 /\ z[h] \in Digit
        BY DEF IsTable
      <3> QED  BY <3>1, <3>2
    <2>2. g[0 + 1][j] = g[0][j] * Base + z[j + 0 + 1]
      BY <2>1 DEF IsTable
    <2>3. g[0 + 1][j] = z[j + 1] /\ z[j + 1] \in Int
      BY <1>1, <2>1, <2>2 DEF Digit
    <2>4. z[j + 1] * Power[0] + g[0][j + 1] = z[j + 1]
      BY <2>1, <2>3, PowerValues
    <2> QED  BY <2>3, <2>4
  <1>4. ASSUME NEW m \in Q PROVE m + 1 \in Q
    <2> SUFFICES ASSUME m + 1 <= Digits - 1 PROVE Holds(m + 1)
      OBVIOUS
    <2>1. m \in 0..Digits - 1 /\ m + 1 \in 0..Digits - 1 /\ m \in 0..Digits /\ m + 1 \in 0..Digits
      BY <1>1
    <2> DEFINE a == g[m + 1][j]
               b == g[m][j + 1]
               d == z[j + 1]
               e == z[j + (m + 1) + 1]
               q == Power[m]
    <2>2. a \in Nat /\ b \in Nat /\ d \in Nat /\ e \in Nat /\ q \in Nat
      BY <1>1, <1>2, <2>1, PowerValues DEF IsTable, Digit
    <2>3. a = d * q + b
      BY <2>1
    <2>4. g[m + 1 + 1][j] = a * Base + e
      BY <2>1 DEF IsTable
    <2>5. g[m + 1][j + 1] = b * Base + e
      <3>1. j + 1 \in Nat /\ j + 1 + m + 1 = j + (m + 1) + 1
        BY <2>1
      <3>2. g[m + 1][j + 1] = g[m][j + 1] * Base + z[j + 1 + m + 1]
        BY <2>1, <3>1 DEF IsTable
      <3> QED  BY <3>1, <3>2
    <2>6. Power[m + 1] = Base * q
      BY <2>1, PowerValues
    <2>7. g[m + 1 + 1][j] = d * Power[m + 1] + g[m + 1][j + 1]
      <3> HIDE DEF a, b, d, e, q
      <3>1. (d * q + b) * Base + e = d * (Base * q) + (b * Base + e)
        BY <1>1, <2>2, SMTT(20)
      <3> QED  BY <2>3, <2>4, <2>5, <2>6, <3>1
    <2> QED  BY <2>7
  <1>5. Q = Nat
    <2> HIDE DEF Q
    <2>1. Q \in SUBSET Nat
      BY DEF Q
    <2> QED  BY <1>3, <1>4, <2>1, InductionInSet
  <1>6. Holds(i)
    <2>1. i \in Nat /\ i <= Digits - 1
      BY <1>1
    <2> HIDE DEF Holds
    <2> QED  BY <1>5, <2>1
  <1>7. i \in 0..Digits /\ i + 1 \in 0..Digits /\ j + 1 \in Nat
    BY <1>1
  <1> QED  BY <1>2, <1>6, <1>7 DEF IsTable

LEMMA TableBelow ==
  ASSUME NEW z, NEW g, IsTable(z, g), NEW i \in 0..Digits, NEW j \in Nat
  PROVE  g[i][j] \in Nat /\ g[i][j] < Power[i]
  <1>1. Digits \in Nat /\ Digits >= 1 /\ Base \in Nat /\ Base >= 2
    BY DigitsAssumption
  <1>2. \A m \in 0..Digits, h \in Nat : g[m][h] \in Nat
    BY DEF IsTable
  <1> DEFINE Q == {m \in Nat : m <= Digits => g[m][j] < Power[m]}
  <1>3. 0 \in Q
    BY PowerValues DEF IsTable
  <1>4. ASSUME NEW m \in Q PROVE m + 1 \in Q
    <2> SUFFICES ASSUME m + 1 <= Digits PROVE g[m + 1][j] < Power[m + 1]
      OBVIOUS
    <2> DEFINE a == g[m][j]
               e == z[j + m + 1]
               q == Power[m]
    <2>1. m \in 0..Digits - 1 /\ m \in 0..Digits
      BY <1>1
    <2>2. a \in Nat /\ e \in 0..Base - 1 /\ q \in Nat /\ a < q
      <3>1. \A h \in Nat : z[h] \in 0..Base - 1
        BY DEF IsTable, Digit
      <3>2. j + m + 1 \in Nat /\ m <= Digits
        BY <1>1, <2>1
      <3>3. a \in Nat /\ q \in Nat
        BY <1>2, <2>1, PowerValues
      <3> QED  BY <3>1, <3>2, <3>3
    <2>3. g[m + 1][j] = a * Base + e /\ Power[m + 1] = Base * q
      BY <2>1, PowerValues DEF IsTable
    <2>4. a * Base + e < Base * q
      <3> HIDE DEF a, e, q
      <3>1. (a + 1) * Base <= Base * q
        <4>1. a + 1 \in Int /\ q \in Int /\ a + 1 <= q
          BY <2>2
        <4> QED  BY <1>1, <4>1, ProductAtMost, SMTT(20)
      <3>2. (a + 1) * Base = a * Base + Base /\ a * Base \in Int /\ Base * q \in Int
        BY <1>1, <2>2, Product, SMTT(20)
      <3> QED  BY <1>1, <2>2, <3>1, <3>2
    <2> QED  BY <2>3, <2>4
  <1>5. Q = Nat
    <2> HIDE DEF Q
    <2>1. Q \in SUBSET Nat
      BY DEF Q
    <2> QED  BY <1>3, <1>4, <2>1, InductionInSet
  <1> QED  BY <1>1, <1>2, <1>5

-----------------------------------------------------------------------------
(* What Encode and Decode both go through, as a record, and the step from    *)
(* one to the next.                                                          *)
State == [c0 |-> c0, c1 |-> c1, c2 |-> c2, low |-> low, high |-> high, ctx |-> ctx,
          run |-> run, last |-> last, beforeLast |-> beforeLast, pos |-> pos]

Start == [c0 |-> Fresh0, c1 |-> Fresh1, c2 |-> Fresh2, low |-> 0, high |-> Size - 1, ctx |-> 0,
          run |-> 0, last |-> 0, beforeLast |-> 0, pos |-> 0]

PAt(s)   == ((s.c0[s.ctx] + s.c1[s.last][s.ctx]) * 7
               + s.c1[s.beforeLast][s.ctx] + s.c1[s.beforeLast][s.ctx]) \div 16
RowAt(s) == 2 * s.ctx + (IF s.run > 2 THEN 1 ELSE 0)
J1At(s)  == PAt(s) \div Step
X1At(s)  == s.c2[RowAt(s)][J1At(s)]
X2At(s)  == s.c2[RowAt(s)][J1At(s) + 1]
SseAt(s) == X1At(s) + (((X2At(s) - X1At(s)) * (PAt(s) % Step)) \div Step)
MidAt(s) == s.low + (((s.high - s.low) * (SseAt(s) * 3 + PAt(s))) \div (4 * Scale))

BitOf(s, bit) ==
  [c0   |-> [s.c0 EXCEPT ![s.ctx] = Learn(s.c0[s.ctx], bit, 4)],
   c1   |-> [s.c1 EXCEPT ![s.last][s.ctx] = Learn(s.c1[s.last][s.ctx], bit, 16)],
   c2   |-> [s.c2 EXCEPT ![RowAt(s)][J1At(s)] = Learn(X1At(s), bit, 64),
                         ![RowAt(s)][J1At(s) + 1] = Learn(X2At(s), bit, 64)],
   low  |-> IF bit THEN s.low ELSE MidAt(s) + 1,
   high |-> IF bit THEN MidAt(s) ELSE s.high,
   ctx  |-> 2 * s.ctx + (IF bit THEN 1 ELSE 0),
   run  |-> s.run, last |-> s.last, beforeLast |-> s.beforeLast, pos |-> s.pos]

ShiftOf(s) ==
  [c0  |-> s.c0, c1 |-> s.c1, c2 |-> s.c2,
   low |-> (s.low * Base) % Size, high |-> ((s.high * Base) % Size) + Base - 1,
   ctx |-> s.ctx, run |-> s.run, last |-> s.last, beforeLast |-> s.beforeLast, pos |-> s.pos]

BeginOf(s) ==
  [c0  |-> s.c0, c1 |-> s.c1, c2 |-> s.c2, low |-> s.low, high |-> s.high,
   ctx |-> 1, run |-> IF s.last = s.beforeLast THEN s.run + 1 ELSE 0,
   last |-> s.last, beforeLast |-> s.beforeLast, pos |-> s.pos]

EndOf(s) ==
  [c0  |-> s.c0, c1 |-> s.c1, c2 |-> s.c2, low |-> s.low, high |-> s.high,
   ctx |-> 0, run |-> s.run, last |-> s.ctx - Symbols, beforeLast |-> s.last,
   pos |-> s.pos + 1]

SettledAt(s) == s.low \div Top # s.high \div Top

(* From s with n digits shifted out to t with m, when coding d.              *)
Steps(d, s, n, t, m) ==
  \/ ~SettledAt(s) /\ t = ShiftOf(s) /\ m = n + 1
  \/ /\ SettledAt(s) /\ m = n
     /\ \/ s.ctx = 0 /\ s.pos < Len(d) /\ t = BeginOf(s)
        \/ s.ctx >= Symbols /\ t = EndOf(s)
        \/ s.ctx \in 1..Symbols - 1 /\ \E bit \in BOOLEAN : t = BitOf(s, bit)

(* A record is made of its fields. *)
LEMMA StateRecord ==
  ASSUME NEW a0, NEW a1, NEW a2, NEW a3, NEW a4, NEW a5, NEW a6, NEW a7, NEW a8, NEW a9, NEW t,
         t = [c0 |-> a0, c1 |-> a1, c2 |-> a2, low |-> a3, high |-> a4, ctx |-> a5, run |-> a6,
              last |-> a7, beforeLast |-> a8, pos |-> a9]
  PROVE  t = [c0 |-> t.c0, c1 |-> t.c1, c2 |-> t.c2, low |-> t.low, high |-> t.high,
              ctx |-> t.ctx, run |-> t.run, last |-> t.last, beforeLast |-> t.beforeLast,
              pos |-> t.pos]
  <1>1. /\ t.c0 = a0 /\ t.c1 = a1 /\ t.c2 = a2 /\ t.low = a3 /\ t.high = a4 /\ t.ctx = a5
        /\ t.run = a6 /\ t.last = a7 /\ t.beforeLast = a8 /\ t.pos = a9
    OBVIOUS
  <1> QED  BY <1>1

LEMMA StepOfBit ==
  ASSUME NEW bit \in BOOLEAN, Bit(bit)
  PROVE  State' = BitOf(State, bit)
  <1> DEFINE s == State
  <1>1. /\ s.c0 = c0 /\ s.c1 = c1 /\ s.c2 = c2 /\ s.low = low /\ s.high = high /\ s.ctx = ctx
        /\ s.run = run /\ s.last = last /\ s.beforeLast = beforeLast /\ s.pos = pos
    BY DEF State
  <1>2. PAt(s) = p
    BY <1>1 DEF PAt, p, p0, p1, p2
  <1>3. RowAt(s) = row
    BY <1>1 DEF RowAt, row
  <1>4. J1At(s) = j1
    BY <1>2 DEF J1At, j1
  <1>5. X1At(s) = x1 /\ X2At(s) = x2
    BY <1>1, <1>3, <1>4 DEF X1At, X2At, x1, x2
  <1>6. SseAt(s) = ssep
    BY <1>2, <1>5 DEF SseAt, ssep
  <1>7. MidAt(s) = mid
    BY <1>1, <1>2, <1>6, SMTT(40) DEF MidAt, mid
  <1> DEFINE t == BitOf(s, bit)
  <1>8. /\ t.low = (IF bit THEN low ELSE mid + 1) /\ t.high = (IF bit THEN mid ELSE high)
        /\ t.c0 = [c0 EXCEPT ![ctx] = Learn(p0, bit, 4)]
        /\ t.c1 = [c1 EXCEPT ![last][ctx] = Learn(p1, bit, 16)]
        /\ t.c2 = [c2 EXCEPT ![row][j1] = Learn(x1, bit, 64),
                             ![row][j1 + 1] = Learn(x2, bit, 64)]
        /\ t.ctx = 2 * ctx + (IF bit THEN 1 ELSE 0)
        /\ t.run = run /\ t.last = last /\ t.beforeLast = beforeLast /\ t.pos = pos
    BY <1>1, <1>3, <1>4, <1>5, <1>7 DEF BitOf, p0, p1, State
  <1>9. t = [c0 |-> t.c0, c1 |-> t.c1, c2 |-> t.c2, low |-> t.low, high |-> t.high,
             ctx |-> t.ctx, run |-> t.run, last |-> t.last, beforeLast |-> t.beforeLast,
             pos |-> t.pos]
    <2> DEFINE n0 == [s.c0 EXCEPT ![s.ctx] = Learn(s.c0[s.ctx], bit, 4)]
               n1 == [s.c1 EXCEPT ![s.last][s.ctx] = Learn(s.c1[s.last][s.ctx], bit, 16)]
               n2 == [s.c2 EXCEPT ![RowAt(s)][J1At(s)] = Learn(X1At(s), bit, 64),
                                  ![RowAt(s)][J1At(s) + 1] = Learn(X2At(s), bit, 64)]
               nl == IF bit THEN s.low ELSE MidAt(s) + 1
               nh == IF bit THEN MidAt(s) ELSE s.high
               nc == 2 * s.ctx + (IF bit THEN 1 ELSE 0)
    <2>1. t = [c0 |-> n0, c1 |-> n1, c2 |-> n2, low |-> nl, high |-> nh, ctx |-> nc,
               run |-> s.run, last |-> s.last, beforeLast |-> s.beforeLast, pos |-> s.pos]
      BY DEF BitOf
    <2> HIDE DEF s, t, n0, n1, n2, nl, nh, nc
    <2> QED  BY <2>1, StateRecord
  <1> HIDE DEF s, t
  <1>10. /\ low' = t.low /\ high' = t.high /\ c0' = t.c0 /\ c1' = t.c1 /\ c2' = t.c2
         /\ ctx' = t.ctx /\ run' = t.run /\ last' = t.last /\ beforeLast' = t.beforeLast
         /\ pos' = t.pos
    BY <1>8 DEF Bit, LowAbove
  <1>11. State' = t
    BY <1>9, <1>10 DEF State
  <1> QED  BY <1>11 DEF s, t

LEMMA StepOfShift == ASSUME Shift PROVE State' = ShiftOf(State)
  BY DEF Shift, ShiftOf, State, model, symbol

LEMMA StepOfBegin == ASSUME BeginSymbol PROVE State' = BeginOf(State)
  BY DEF BeginSymbol, BeginOf, State, model

LEMMA StepOfEnd == ASSUME EndSymbol PROVE State' = EndOf(State)
  BY DEF EndSymbol, EndOf, State, model

LEMMA StateFields ==
  /\ State.low = low /\ State.high = high /\ State.ctx = ctx /\ State.pos = pos
  /\ SettledAt(State) = Settled
  BY DEF State, SettledAt, Settled

LEMMA BitInterval ==
  ASSUME NEW bit \in BOOLEAN, Bit(bit)
  PROVE  IF bit THEN State'.high = mid /\ State'.low = low
                ELSE State'.low = mid + 1 /\ State'.high = high
  BY DEF Bit, State, LowAbove

-----------------------------------------------------------------------------
(* The way of Encode when given d: states, each with the digits shifted      *)
(* out by then, from each of which a step leads to another, but for the last.*)
(* A symbol that a state of it ends is the one that Encode was given.        *)
Road(d, R, end, len) ==
  /\ <<Start, 0>> \in R
  /\ <<end, len>> \in R
  /\ \A s, n : <<s, n>> \in R =>
       /\ n \in 0..len
       /\ s.ctx >= Symbols => s.pos < Len(d) /\ s.ctx - Symbols = d[s.pos + 1]
       /\ \/ s = end /\ n = len
          \/ \E t, m : <<t, m>> \in R /\ Steps(d, s, n, t, m)

(* The digits in z, of which g has the numbers, stay inside the interval all *)
(* the way.                                                                  *)
InsideAt(s, n, g) == s.low <= g[Digits][n] /\ g[Digits][n] <= s.high

Inside(R, g) == \A s, n : <<s, n>> \in R => InsideAt(s, n, g)

Goes(o, z, g) == IsTable(z, g) /\ \A j \in 1..Len(o) : z[j] = o[j]

(* Whatever digits may follow: if they are inside now, they are all the way. *)
Leads(o, R, s, n) == \A z, g : Goes(o, z, g) /\ InsideAt(s, n, g) => Inside(R, g)

Ended(d, s) == SettledAt(s) /\ s.ctx = 0 /\ s.pos = Len(d)

Given ==
  /\ data \in Seq(0..Symbols - 1)
  /\ data # <<>> \/ phase = "encode" => want = Len(data)
  /\ phase \in {"encode", "flush", "prime"} => dst = <<>>
  /\ phase \in {"encode", "flush"} => inPos = 0 /\ code = 0 /\ (phase = "encode" => k = 0)

(* The bits of the symbol: m marks where those in ctx begin, the rest r is   *)
(* at the upper end of c.                                                    *)
Spells(m, q, r) ==
  /\ m \in Nat \ {0} /\ q \in Nat \ {0} /\ r \in 0..q - 1 /\ m * q = Symbols
  /\ ctx \in m..2 * m - 1
  /\ c = m * r
  /\ data[pos + 1] = (ctx - m) * q + r

Spelling ==
  phase = "encode" =>
    /\ pos \in 0..Len(data)
    /\ ctx # 0 => pos < Len(data) /\ \E m, q, r \in Nat : Spells(m, q, r)

Encoded ==
  phase = "encode" =>
    \E R : Road(data, R, State, Len(out)) /\ Leads(out, R, State, Len(out))

(* Flush has written the leading k digits hi of the number low = end.low.    *)
Flushed(end, hi, lo) ==
  /\ hi \in Nat /\ lo \in Nat
  /\ end.low = hi * Power[Digits - k] + lo
  /\ lo < Power[Digits - k]
  /\ low = lo * Power[k]
  /\ \A z, g : Goes(out, z, g) => g[k][Len(out) - k] = hi

Flushing ==
  phase = "flush" =>
    \E R, end :
      /\ Len(out) - k \in Nat
      /\ Road(data, R, end, Len(out) - k)
      /\ Leads(out, R, end, Len(out) - k)
      /\ Ended(data, end) /\ end.low \in Int /\ end.high \in Int /\ end.low <= end.high
      /\ \E hi, lo : Flushed(end, hi, lo)

(* Decode's digits are those of the way of Encode.                           *)
Coded(d, o, R, end, z, g) ==
  /\ Len(o) - Digits \in Nat
  /\ Road(d, R, end, Len(o) - Digits)
  /\ Ended(d, end)
  /\ Goes(o, z, g)
  /\ Inside(R, g)

Primed ==
  phase = "prime" /\ data # <<>> =>
    /\ State = Start /\ inPos = k
    /\ \E R, end, z, g : Coded(data, out, R, end, z, g) /\ code = g[k][0]

Decoding ==
  phase = "decode" /\ data # <<>> =>
    /\ pos \in 0..Len(data) /\ dst = SubSeq(data, 1, pos)
    /\ inPos - Digits \in Nat
    /\ \E R, end, z, g : /\ Coded(data, out, R, end, z, g)
                         /\ <<State, inPos - Digits>> \in R
                         /\ code = g[Digits][inPos - Digits]

RoundTrip == /\ Given /\ Spelling /\ Encoded /\ Flushing /\ Primed /\ Decoding
             /\ CoderRoundTrips

-----------------------------------------------------------------------------
(* The way goes on by a step, and its digits stay inside it.                 *)
LEMMA RoadGoesOn ==
  ASSUME NEW d, NEW R, NEW s, NEW n \in Nat, NEW t, NEW m \in Nat,
         Road(d, R, s, n), Steps(d, s, n, t, m), n <= m,
         t.ctx >= Symbols => t.pos < Len(d) /\ t.ctx - Symbols = d[t.pos + 1]
  PROVE  Road(d, R \cup {<<t, m>>}, t, m)
  <1> DEFINE U == R \cup {<<t, m>>}
  <1>1. <<Start, 0>> \in U /\ <<t, m>> \in U
    BY DEF Road
  <1>2. ASSUME NEW u, NEW h, <<u, h>> \in U
        PROVE  /\ h \in 0..m
               /\ u.ctx >= Symbols => u.pos < Len(d) /\ u.ctx - Symbols = d[u.pos + 1]
               /\ \/ u = t /\ h = m
                  \/ \E v, j : <<v, j>> \in U /\ Steps(d, u, h, v, j)
    <2>1. CASE <<u, h>> = <<t, m>>
      <3>1. u = t /\ h = m
        BY <2>1
      <3> QED  BY <3>1
    <2>2. CASE <<u, h>> \in R
      <3>1. /\ h \in 0..n
            /\ u.ctx >= Symbols => u.pos < Len(d) /\ u.ctx - Symbols = d[u.pos + 1]
            /\ \/ u = s /\ h = n
               \/ \E v, j : <<v, j>> \in R /\ Steps(d, u, h, v, j)
        BY <2>2 DEF Road
      <3>2. h \in 0..m
        BY <3>1
      <3>3. CASE u = s /\ h = n
        BY <1>1, <3>1, <3>2, <3>3
      <3>4. CASE \E v, j : <<v, j>> \in R /\ Steps(d, u, h, v, j)
        BY <3>1, <3>2, <3>4
      <3> QED  BY <3>1, <3>3, <3>4
    <2> QED  BY <1>2, <2>1, <2>2
  <1> QED  BY <1>1, <1>2 DEF Road

LEMMA StartsRoad ==
  ASSUME NEW d, Start.ctx = 0
  PROVE  Road(d, {<<Start, 0>>}, Start, 0)
  <1>1. ASSUME NEW s, NEW n, <<s, n>> \in {<<Start, 0>>}
        PROVE  s = Start /\ n = 0 /\ ~(s.ctx >= Symbols)
    <2>1. <<s, n>> = <<Start, 0>>
      BY <1>1
    <2>2. s = Start /\ n = 0
      BY <2>1
    <2> QED  BY <2>2, SymbolsAssumption
  <1> QED  BY <1>1 DEF Road

LEMMA WayGoesOn ==
  ASSUME NEW d, NEW o, NEW R, NEW s, NEW n \in Nat, Road(d, R, s, n), Leads(o, R, s, n),
         NEW t, NEW m \in Nat, NEW e, Steps(d, s, n, t, m), n <= m,
         t.ctx >= Symbols => t.pos < Len(d) /\ t.ctx - Symbols = d[t.pos + 1],
         \A z, g : Goes(e, z, g) /\ InsideAt(t, m, g) => Goes(o, z, g) /\ InsideAt(s, n, g)
  PROVE  \E U : Road(d, U, t, m) /\ Leads(e, U, t, m)
  <1> DEFINE U == R \cup {<<t, m>>}
  <1>1. Road(d, U, t, m)
    BY RoadGoesOn
  <1>2. ASSUME NEW z, NEW g, Goes(e, z, g), InsideAt(t, m, g)
        PROVE  Inside(U, g)
    <2>1. Inside(R, g)
      BY <1>2 DEF Leads
    <2>2. ASSUME NEW u, NEW h, <<u, h>> \in U
          PROVE  InsideAt(u, h, g)
      <3>1. CASE <<u, h>> \in R
        BY <2>1, <3>1 DEF Inside
      <3>2. CASE <<u, h>> = <<t, m>>
        <4>1. u = t /\ h = m
          BY <3>2
        <4> QED  BY <1>2, <4>1
      <3> QED  BY <2>2, <3>1, <3>2
    <2> HIDE DEF U
    <2> QED  BY <2>2 DEF Inside
  <1> HIDE DEF U
  <1> QED  BY <1>1, <1>2 DEF Leads

(* When a digit is shifted out, a number that is inside afterwards was so    *)
(* before.                                                                   *)
LEMMA ShiftedInside ==
  ASSUME NEW a \in 0..Size - 1, NEW b \in 0..Size - 1, a \div Top = b \div Top,
         NEW z, NEW g, IsTable(z, g), NEW n \in Nat, z[n + 1] = a \div Top,
         (a % Top) * Base <= g[Digits][n + 1],
         g[Digits][n + 1] <= (b % Top) * Base + (Base - 1)
  PROVE  a <= g[Digits][n] /\ g[Digits][n] <= b
  <1> DEFINE h == g[Digits - 1][n + 1]
             e == z[n + Digits + 1]
             v == a \div Top
             l == a % Top
             r == b % Top
  <1>1. Digits - 1 \in 0..Digits - 1 /\ Digits - 1 + 1 = Digits /\ n + 1 \in Nat
        /\ Digits \in Nat /\ Base \in Nat /\ Top \in Nat \ {0} /\ Base >= 2
    BY DigitsAssumption
  <1>2. g[Digits][n] = v * Top + h /\ h \in Nat
    <2> DEFINE i == Digits - 1
    <2>1. i \in 0..Digits - 1 /\ i + 1 = Digits
      BY <1>1
    <2> HIDE DEF i
    <2>2. g[i][n + 1] \in Nat /\ g[i + 1][n] = z[n + 1] * Power[i] + g[i][n + 1]
      BY <2>1, TableFirst
    <2> QED  BY <2>1, <2>2, PowerLast DEF i
  <1>3. g[Digits][n + 1] = h * Base + e /\ e \in 0..Base - 1
    <2>1. g[Digits - 1 + 1][n + 1] = g[Digits - 1][n + 1] * Base + z[n + 1 + (Digits - 1) + 1]
      BY <1>1 DEF IsTable
    <2>2. n + 1 + (Digits - 1) + 1 = n + Digits + 1 /\ n + Digits + 1 \in Nat
      BY <1>1
    <2>3. \A j \in Nat : z[j] \in 0..Base - 1
      BY DEF IsTable, Digit
    <2> QED  BY <1>1, <2>1, <2>2, <2>3
  <1>4. /\ a = Top * v + l /\ b = Top * v + r /\ l \in 0..Top - 1 /\ r \in 0..Top - 1
        /\ v \in 0..Base - 1
    <2>1. 0 \in 0..Base - 1
      BY <1>1
    <2> QED  BY <2>1, ShiftedNumber
  <1>5. l * Base <= h * Base + e /\ h * Base + e <= r * Base + (Base - 1)
    BY <1>3
  <1> HIDE DEF h, e, v, l, r
  <1>6. l <= h
    <2> SUFFICES ASSUME h + 1 <= l  PROVE FALSE
      BY <1>1, <1>2, <1>4
    <2>1. (h + 1) * Base <= l * Base
      <3>1. h + 1 \in Int /\ l \in Int
        BY <1>2, <1>4
      <3> QED  BY <1>1, <3>1, ProductAtMost
    <2>2. (h + 1) * Base = h * Base + Base
      BY <1>1, <1>2, SMTT(20)
    <2>3. h * Base \in Int /\ l * Base \in Int
      BY <1>1, <1>2, <1>4, Product
    <2> QED  BY <1>1, <1>3, <1>5, <2>1, <2>2, <2>3
  <1>7. h <= r
    <2> SUFFICES ASSUME r + 1 <= h  PROVE FALSE
      BY <1>1, <1>2, <1>4
    <2>1. (r + 1) * Base <= h * Base
      <3>1. r + 1 \in Int /\ h \in Int
        BY <1>2, <1>4
      <3> QED  BY <1>1, <3>1, ProductAtMost
    <2>2. (r + 1) * Base = r * Base + Base
      BY <1>1, <1>4, SMTT(20)
    <2>3. h * Base \in Int /\ r * Base \in Int
      BY <1>1, <1>2, <1>4, Product
    <2> QED  BY <1>1, <1>3, <1>5, <2>1, <2>2, <2>3
  <1>8. v * Top = Top * v /\ Top * v \in Int
    BY <1>1, <1>4, SMTT(20)
  <1> QED  BY <1>2, <1>4, <1>6, <1>7, <1>8

LEMMA GoesBack ==
  ASSUME NEW S, NEW o \in Seq(S), NEW x, NEW z, NEW g, Goes(Append(o, x), z, g)
  PROVE  Goes(o, z, g) /\ z[Len(o) + 1] = x
  <1>1. /\ Len(o) \in Nat /\ Len(Append(o, x)) = Len(o) + 1
        /\ \A j \in 1..Len(o) : Append(o, x)[j] = o[j]
        /\ Append(o, x)[Len(o) + 1] = x
    BY AppendProperties, LenProperties
  <1>2. \A j \in 1..Len(o) + 1 : z[j] = Append(o, x)[j]
    BY <1>1 DEF Goes
  <1> QED  BY <1>1, <1>2 DEF Goes

-----------------------------------------------------------------------------
(* Encode follows its way. *)
LEMMA SpelledOut ==
  ASSUME NEW m \in Nat \ {0}, NEW q \in Nat \ {0}, NEW r \in 0..q - 1, m * q = Symbols,
         NEW x \in m..2 * m - 1, x >= Symbols
  PROVE  (x - m) * q + r = x - Symbols
  <1>1. q = 1
    <2> SUFFICES ASSUME q >= 2 PROVE FALSE
      OBVIOUS
    <2>1. m * 2 <= m * q
      <3>1. 2 \in Int /\ q \in Int /\ 2 <= q /\ m \in Nat
        OBVIOUS
      <3> QED  BY <3>1, ProductAtMost
    <2> QED  BY <2>1
  <1>2. m = Symbols /\ r = 0
    BY <1>1
  <1> QED  BY <1>1, <1>2

(* Half of what is left of the symbol: the next bit says which.              *)
Halved(m, q, r, x, bit, h) ==
  LET y == 2 * x + (IF bit THEN 1 ELSE 0)
      v == IF bit THEN r - h ELSE r
  IN /\ q = 2 * h /\ (2 * m) * h = Symbols
     /\ v \in 0..h - 1 /\ y \in 2 * m..2 * (2 * m) - 1
     /\ (2 * (m * r)) % Symbols = (2 * m) * v
     /\ (y - 2 * m) * h + v = (x - m) * q + r

LEMMA SpellsBit ==
  ASSUME NEW m \in Nat \ {0}, NEW q \in Nat \ {0}, NEW r \in 0..q - 1, m * q = Symbols,
         NEW x \in m..2 * m - 1, x < Symbols, NEW bit \in BOOLEAN,
         bit <=> m * r >= Symbols \div 2
  PROVE  \E h \in Nat \ {0} : Halved(m, q, r, x, bit, h)
  <1>1. q # 1
    <2> SUFFICES ASSUME q = 1 PROVE FALSE
      OBVIOUS
    <2> QED  BY SymbolsAssumption
  <1>2. q \in 2..Symbols /\ Symbols % q = 0
    <2>1. 1 * q <= m * q
      <3>1. 1 \in Int /\ m \in Int /\ 1 <= m /\ q \in Nat
        OBVIOUS
      <3> QED  BY <3>1, ProductAtMost
    <2>2. Symbols % q = 0
      <3> DEFINE e == Symbols \div q
                 f == Symbols % q
      <3>1. e \in Int /\ f \in 0..q - 1 /\ Symbols = q * e + f
        BY Quotient, SymbolsAssumption
      <3> HIDE DEF e, f
      <3>2. f = q * (m - e)
        <4>1. q * (m - e) = m * q - q * e /\ q * e \in Int
          BY <3>1, SMTT(20)
        <4> QED  BY <3>1, <4>1, SymbolsAssumption
      <3>3. CASE m - e >= 1
        <4>1. q * 1 <= q * (m - e)
          <5>1. 1 \in Int /\ m - e \in Int
            BY <3>1
          <5> QED  BY <3>3, <5>1, ProductAtMost
        <4> QED  BY <3>1, <3>2, <4>1
      <3>4. CASE m - e <= -1
        <4>1. q * (m - e) <= q * (-1)
          <5>1. -1 \in Int /\ m - e \in Int
            BY <3>1
          <5> QED  BY <3>4, <5>1, ProductAtMost
        <4>2. q * (-1) = -q
          BY SMTT(20)
        <4> QED  BY <3>1, <3>2, <4>1, <4>2
      <3>5. CASE m - e = 0
        BY <3>1, <3>2, <3>5
      <3> QED  BY <3>1, <3>3, <3>4, <3>5 DEF f
    <2> QED  BY <1>1, <2>1, <2>2, SymbolsAssumption
  <1>3. q % 2 = 0
    BY <1>2, SymbolsAssumption
  <1>4. PICK h \in Nat \ {0} : q = 2 * h
    <2>1. q = 2 * (q \div 2) /\ q \div 2 \in Nat \ {0}
      BY <1>1, <1>3
    <2> QED  BY <2>1
  <1>5. (2 * m) * h = Symbols /\ m * h \in Int /\ Symbols = 2 * (m * h) /\ Symbols \div 2 = m * h
    <2>1. (2 * m) * h = m * (2 * h) /\ m * (2 * h) = 2 * (m * h) /\ m * h \in Int
      BY SMTT(20)
    <2> QED  BY <1>4, <2>1
  <1>6. bit <=> r >= h
    <2>1. ASSUME r >= h PROVE m * r >= m * h
      BY <2>1, ProductAtMost
    <2>2. ASSUME r < h PROVE m * r < m * h
      BY <2>2, ProductBelow
    <2>3. m * r \in Int /\ m * h \in Int
      BY Product
    <2> QED  BY <1>5, <2>1, <2>2, <2>3
  <1> DEFINE y == 2 * x + (IF bit THEN 1 ELSE 0)
             v == IF bit THEN r - h ELSE r
  <1>7. v \in 0..h - 1 /\ y \in 2 * m..2 * (2 * m) - 1
    BY <1>4, <1>6
  <1>8. (2 * (m * r)) % Symbols = (2 * m) * v
    <2>1. (2 * m) * v \in 0..Symbols - 1
      <3>1. (2 * m) * v < (2 * m) * h
        <4>1. 2 * m \in Nat \ {0} /\ v \in Int /\ h \in Int /\ v < h
          BY <1>7
        <4> QED  BY <4>1, ProductBelow
      <3>2. (2 * m) * v \in Int /\ (2 * m) * v >= 0
        <4>1. 2 * m \in Int /\ v \in Int /\ 2 * m >= 0 /\ v >= 0
          BY <1>7
        <4> QED  BY <4>1, Product
      <3> QED  BY <1>5, <3>1, <3>2
    <2>2. CASE bit
      <3>1. 2 * (m * r) = Symbols + (2 * m) * v
        <4>1. v = r - h
          BY <2>2
        <4>2. (2 * m) * (r - h) = 2 * (m * r) - (2 * m) * h
          BY SMTT(20)
        <4>3. m * r \in Int /\ (2 * m) * h \in Int
          BY <1>5, Product, SymbolsAssumption
        <4> QED  BY <1>5, <4>1, <4>2, <4>3
      <3> HIDE DEF v
      <3>2. \A a \in 0..Symbols - 1 : (Symbols + a) % Symbols = a
        BY SymbolsAssumption, SMTT(20)
      <3> QED  BY <2>1, <3>1, <3>2
    <2>3. CASE ~bit
      <3>1. 2 * (m * r) = (2 * m) * v
        BY <2>3, SMTT(20)
      <3> HIDE DEF v
      <3>2. \A a \in 0..Symbols - 1 : a % Symbols = a
        BY SymbolsAssumption, SMTT(20)
      <3> QED  BY <2>1, <3>1, <3>2
    <2> QED  BY <2>2, <2>3
  <1>9. (y - 2 * m) * h + v = (x - m) * q + r
    <2>1. CASE bit
      <3>1. y - 2 * m = 2 * (x - m) + 1 /\ v = r - h
        BY <2>1
      <3>2. (2 * (x - m) + 1) * h + (r - h) = (x - m) * (2 * h) + r
        BY SMTT(20)
      <3> QED  BY <1>4, <3>1, <3>2
    <2>2. CASE ~bit
      <3>1. y - 2 * m = 2 * (x - m) /\ v = r
        BY <2>2
      <3>2. (2 * (x - m)) * h + r = (x - m) * (2 * h) + r
        BY SMTT(20)
      <3> QED  BY <1>4, <3>1, <3>2
    <2> QED  BY <2>1, <2>2
  <1>10. Halved(m, q, r, x, bit, h)
    BY <1>4, <1>5, <1>7, <1>8, <1>9 DEF Halved
  <1> QED  BY <1>10

(* While encoding, only what is said of it is at stake.                      *)
LEMMA WhileEncoding ==
  ASSUME Given, phase = "encode", phase' = "encode", UNCHANGED <<data, want, dst, inPos, code, k>>,
         Spelling', Encoded'
  PROVE  RoundTrip'
  <1>1. Given'
    BY DEF Given
  <1> QED  BY <1>1 DEF RoundTrip, Flushing, Primed, Decoding, CoderRoundTrips

LEMMA EncodeBitRoundTrips ==
  ASSUME IInv, RoundTrip, EncodeBit
  PROVE  RoundTrip'
  <1>0. PICK bit \in BOOLEAN : (bit <=> c >= Symbols \div 2) /\ Bit(bit)
    <2>1. (c >= Symbols \div 2) \in BOOLEAN
      OBVIOUS
    <2> QED  BY <2>1 DEF EncodeBit
  <1>1. /\ phase = "encode" /\ phase' = "encode" /\ Settled /\ ctx \in 1..Symbols - 1
        /\ TypeOK /\ low <= high
        /\ UNCHANGED <<data, want, dst, inPos, code, k, pos, out>>
        /\ c' = (2 * c) % Symbols
    BY <1>0 DEF IInv, IntervalNotEmpty, EncodeBit, BitToCome, Coding, Bit
  <1>2. Given /\ pos \in 0..Len(data) /\ pos < Len(data)
    BY <1>1 DEF RoundTrip, Spelling
  <1>3. PICK m \in Nat, q \in Nat, r \in Nat : Spells(m, q, r)
    BY <1>1 DEF RoundTrip, Spelling
  <1>4. /\ m \in Nat \ {0} /\ q \in Nat \ {0} /\ r \in 0..q - 1 /\ m * q = Symbols
        /\ ctx \in m..2 * m - 1 /\ c = m * r /\ data[pos + 1] = (ctx - m) * q + r
    BY <1>3 DEF Spells
  <1>5. PICK h \in Nat \ {0} : Halved(m, q, r, ctx, bit, h)
    <2>1. (bit <=> m * r >= Symbols \div 2) /\ ctx < Symbols
      BY <1>0, <1>1, <1>4, SymbolsAssumption
    <2> QED  BY <1>4, <2>1, SpellsBit
  <1> DEFINE v == IF bit THEN r - h ELSE r
  <1>6. ctx' = 2 * ctx + (IF bit THEN 1 ELSE 0)
    BY <1>0 DEF Bit
  <1>7. /\ v \in 0..h - 1 /\ ctx' \in 2 * m..2 * (2 * m) - 1 /\ c' = (2 * m) * v
        /\ data[pos + 1] = (ctx' - 2 * m) * h + v /\ (2 * m) * h = Symbols
    <2>1. (2 * c) % Symbols = (2 * m) * v
      BY <1>4, <1>5 DEF Halved
    <2> QED  BY <1>1, <1>4, <1>5, <1>6, <2>1 DEF Halved
  <1> HIDE DEF v
  <1>8. 2 * m \in Nat \ {0} /\ v \in Nat
    BY <1>4, <1>7
  <1>9. Spelling'
    <2>1. Spells(2 * m, h, v)'
      BY <1>1, <1>5, <1>7, <1>8 DEF Spells
    <2>2. \E i, j, l \in Nat : Spells(i, j, l)'
      BY <1>5, <1>8, <2>1
    <2> QED  BY <1>1, <1>2, <2>2 DEF Spelling
  <1>10. Encoded'
    <2>1. PICK R : Road(data, R, State, Len(out)) /\ Leads(out, R, State, Len(out))
      BY <1>1 DEF RoundTrip, Encoded
    <2>2. State' = BitOf(State, bit)
      BY <1>0, StepOfBit
    <2>3. Steps(data, State, Len(out), State', Len(out))
      BY <1>1, <2>2, StateFields DEF Steps
    <2>4. State'.ctx >= Symbols =>
            State'.pos < Len(data) /\ State'.ctx - Symbols = data[State'.pos + 1]
      <3>1. State'.ctx = ctx' /\ State'.pos = pos
        BY <1>1 DEF State
      <3>2. ASSUME ctx' >= Symbols
            PROVE  (ctx' - 2 * m) * h + v = ctx' - Symbols
        BY <1>5, <1>7, <1>8, <3>2, SpelledOut
      <3> QED  BY <1>2, <1>7, <3>1, <3>2
    <2>5. Len(out) \in Nat
      BY <1>1, LenProperties DEF TypeOK
    <2>6. ASSUME NEW z, NEW g, Goes(out, z, g), InsideAt(State', Len(out), g)
          PROVE  InsideAt(State, Len(out), g)
      <3>1. g[Digits][Len(out)] \in Nat
        BY <2>6, <2>5, DigitsAssumption DEF Goes, IsTable
      <3>2. mid \in low..high - 1 /\ low \in Int /\ high \in Int
        <4>1. low < high
          BY <1>1, SettledApart
        <4>2. mid \in low..high - 1
          BY <1>1, <4>1, MidInside
        <4> QED  BY <1>1, <4>2 DEF TypeOK
      <3>3. IF bit THEN State'.high = mid /\ State'.low = low
                   ELSE State'.low = mid + 1 /\ State'.high = high
        BY <1>0, BitInterval
      <3>4. State.low = low /\ State.high = high
        BY StateFields
      <3>5. CASE bit
        BY <2>6, <3>1, <3>2, <3>3, <3>4, <3>5 DEF InsideAt
      <3>6. CASE ~bit
        BY <2>6, <3>1, <3>2, <3>3, <3>4, <3>6 DEF InsideAt
      <3> QED  BY <3>5, <3>6
    <2>7. \E U : Road(data, U, State', Len(out)) /\ Leads(out, U, State', Len(out))
      BY <2>1, <2>3, <2>4, <2>5, <2>6, WayGoesOn
    <2> QED  BY <1>1, <2>7 DEF Encoded
  <1> QED  BY <1>1, <1>2, <1>9, <1>10, WhileEncoding

LEMMA EncodeShiftRoundTrips ==
  ASSUME IInv, RoundTrip, EncodeShift
  PROVE  RoundTrip'
  <1>1. /\ phase = "encode" /\ phase' = "encode" /\ ~Settled /\ Shift
        /\ out' = Append(out, low \div Top) /\ TypeOK /\ low <= high
        /\ UNCHANGED <<data, want, dst, inPos, code, k, pos, ctx, c>>
    BY DEF IInv, IntervalNotEmpty, EncodeShift, Shift, symbol
  <1>2. Given /\ Spelling /\ Encoded
    BY DEF RoundTrip
  <1>3. Spelling'
    BY <1>1, <1>2 DEF Spelling, Spells
  <1>4. Encoded'
    <2>1. PICK R : Road(data, R, State, Len(out)) /\ Leads(out, R, State, Len(out))
      BY <1>1, <1>2 DEF Encoded
    <2>2. Len(out) \in Nat /\ Len(out') = Len(out) + 1 /\ Len(out) + 1 \in Nat
          /\ Len(out) <= Len(out) + 1
      <3>1. Len(out) \in Nat
        BY <1>1, LenProperties DEF TypeOK
      <3>2. Len(out') = Len(out) + 1
        BY <1>1, LeadingDigit
      <3> QED  BY <3>1, <3>2
    <2>3. Steps(data, State, Len(out), State', Len(out) + 1)
      BY <1>1, StepOfShift, StateFields DEF Steps
    <2>4. State'.ctx >= Symbols =>
            State'.pos < Len(data) /\ State'.ctx - Symbols = data[State'.pos + 1]
      <3>1. State'.ctx = State.ctx /\ State'.pos = State.pos
        BY <1>1 DEF State
      <3> QED  BY <2>1, <3>1 DEF Road
    <2>5. ASSUME NEW z, NEW g, Goes(out', z, g), InsideAt(State', Len(out) + 1, g)
          PROVE  Goes(out, z, g) /\ InsideAt(State, Len(out), g)
      <3>1. Goes(out, z, g) /\ z[Len(out) + 1] = low \div Top
        BY <1>1, <2>5, GoesBack DEF TypeOK
      <3>2. low' = (low % Top) * Base /\ high' = (high % Top) * Base + (Base - 1)
        BY <1>1, ShiftKeepsTypes
      <3>3. (low % Top) * Base <= g[Digits][Len(out) + 1]
            /\ g[Digits][Len(out) + 1] <= (high % Top) * Base + (Base - 1)
        BY <2>5, <3>2 DEF InsideAt, State
      <3>4. low \in 0..Size - 1 /\ high \in 0..Size - 1 /\ low \div Top = high \div Top
        BY <1>1 DEF TypeOK, Settled
      <3>5. low <= g[Digits][Len(out)] /\ g[Digits][Len(out)] <= high
        BY <2>2, <3>1, <3>3, <3>4, ShiftedInside DEF Goes
      <3> QED  BY <3>1, <3>5, StateFields DEF InsideAt
    <2>6. \E U : Road(data, U, State', Len(out) + 1) /\ Leads(out', U, State', Len(out) + 1)
      BY <2>1, <2>2, <2>3, <2>4, <2>5, WayGoesOn, SMTT(40)
    <2> QED  BY <1>1, <2>2, <2>6 DEF Encoded
  <1> QED  BY <1>1, <1>2, <1>3, <1>4, WhileEncoding

LEMMA EncodeSymbolRoundTrips ==
  ASSUME IInv, RoundTrip, phase = "encode", BeginSymbol \/ EndSymbol
  PROVE  RoundTrip'
  <1>1. /\ phase' = "encode" /\ Settled /\ TypeOK
        /\ UNCHANGED <<data, want, dst, inPos, code, k, out, low, high>>
    BY DEF IInv, BeginSymbol, EndSymbol, Coding, decoding
  <1>2. Given /\ Spelling /\ Encoded /\ want = Len(data) /\ pos \in 0..Len(data)
        /\ Len(data) \in Nat /\ data \in Seq(0..Symbols - 1)
    BY LenProperties DEF RoundTrip, Spelling, Given
  <1>3. PICK R : Road(data, R, State, Len(out)) /\ Leads(out, R, State, Len(out))
    BY <1>2 DEF Encoded
  <1>4. Spelling' /\ Steps(data, State, Len(out), State', Len(out)) /\ State'.ctx < Symbols
    <2>1. CASE BeginSymbol
      <3>1. ctx = 0 /\ ctx' = 1 /\ pos < want /\ c' = data[pos + 1] /\ pos' = pos
        BY <2>1 DEF BeginSymbol
      <3>2. data[pos + 1] \in 0..Symbols - 1
        <4>1. pos + 1 \in 1..Len(data)
          BY <1>2, <3>1
        <4> QED  BY <1>2, <4>1, ElementOfSeq
      <3>3. Spells(1, Symbols, data[pos + 1])'
        <4>1. 1 * Symbols = Symbols /\ 1 * data[pos + 1] = data[pos + 1] /\ (1 - 1) * Symbols = 0
          BY <3>2, SymbolsAssumption
        <4> QED  BY <1>1, <3>1, <3>2, <4>1, SymbolsAssumption DEF Spells
      <3>4. Spelling'
        <4>1. Symbols \in Nat /\ data'[pos' + 1] \in Nat /\ 1 \in Nat
          BY <1>1, <3>1, <3>2, SymbolsAssumption
        <4>2. \E m, q, r \in Nat : Spells(m, q, r)'
          BY <3>3, <4>1
        <4> QED  BY <1>1, <1>2, <3>1, <4>2 DEF Spelling
      <3>5. Steps(data, State, Len(out), State', Len(out))
        BY <1>1, <1>2, <2>1, <3>1, StepOfBegin, StateFields DEF Steps
      <3>6. State'.ctx < Symbols
        BY <3>1, SymbolsAssumption DEF State
      <3> QED  BY <3>4, <3>5, <3>6
    <2>2. CASE EndSymbol
      <3>1. ctx >= Symbols /\ ctx' = 0 /\ pos' = pos + 1
        BY <2>2 DEF EndSymbol
      <3>2. pos < Len(data)
        BY <1>2, <3>1, SymbolsAssumption DEF Spelling
      <3>3. Spelling'
        BY <1>1, <1>2, <3>1, <3>2 DEF Spelling
      <3>4. Steps(data, State, Len(out), State', Len(out))
        BY <1>1, <2>2, <3>1, StepOfEnd, StateFields DEF Steps
      <3>5. State'.ctx < Symbols
        BY <3>1, SymbolsAssumption DEF State
      <3> QED  BY <3>3, <3>4, <3>5
    <2> QED  BY <2>1, <2>2
  <1>5. Encoded'
    <2>1. Len(out) \in Nat
      BY <1>1, LenProperties DEF TypeOK
    <2>2. \A g : InsideAt(State', Len(out), g) => InsideAt(State, Len(out), g)
      BY <1>1 DEF InsideAt, State
    <2>3. ~(State'.ctx >= Symbols)
      <3>1. State'.ctx \in {0, 1}
        BY DEF State, BeginSymbol, EndSymbol
      <3> QED  BY <3>1, SymbolsAssumption
    <2>4. \E U : Road(data, U, State', Len(out)) /\ Leads(out, U, State', Len(out))
      BY <1>3, <1>4, <2>1, <2>2, <2>3, WayGoesOn
    <2> QED  BY <1>1, <2>4 DEF Encoded
  <1> QED  BY <1>1, <1>2, <1>4, <1>5, WhileEncoding

-----------------------------------------------------------------------------
(* The digits that Flush writes are those of the lower end.                  *)
LEMMA NextDigit ==
  ASSUME NEW i \in 0..Digits - 1, NEW lo \in Nat, lo < Power[Digits - i]
  PROVE  \E d \in Digit, l \in Nat :
           /\ Power[Digits - i] = Base * Power[Digits - (i + 1)]
           /\ lo = d * Power[Digits - (i + 1)] + l /\ l < Power[Digits - (i + 1)]
           /\ (lo * Power[i]) \div Top = d
           /\ ((lo * Power[i]) * Base) % Size = l * Power[i + 1]
  <1> DEFINE r == Power[i]
             q == Power[Digits - (i + 1)]
             d == lo \div q
             l == lo % q
             a == lo * r
  <1>1. /\ Digits \in Nat /\ Base \in Nat /\ Base >= 2 /\ Top \in Nat \ {0} /\ Size \in Nat \ {0}
        /\ Size = Base * Top
    BY DigitsAssumption, SizesPositive DEF Size
  <1>2. /\ i \in 0..Digits /\ Digits - (i + 1) \in 0..Digits - 1 /\ i + 1 \in 0..Digits
        /\ Digits - (i + 1) + 1 = Digits - i
    BY <1>1
  <1>3. Power[Digits - i] = Base * q /\ Power[i + 1] = Base * r
    BY <1>1, <1>2, PowerValues
  <1>4. r \in Nat \ {0} /\ q \in Nat \ {0}
    BY <1>2, PowerSplit
  <1>5. r * q = Top
    <2>1. r * (Base * q) = Size
      BY <1>2, <1>3, PowerSplit
    <2> HIDE DEF r, q
    <2>2. r * (Base * q) = Base * (r * q) /\ r * q \in Int
      BY <1>1, <1>4, SMTT(20)
    <2>3. ASSUME NEW u \in Int, NEW v \in Int, Base * u = Base * v PROVE u = v
      <3>1. ASSUME u < v PROVE FALSE
        BY <1>1, <2>3, <3>1, ProductBelow
      <3>2. ASSUME v < u PROVE FALSE
        BY <1>1, <2>3, <3>2, ProductBelow
      <3> QED  BY <3>1, <3>2
    <2> QED  BY <1>1, <2>1, <2>2, <2>3
  <1>6. lo = q * d + l /\ d \in Int /\ l \in 0..q - 1
    <2>1. lo \in Int
      OBVIOUS
    <2> HIDE DEF q
    <2> QED  BY <1>4, <2>1, Quotient
  <1>7. d \in 0..Base - 1
    <2>1. lo < Base * q /\ 0 * q <= lo
      BY <1>3, <1>4
    <2>2. d < Base /\ 0 <= d
      <3>1. Base \in Int /\ lo \in Int /\ 0 \in Int
        BY <1>1
      <3> HIDE DEF q
      <3> QED  BY <1>4, <2>1, <3>1, QuotientBelow, QuotientAbove
    <2> QED  BY <1>1, <1>6, <2>2
  <1> HIDE DEF r, q, d, l, a
  <1>8. l * r \in 0..Top - 1
    <2>1. r * l < r * q /\ r * q = q * r
      BY <1>4, <1>6, ProductBelow
    <2>2. l * r \in Int /\ l * r >= 0 /\ l * r = r * l
      BY <1>4, <1>6, SMTT(20)
    <2> QED  BY <1>1, <1>5, <2>1, <2>2
  <1>9. a = Top * d + l * r
    <2>1. (q * d + l) * r = (r * q) * d + l * r
      BY <1>4, <1>6, SMTT(20)
    <2> QED  BY <1>5, <1>6, <2>1 DEF a
  <1>10. a \div Top = d /\ a % Top = l * r
    <2>1. \A e \in 0..Top - 1 : (Top * d + e) \div Top = d /\ (Top * d + e) % Top = e
      BY <1>1, <1>7, SMTT(20)
    <2> QED  BY <1>8, <1>9, <2>1
  <1>11. a \in 0..Size - 1
    <2>1. Top * d <= Top * (Base - 1)
      <3>1. d \in Int /\ Base - 1 \in Int /\ d <= Base - 1 /\ Top \in Nat
        BY <1>1, <1>7
      <3> QED  BY <3>1, ProductAtMost
    <2>2. Top * (Base - 1) = Size - Top /\ Top * d \in Int /\ Top * d >= 0
      BY <1>1, <1>7, SMTT(20)
    <2> QED  BY <1>1, <1>8, <1>9, <2>1, <2>2
  <1>12. (a * Base) % Size = l * Power[i + 1]
    <2>1. ((a * Base) % Size) + 0 = (a % Top) * Base + 0
      <3>1. 0 \in 0..Base - 1
        BY <1>1
      <3> QED  BY <1>11, <3>1, ShiftedNumber
    <2>2. (l * r) * Base = l * (Base * r) /\ (l * r) * Base \in Int
      BY <1>1, <1>4, <1>6, SMTT(20)
    <2>3. (a * Base) % Size \in Int
      <3> DEFINE e == a * Base
      <3>1. e \in Int
        BY <1>1, <1>11, Product
      <3> HIDE DEF e
      <3>2. e % Size \in 0..Size - 1
        BY <1>1, <3>1, Quotient
      <3> QED  BY <3>2 DEF e
    <2> QED  BY <1>3, <1>10, <2>1, <2>2, <2>3
  <1>13. q * d = d * q
    BY <1>4, <1>6, SMTT(20)
  <1>14. d \in Digit /\ l \in Nat /\ l < q
    BY <1>4, <1>6, <1>7 DEF Digit
  <1> QED  BY <1>3, <1>6, <1>10, <1>12, <1>13, <1>14 DEF a, q, r

LEMMA EncodeEndsRoundTrips ==
  ASSUME IInv, RoundTrip, EncodeEnds
  PROVE  RoundTrip'
  <1>1. /\ phase = "encode" /\ phase' = "flush" /\ Settled /\ ctx = 0 /\ pos = want
        /\ TypeOK /\ low <= high
        /\ UNCHANGED <<data, want, dst, inPos, code, k, out, low>>
    BY DEF IInv, IntervalNotEmpty, EncodeEnds, symbol, decoding
  <1>2. Given /\ want = Len(data) /\ k = 0 /\ out \in Seq(0..Base - 1)
    BY <1>1 DEF RoundTrip, Given, TypeOK
  <1>3. PICK R : Road(data, R, State, Len(out)) /\ Leads(out, R, State, Len(out))
    BY <1>1 DEF RoundTrip, Encoded
  <1>4. Len(out) \in Nat /\ Len(out) - 0 = Len(out) /\ low \in 0..Size - 1 /\ high \in Int
    BY <1>1, LenProperties DEF TypeOK
  <1>5. Flushed(State, 0, low)'
    <2>1. Digits - 0 = Digits /\ low < Size /\ 0 * Size + low = low /\ low * 1 = low /\ low \in Nat
      BY <1>4, DigitsAssumption, SizesPositive
    <2>2. \A z, g : Goes(out, z, g) => g[0][Len(out)] = 0
      BY <1>4 DEF Goes, IsTable
    <2>3. State'.low = low
      BY <1>1 DEF State
    <2> QED  BY <1>1, <1>2, <1>4, <2>1, <2>2, <2>3, PowerLast, PowerValues DEF Flushed
  <1>6. State' = State
    BY DEF EncodeEnds, State, model, symbol
  <1>7. Ended(data, State) /\ State.low \in Int /\ State.high \in Int /\ State.low <= State.high
    BY <1>1, <1>2, <1>4, StateFields DEF Ended
  <1>8. Flushing'
    BY <1>1, <1>2, <1>3, <1>4, <1>5, <1>6, <1>7 DEF Flushing
  <1>9. Given'
    BY <1>1, <1>2 DEF Given
  <1> QED  BY <1>1, <1>8, <1>9 DEF RoundTrip, Spelling, Encoded, Primed, Decoding, CoderRoundTrips

LEMMA FlushRoundTrips ==
  ASSUME IInv, RoundTrip, Flush
  PROVE  RoundTrip'
  <1>1. /\ phase = "flush" /\ phase' = "flush" /\ TypeOK /\ k \in 0..Digits - 1 /\ k' = k + 1
        /\ out' = Append(out, low \div Top) /\ low' = (low * Base) % Size
        /\ UNCHANGED <<data, want, dst, inPos, code>>
    BY DigitsAssumption, SMTT(40) DEF IInv, Flush, TypeOK, decoding
  <1>2. PICK R, end :
          /\ Len(out) - k \in Nat
          /\ Road(data, R, end, Len(out) - k)
          /\ Leads(out, R, end, Len(out) - k)
          /\ Ended(data, end) /\ end.low \in Int /\ end.high \in Int /\ end.low <= end.high
          /\ \E hi, lo : Flushed(end, hi, lo)
    BY <1>1 DEF RoundTrip, Flushing
  <1>3. PICK hi, lo : Flushed(end, hi, lo)
    BY <1>2
  <1>4. /\ hi \in Nat /\ lo \in Nat /\ lo < Power[Digits - k] /\ low = lo * Power[k]
        /\ end.low = hi * Power[Digits - k] + lo
        /\ \A z, g : Goes(out, z, g) => g[k][Len(out) - k] = hi
    BY <1>3 DEF Flushed
  <1>5. PICK d \in Digit, l \in Nat :
           /\ Power[Digits - k] = Base * Power[Digits - (k + 1)]
           /\ lo = d * Power[Digits - (k + 1)] + l /\ l < Power[Digits - (k + 1)]
           /\ (lo * Power[k]) \div Top = d
           /\ ((lo * Power[k]) * Base) % Size = l * Power[k + 1]
    BY <1>1, <1>4, NextDigit
  <1>6. /\ Len(out) \in Nat /\ Len(out') = Len(out) + 1 /\ Len(out') - k' = Len(out) - k
        /\ Base \in Nat /\ d \in Nat /\ Digits - (k + 1) \in 0..Digits /\ Digits \in Nat
    <2>1. Len(out) \in Nat
      BY <1>1, LenProperties DEF TypeOK
    <2>2. Len(out') = Len(out) + 1
      BY <1>1, LeadingDigit
    <2> QED  BY <1>1, <2>1, <2>2, DigitsAssumption DEF Digit
  <1> DEFINE n == Len(out) - k
             q == Power[Digits - (k + 1)]
  <1>7. ASSUME NEW z, NEW g, Goes(out', z, g)
        PROVE  Goes(out, z, g) /\ g[k + 1][n] = hi * Base + d
    <2>1. Goes(out, z, g) /\ z[Len(out) + 1] = d
      BY <1>1, <1>4, <1>5, <1>7, GoesBack DEF TypeOK
    <2>2. g[k + 1][n] = g[k][n] * Base + z[n + k + 1]
      BY <1>1, <1>2, <2>1 DEF Goes, IsTable
    <2>3. n + k + 1 = Len(out) + 1
      BY <1>1, <1>6
    <2> QED  BY <1>4, <2>1, <2>2, <2>3
  <1>8. end.low = (hi * Base + d) * q + l /\ hi * Base + d \in Nat
    <2>1. q \in Nat
      BY <1>6, PowerValues
    <2> HIDE DEF q
    <2>2. hi * (Base * q) + (d * q + l) = (hi * Base + d) * q + l
      BY <1>4, <1>5, <1>6, <2>1, SMTT(20)
    <2>3. hi * Base \in Nat
      BY <1>4, <1>6, Product
    <2> QED  BY <1>4, <1>5, <1>6, <2>2, <2>3, SMTT(40) DEF q
  <1>9. Flushed(end, hi * Base + d, l)'
    BY <1>1, <1>4, <1>5, <1>6, <1>7, <1>8 DEF Flushed
  <1>10. Leads(out', R, end, n)
    BY <1>2, <1>7 DEF Leads
  <1>11. Flushing'
    BY <1>1, <1>2, <1>6, <1>9, <1>10 DEF Flushing
  <1>12. Given'
    BY <1>1 DEF RoundTrip, Given
  <1> QED  BY <1>1, <1>11, <1>12 DEF RoundTrip, Spelling, Encoded, Primed, Decoding, CoderRoundTrips

LEMMA EncodeReturnsRoundTrips ==
  ASSUME IInv, RoundTrip, EncodeReturns
  PROVE  RoundTrip'
  <1>1. /\ phase = "flush" /\ phase' = "prime" /\ TypeOK /\ k = Digits /\ k' = 0 /\ Begin
        /\ UNCHANGED <<data, want, dst, inPos, code, out>>
        /\ Digits \in Nat /\ Digits >= 1
    BY DigitsAssumption DEF IInv, EncodeReturns, decoding
  <1>2. Given /\ inPos = 0 /\ code = 0 /\ out \in Seq(0..Base - 1) /\ Len(out) \in Nat
    BY <1>1, LenProperties DEF RoundTrip, Given, TypeOK
  <1>3. PICK R, end :
          /\ Len(out) - k \in Nat
          /\ Road(data, R, end, Len(out) - k)
          /\ Leads(out, R, end, Len(out) - k)
          /\ Ended(data, end) /\ end.low \in Int /\ end.high \in Int /\ end.low <= end.high
          /\ \E hi, lo : Flushed(end, hi, lo)
    BY <1>1 DEF RoundTrip, Flushing
  <1>4. PICK hi, lo : Flushed(end, hi, lo)
    BY <1>3
  <1>5. end.low = hi
    <2>1. Digits - Digits = 0
      BY <1>1
    <2>2. hi \in Nat /\ lo \in Nat /\ end.low = hi * 1 + lo /\ lo < 1
      BY <1>1, <1>4, <2>1, PowerValues DEF Flushed
    <2> QED  BY <2>2
  <1> DEFINE z == [j \in Nat |-> IF j \in 1..Len(out) THEN out[j] ELSE 0]
  <1>6. z \in [Nat -> Digit] /\ \A j \in 1..Len(out) : z[j] = out[j]
    <2>1. ASSUME NEW j \in 1..Len(out) PROVE out[j] \in Digit
      <3>1. out[j] \in 0..Base - 1
        BY <1>2, ElementOfSeq
      <3> QED  BY <3>1 DEF Digit
    <2>2. 0 \in Digit
      BY DigitsAssumption DEF Digit
    <2> QED  BY <2>1, <2>2
  <1> HIDE DEF z
  <1>7. PICK g : IsTable(z, g)
    BY <1>6, TableExists
  <1>8. Goes(out, z, g)
    BY <1>6, <1>7 DEF Goes
  <1>9. Inside(R, g)
    <2>1. g[Digits][Len(out) - k] = hi
      BY <1>1, <1>4, <1>8 DEF Flushed
    <2>2. InsideAt(end, Len(out) - k, g)
      BY <1>3, <1>5, <2>1 DEF InsideAt
    <2> QED  BY <1>3, <1>8, <2>2 DEF Leads
  <1>10. Coded(data, out, R, end, z, g)
    BY <1>1, <1>3, <1>8, <1>9 DEF Coded
  <1>11. State' = Start
    BY <1>1 DEF Begin, State, Start
  <1>12. code = g[0][0]
    BY <1>2, <1>7 DEF IsTable
  <1>13. Primed'
    BY <1>1, <1>2, <1>10, <1>11, <1>12 DEF Primed
  <1>14. Given'
    BY <1>1, <1>2 DEF Given
  <1> QED  BY <1>1, <1>13, <1>14
       DEF RoundTrip, Spelling, Encoded, Flushing, Decoding, CoderRoundTrips

-----------------------------------------------------------------------------
(* Decode follows the same way. *)
LEMMA MidOfState == MidAt(State) = mid
  <1> DEFINE s == State
  <1>1. /\ s.c0 = c0 /\ s.c1 = c1 /\ s.c2 = c2 /\ s.low = low /\ s.high = high /\ s.ctx = ctx
        /\ s.run = run /\ s.last = last /\ s.beforeLast = beforeLast
    BY DEF State
  <1> HIDE DEF s
  <1>2. PAt(s) = p /\ RowAt(s) = row
    BY <1>1 DEF PAt, p, p0, p1, p2, RowAt, row
  <1>3. X1At(s) = x1 /\ X2At(s) = x2
    BY <1>1, <1>2 DEF X1At, X2At, J1At, x1, x2, j1
  <1>4. SseAt(s) = ssep
    BY <1>2, <1>3 DEF SseAt, ssep
  <1> QED  BY <1>1, <1>2, <1>4 DEF MidAt, mid, s

LEMMA WhileDecoding ==
  ASSUME Given, phase' \in {"prime", "decode", "done"}, UNCHANGED <<data, want>>,
         phase \in {"prime", "decode", "done"},
         phase' = "prime" => dst' = <<>>,
         data # <<>> => Primed' /\ Decoding' /\ CoderRoundTrips'
  PROVE  RoundTrip'
  <1>1. Given'
    BY DEF Given
  <1> QED  BY <1>1 DEF RoundTrip, Spelling, Encoded, Flushing, Primed, Decoding, CoderRoundTrips

(* From wherever the way has not ended, Decode's number shows where it goes. *)
LEMMA NextOnWay ==
  ASSUME NEW d, NEW o, NEW R, NEW end, NEW z, NEW g, Coded(d, o, R, end, z, g),
         NEW s, NEW n, <<s, n>> \in R, ~Ended(d, s)
  PROVE  \E t, m : /\ <<t, m>> \in R /\ Steps(d, s, n, t, m) /\ InsideAt(t, m, g)
                   /\ m \in 0..Len(o) - Digits
  <1>1. s # end
    BY DEF Coded
  <1>2. PICK t, m : <<t, m>> \in R /\ Steps(d, s, n, t, m)
    BY <1>1 DEF Coded, Road
  <1>3. InsideAt(t, m, g) /\ m \in 0..Len(o) - Digits
    BY <1>2 DEF Coded, Road, Inside
  <1> QED  BY <1>2, <1>3

LEMMA PrefixGrows ==
  ASSUME NEW S, NEW d \in Seq(S), NEW n \in 0..Len(d) - 1
  PROVE  SubSeq(d, 1, n + 1) = Append(SubSeq(d, 1, n), d[n + 1])
  <1>1. Len(d) \in Nat /\ \A i \in 1..Len(d) : d[i] \in S
    BY LenProperties, ElementOfSeq
  <1>2. 1 \in 1..Len(d) /\ n + 1 \in 1..Len(d) /\ n + 1 - 1 = n /\ n \in Int /\ 1 \in Int
    BY <1>1
  <1>3. SubSeq(d, 1, n + 1) = SubSeq(d, 1, n) \o <<d[n + 1]>>
    BY <1>2, SubSeqRecursiveSecond
  <1>4. SubSeq(d, 1, n) \in Seq(S)
    <2>1. \A i \in 1..n : d[i] \in S
      BY <1>1, <1>2
    <2> QED  BY <1>2, <2>1, SubSeqProperties
  <1>5. Append(SubSeq(d, 1, n), d[n + 1]) = SubSeq(d, 1, n) \o <<d[n + 1]>>
    BY <1>1, <1>2, <1>4, AppendIsConcat
  <1> QED  BY <1>3, <1>5

LEMMA InitRoundTrips == Init => RoundTrip
  <1> SUFFICES ASSUME Init PROVE RoundTrip
    OBVIOUS
  <1>1. CASE phase = "encode"
    <2>1. data \in Seq(0..Symbols - 1) /\ out = <<>> /\ want = Len(data) /\ State = Start
          /\ inPos = 0 /\ code = 0 /\ dst = <<>> /\ pos = 0 /\ ctx = 0 /\ k = 0
      BY <1>1, InputsAssumption DEF Init, State, Start
    <2>2. Given
      BY <1>1, <2>1 DEF Given
    <2>3. Spelling
      BY <2>1, LenProperties DEF Spelling
    <2>4. Encoded
      <3>1. Start.ctx = 0 /\ Len(out) = 0
        BY <2>1 DEF Start
      <3>2. Road(data, {<<Start, 0>>}, Start, 0)
        BY <3>1, StartsRoad
      <3>3. ASSUME NEW z, NEW g, InsideAt(Start, 0, g)
            PROVE  Inside({<<Start, 0>>}, g)
        <4> SUFFICES ASSUME NEW s, NEW n, <<s, n>> \in {<<Start, 0>>}
                     PROVE  InsideAt(s, n, g)
          BY DEF Inside
        <4>1. <<s, n>> = <<Start, 0>>
          OBVIOUS
        <4>2. s = Start /\ n = 0
          BY <4>1
        <4> QED  BY <3>3, <4>2
      <3>4. Leads(out, {<<Start, 0>>}, Start, 0)
        BY <3>3 DEF Leads
      <3> QED  BY <2>1, <3>1, <3>2, <3>4 DEF Encoded
    <2> QED  BY <1>1, <2>2, <2>3, <2>4 DEF RoundTrip, Flushing, Primed, Decoding, CoderRoundTrips
  <1>2. CASE phase = "prime" /\ data = <<>>
    <2>1. Given
      BY <1>2 DEF Given, Init
    <2> QED  BY <1>2, <2>1
         DEF RoundTrip, Spelling, Encoded, Flushing, Primed, Decoding, CoderRoundTrips
  <1> QED  BY <1>1, <1>2 DEF Init

LEMMA PrimeRoundTrips ==
  ASSUME IInv, RoundTrip, Prime
  PROVE  RoundTrip'
  <1>1. /\ phase = "prime" /\ phase' = "prime" /\ k \in 0..Digits - 1 /\ k' = k + 1 /\ ReadDigit
        /\ TypeOK /\ UNCHANGED <<data, want, dst, out>> /\ State' = State
    BY DigitsAssumption, SMTT(40) DEF IInv, Prime, ReadDigit, TypeOK, State, model, symbol
  <1>2. Given
    BY DEF RoundTrip
  <1>3. ASSUME data # <<>> PROVE Primed'
    <2>1. State = Start /\ inPos = k
      BY <1>1, <1>3 DEF RoundTrip, Primed
    <2>2. PICK R, end, z, g : Coded(data, out, R, end, z, g) /\ code = g[k][0]
      BY <1>1, <1>3 DEF RoundTrip, Primed
    <2>3. /\ Len(out) - Digits \in Nat /\ Len(out) \in Nat /\ IsTable(z, g) /\ Digits \in Nat
          /\ \A j \in 1..Len(out) : z[j] = out[j]
      BY <1>1, <2>2, LenProperties, DigitsAssumption DEF Coded, Goes, TypeOK
    <2>4. inPos < Len(out) /\ inPos + 1 \in 1..Len(out)
      BY <1>1, <2>1, <2>3
    <2>5. readIn = z[k + 1] /\ inPos' = k + 1
      BY <1>1, <2>1, <2>3, <2>4 DEF readIn, ReadDigit
    <2>6. g[k + 1][0] = g[k][0] * Base + z[0 + k + 1]
      BY <1>1, <2>3 DEF IsTable
    <2>7. g[k + 1][0] \in 0..Size - 1
      <3>1. k + 1 \in 0..Digits
        BY <1>1, <2>3
      <3>2. g[k + 1][0] \in Nat /\ g[k + 1][0] < Power[k + 1]
        BY <2>3, <3>1, TableBelow
      <3>3. Power[k + 1] <= Size /\ Power[k + 1] \in Nat
        BY <3>1, PowerSplit
      <3> QED  BY <3>2, <3>3, SizesPositive
    <2>8. \A e \in 0..Size - 1 : e % Size = e
      BY SizesPositive, SMTT(20)
    <2>9. code' = g[k + 1][0]
      <3>1. 0 + k + 1 = k + 1
        BY <1>1
      <3>2. code * Base + readIn = g[k + 1][0]
        BY <2>2, <2>5, <2>6, <3>1
      <3> QED  BY <1>1, <2>7, <2>8, <3>2 DEF ReadDigit
    <2> QED  BY <1>1, <2>1, <2>2, <2>5, <2>9 DEF Primed
  <1> QED  BY <1>1, <1>2, <1>3, WhileDecoding DEF Given, Decoding, CoderRoundTrips

LEMMA DecodeStartsRoundTrips ==
  ASSUME IInv, RoundTrip, DecodeStarts
  PROVE  RoundTrip'
  <1>1. /\ phase = "prime" /\ phase' = "decode" /\ k = Digits /\ Digits \in Nat
        /\ UNCHANGED <<data, want, dst, out, inPos, code, pos>> /\ State' = State
    BY DigitsAssumption DEF DecodeStarts, State, model, symbol, decoding
  <1>2. Given
    BY DEF RoundTrip
  <1>3. ASSUME data # <<>> PROVE Decoding'
    <2>1. State = Start /\ inPos = k /\ dst = <<>>
      BY <1>1, <1>2, <1>3 DEF RoundTrip, Primed, Given
    <2>2. PICK R, end, z, g : Coded(data, out, R, end, z, g) /\ code = g[k][0]
      BY <1>1, <1>3 DEF RoundTrip, Primed
    <2>3. inPos - Digits = 0 /\ <<Start, 0>> \in R
      BY <1>1, <2>1, <2>2 DEF Coded, Road
    <2>4. pos = 0 /\ 0 \in 0..Len(data)
      <3>1. Start.pos = 0 /\ State.pos = pos
        BY DEF Start, State
      <3> QED  BY <1>2, <2>1, <3>1, LenProperties DEF Given
    <2>5. dst = SubSeq(data, 1, 0)
      BY <2>1, SubSeqEmpty
    <2> QED  BY <1>1, <2>1, <2>2, <2>3, <2>4, <2>5 DEF Decoding
  <1> QED  BY <1>1, <1>2, <1>3, WhileDecoding DEF Primed, CoderRoundTrips

(* What Decoding says of the state, with the way named.                      *)
LEMMA Underway ==
  ASSUME IInv, RoundTrip, phase = "decode", data # <<>>
  PROVE  /\ pos \in 0..Len(data) /\ dst = SubSeq(data, 1, pos)
         /\ inPos - Digits \in Nat /\ Len(data) \in Nat /\ data \in Seq(0..Symbols - 1)
         /\ want = Len(data)
         /\ \E R, end, z, g : /\ Coded(data, out, R, end, z, g)
                              /\ <<State, inPos - Digits>> \in R
                              /\ code = g[Digits][inPos - Digits]
  BY LenProperties DEF RoundTrip, Decoding, Given

LEMMA DecodeBitRoundTrips ==
  ASSUME IInv, RoundTrip, DecodeBit
  PROVE  RoundTrip'
  <1>1. /\ phase = "decode" /\ phase' = "decode" /\ Settled /\ ctx \in 1..Symbols - 1
        /\ Bit(DecodedBit) /\ TypeOK /\ low <= high
        /\ UNCHANGED <<data, want, dst, inPos, code, pos, out>>
    BY DEF IInv, IntervalNotEmpty, DecodeBit, BitToCome, Coding, Bit
  <1>2. Given
    BY DEF RoundTrip
  <1>3. ASSUME data # <<>> PROVE Decoding'
    <2>1. PICK R, end, z, g : /\ Coded(data, out, R, end, z, g)
                              /\ <<State, inPos - Digits>> \in R
                              /\ code = g[Digits][inPos - Digits]
      BY <1>1, <1>3, Underway
    <2> DEFINE n == inPos - Digits
    <2>2. ~Ended(data, State) /\ ~(ctx = 0) /\ ~(ctx >= Symbols)
      BY <1>1, StateFields, SymbolsAssumption DEF Ended
    <2>3. PICK t, m : /\ <<t, m>> \in R /\ Steps(data, State, n, t, m) /\ InsideAt(t, m, g)
      BY <2>1, <2>2, NextOnWay
    <2>4. m = n /\ \E bit \in BOOLEAN : t = BitOf(State, bit)
      BY <1>1, <2>2, <2>3, StateFields DEF Steps
    <2>5. PICK bit \in BOOLEAN : t = BitOf(State, bit)
      BY <2>4
    <2>6. t.low <= code /\ code <= t.high
      BY <2>1, <2>3, <2>4 DEF InsideAt
    <2>7. mid \in Int /\ code \in Int
      <3>1. low < high
        BY <1>1, SettledApart
      <3>2. mid \in low..high - 1
        BY <1>1, <3>1, MidInside
      <3> QED  BY <1>1, <3>2 DEF TypeOK
    <2>8. bit <=> code <= mid
      <3>1. CASE bit
        <4>1. t.high = mid
          BY <2>5, <3>1, MidOfState DEF BitOf
        <4> QED  BY <2>6, <3>1, <4>1
      <3>2. CASE ~bit
        <4>1. t.low = mid + 1
          BY <2>5, <3>2, MidOfState DEF BitOf
        <4> QED  BY <2>6, <2>7, <3>2, <4>1
      <3> QED  BY <3>1, <3>2
    <2>9. State' = t
      <3>1. Bit(bit)
        <4>1. CASE bit
          <5>1. bit = TRUE /\ DecodedBit = TRUE
            BY <2>8, <4>1 DEF DecodedBit
          <5> QED  BY <1>1, <5>1
        <4>2. CASE ~bit
          <5>1. bit = FALSE /\ DecodedBit = FALSE
            BY <2>8, <4>2 DEF DecodedBit
          <5> QED  BY <1>1, <5>1
        <4> QED  BY <4>1, <4>2
      <3> QED  BY <2>5, <3>1, StepOfBit
    <2>10. pos \in 0..Len(data) /\ dst = SubSeq(data, 1, pos) /\ n \in Nat
      BY <1>1, <1>3, Underway
    <2> QED  BY <1>1, <2>1, <2>3, <2>4, <2>9, <2>10 DEF Decoding
  <1> QED  BY <1>1, <1>2, <1>3, WhileDecoding DEF Primed, CoderRoundTrips

LEMMA DecodeShiftRoundTrips ==
  ASSUME IInv, RoundTrip, DecodeShift
  PROVE  RoundTrip'
  <1>1. /\ phase = "decode" /\ phase' = "decode" /\ ~Settled /\ Shift /\ ReadDigit /\ TypeOK
        /\ UNCHANGED <<data, want, dst, pos, out>>
    BY DEF IInv, DecodeShift, Shift, ReadDigit, symbol
  <1>2. Given
    BY DEF RoundTrip
  <1>3. ASSUME data # <<>> PROVE Decoding'
    <2>1. PICK R, end, z, g : /\ Coded(data, out, R, end, z, g)
                              /\ <<State, inPos - Digits>> \in R
                              /\ code = g[Digits][inPos - Digits]
      BY <1>1, <1>3, Underway
    <2> DEFINE n == inPos - Digits
    <2>2. ~Ended(data, State)
      BY <1>1, StateFields DEF Ended
    <2>3. PICK t, m : /\ <<t, m>> \in R /\ Steps(data, State, n, t, m) /\ m \in 0..Len(out) - Digits
      BY <2>1, <2>2, NextOnWay
    <2>4. m = n + 1 /\ t = State'
      BY <1>1, <2>3, StateFields, StepOfShift DEF Steps
    <2>5. pos \in 0..Len(data) /\ dst = SubSeq(data, 1, pos) /\ n \in Nat
      BY <1>1, <1>3, Underway
    <2>6. /\ Digits \in Nat /\ Len(out) \in Nat /\ inPos \in Nat /\ IsTable(z, g) /\ Base \in Nat
          /\ \A j \in 1..Len(out) : z[j] = out[j]
      <3>1. IsTable(z, g) /\ \A j \in 1..Len(out) : z[j] = out[j]
        BY <2>1 DEF Coded, Goes
      <3>2. out \in Seq(0..Base - 1) /\ inPos \in 0..Len(out)
        BY <1>1 DEF TypeOK
      <3>3. Len(out) \in Nat
        BY <3>2, LenProperties
      <3>4. inPos \in Nat
        BY <3>2, <3>3
      <3> QED  BY <3>1, <3>3, <3>4, DigitsAssumption
    <2>7. inPos < Len(out) /\ inPos + 1 \in 1..Len(out)
      BY <2>3, <2>4, <2>5, <2>6
    <2>8. readIn = z[inPos + 1] /\ inPos' = inPos + 1 /\ inPos' - Digits = n + 1 /\ n + 1 \in Nat
      BY <1>1, <2>5, <2>6, <2>7 DEF readIn, ReadDigit
    <2>9. code' = g[Digits][n + 1]
      <3> DEFINE i == Digits - 1
                 h == g[i][n + 1]
                 v == z[n + 1]
                 e == z[inPos + 1]
      <3>1. i \in 0..Digits - 1 /\ i + 1 = Digits
        BY DigitsAssumption
      <3>2. v \in Digit /\ h \in Nat /\ g[i + 1][n] = v * Power[i] + h
        <4>1. n \in Nat /\ IsTable(z, g) /\ i \in 0..Digits - 1
          BY <2>5, <2>6, <3>1
        <4> HIDE DEF i, n
        <4>2. /\ z[n + 1] \in Digit /\ g[i][n + 1] \in Nat
              /\ g[i + 1][n] = z[n + 1] * Power[i] + g[i][n + 1]
          BY <4>1, TableFirst
        <4> QED  BY <4>2
      <3>3. code = v * Top + h
        BY <2>1, <3>1, <3>2, PowerLast
      <3>4. g[Digits][n + 1] = h * Base + e
        <4>1. g[i + 1][n + 1] = g[i][n + 1] * Base + z[n + 1 + i + 1]
          BY <2>6, <2>8, <3>1 DEF IsTable
        <4>2. n + 1 + i + 1 = inPos + 1
          BY <2>6
        <4> QED  BY <3>1, <4>1, <4>2
      <3>5. g[Digits][n + 1] \in 0..Size - 1
        <4>1. Digits \in 0..Digits
          BY <2>6
        <4>2. g[Digits][n + 1] \in Nat /\ g[Digits][n + 1] < Power[Digits]
          BY <2>6, <2>8, <4>1, TableBelow
        <4> QED  BY <4>2, PowerLast, SizesPositive
      <3>6. v \in Nat /\ e \in Nat
        <4>1. \A j \in Nat : z[j] \in 0..Base - 1
          BY <2>6 DEF IsTable, Digit
        <4>2. n + 1 \in Nat /\ inPos + 1 \in Nat
          BY <2>6, <2>8
        <4> QED  BY <2>6, <4>1, <4>2
      <3> HIDE DEF i, h, v, e
      <3>7. (v * Top + h) * Base + e = v * Size + (h * Base + e)
        <4>1. Size = Base * Top /\ Top \in Nat
          BY SizesPositive DEF Size
        <4> QED  BY <2>6, <3>2, <3>6, <4>1, SMTT(20)
      <3>8. \A x \in 0..Size - 1 : (v * Size + x) % Size = x
        BY <3>6, SizesPositive, SMTT(20)
      <3>9. (code * Base + readIn) % Size = g[Digits][n + 1]
        <4>1. code * Base + readIn = v * Size + g[Digits][n + 1]
          BY <2>8, <3>3, <3>4, <3>7 DEF e
        <4> QED  BY <3>5, <3>8, <4>1
      <3> QED  BY <1>1, <3>9 DEF ReadDigit
    <2> QED  BY <1>1, <2>1, <2>3, <2>4, <2>5, <2>8, <2>9 DEF Decoding
  <1> QED  BY <1>1, <1>2, <1>3, WhileDecoding DEF Primed, CoderRoundTrips

LEMMA DecodeSymbolRoundTrips ==
  ASSUME IInv, RoundTrip, phase = "decode", BeginSymbol \/ EndSymbol
  PROVE  RoundTrip'
  <1>1. /\ phase' = "decode" /\ Settled /\ UNCHANGED <<data, want, out, inPos, code>>
    BY DEF BeginSymbol, EndSymbol, Coding, decoding
  <1>2. Given
    BY DEF RoundTrip
  <1>3. ASSUME data # <<>> PROVE Decoding'
    <2>1. PICK R, end, z, g : /\ Coded(data, out, R, end, z, g)
                              /\ <<State, inPos - Digits>> \in R
                              /\ code = g[Digits][inPos - Digits]
      BY <1>1, <1>3, Underway
    <2> DEFINE n == inPos - Digits
    <2>2. /\ pos \in 0..Len(data) /\ dst = SubSeq(data, 1, pos) /\ n \in Nat
          /\ Len(data) \in Nat /\ data \in Seq(0..Symbols - 1) /\ want = Len(data)
      BY <1>1, <1>3, Underway
    <2>3. ~Ended(data, State)
      <3>1. CASE BeginSymbol
        BY <2>2, <3>1, StateFields DEF Ended, BeginSymbol
      <3>2. CASE EndSymbol
        BY <3>2, StateFields, SymbolsAssumption DEF Ended, EndSymbol
      <3> QED  BY <3>1, <3>2
    <2>4. PICK t, m : <<t, m>> \in R /\ Steps(data, State, n, t, m)
      BY <2>1, <2>3, NextOnWay
    <2>5. CASE BeginSymbol
      <3>1. ctx = 0 /\ ~(ctx >= Symbols) /\ ctx \notin 1..Symbols - 1 /\ pos' = pos /\ dst' = dst
        BY <2>5, SymbolsAssumption DEF BeginSymbol, decoding
      <3>2. t = State' /\ m = n
        BY <1>1, <2>4, <2>5, <3>1, StateFields, StepOfBegin DEF Steps
      <3> QED  BY <1>1, <2>1, <2>2, <2>4, <3>1, <3>2 DEF Decoding
    <2>6. CASE EndSymbol
      <3>1. /\ ctx >= Symbols /\ ~(ctx = 0) /\ ctx \notin 1..Symbols - 1
            /\ pos' = pos + 1 /\ dst' = Append(dst, ctx - Symbols)
        BY <2>6, SymbolsAssumption DEF EndSymbol
      <3>2. t = State' /\ m = n
        BY <1>1, <2>4, <2>6, <3>1, StateFields, StepOfEnd DEF Steps
      <3>3. pos < Len(data) /\ ctx - Symbols = data[pos + 1]
        BY <2>1, <3>1, StateFields DEF Coded, Road
      <3>4. pos \in 0..Len(data) - 1 /\ pos + 1 \in 0..Len(data)
        BY <2>2, <3>3
      <3>5. dst' = SubSeq(data, 1, pos + 1)
        BY <2>2, <3>1, <3>3, <3>4, PrefixGrows
      <3> QED  BY <1>1, <2>1, <2>2, <2>4, <3>1, <3>2, <3>4, <3>5 DEF Decoding
    <2> QED  BY <2>5, <2>6
  <1> QED  BY <1>1, <1>2, <1>3, WhileDecoding DEF Primed, CoderRoundTrips

LEMMA DecodeReturnsRoundTrips ==
  ASSUME IInv, RoundTrip, DecodeReturns
  PROVE  RoundTrip'
  <1>1. /\ phase = "decode" /\ phase' = "done" /\ Settled /\ ctx = 0 /\ pos = want
        /\ UNCHANGED <<data, want, dst, out, inPos>> /\ TypeOK
    BY DEF IInv, DecodeReturns, decoding
  <1>2. Given
    BY DEF RoundTrip
  <1>3. ASSUME data # <<>> PROVE CoderRoundTrips'
    <2>1. PICK R, end, z, g : /\ Coded(data, out, R, end, z, g)
                              /\ <<State, inPos - Digits>> \in R
                              /\ code = g[Digits][inPos - Digits]
      BY <1>1, <1>3, Underway
    <2>2. /\ dst = SubSeq(data, 1, pos) /\ pos = Len(data) /\ data \in Seq(0..Symbols - 1)
          /\ inPos - Digits \in Nat
      BY <1>1, <1>3, Underway
    <2>3. dst = data
      BY <2>2, SubSeqFull
    <2>4. ~(\E t, m : Steps(data, State, inPos - Digits, t, m))
      BY <1>1, <2>2, StateFields, SymbolsAssumption DEF Steps
    <2>5. inPos - Digits = Len(out) - Digits
      BY <2>1, <2>4 DEF Coded, Road
    <2>6. inPos = Len(out)
      <3>1. inPos \in Int /\ Len(out) \in Int /\ Digits \in Int
        BY <1>1, LenProperties, DigitsAssumption DEF TypeOK
      <3> QED  BY <2>5, <3>1
    <2> QED  BY <1>1, <2>3, <2>6 DEF CoderRoundTrips
  <1> QED  BY <1>1, <1>2, <1>3, WhileDecoding DEF Primed, Decoding

LEMMA StutterRoundTrips ==
  ASSUME RoundTrip, UNCHANGED vars
  PROVE  RoundTrip'
  <1>1. State' = State
    BY DEF State, vars, model, symbol
  <1>2. UNCHANGED <<phase, data, want, dst, inPos, code, k, pos, ctx, c, low, out>>
    BY DEF vars, symbol, decoding
  <1>3. Given' /\ Spelling' /\ CoderRoundTrips'
    BY <1>2 DEF RoundTrip, Given, Spelling, Spells, CoderRoundTrips
  <1>4. Encoded' /\ Primed' /\ Decoding'
    BY <1>1, <1>2 DEF RoundTrip, Encoded, Primed, Decoding
  <1>5. \A end, hi, lo : Flushed(end, hi, lo)' <=> Flushed(end, hi, lo)
    BY <1>2 DEF Flushed
  <1>6. Flushing'
    BY <1>2, <1>5 DEF RoundTrip, Flushing
  <1> QED  BY <1>3, <1>4, <1>6 DEF RoundTrip

(***************************************************************************)
(* Decode gives back what Encode was given, symbol for symbol, and reads   *)
(* exactly the digits that Encode wrote.                                   *)
(***************************************************************************)
THEOREM CoderIsUndone == Spec => []CoderRoundTrips
  <1>1. IInv /\ RoundTrip /\ [Next]_vars => RoundTrip'
    <2> SUFFICES ASSUME IInv, RoundTrip, [Next]_vars  PROVE RoundTrip'
      OBVIOUS
    <2>1. CASE BeginSymbol \/ EndSymbol
      <3>1. phase \in {"encode", "decode"}
        BY <2>1 DEF BeginSymbol, EndSymbol, Coding
      <3> QED  BY <2>1, <3>1, EncodeSymbolRoundTrips, DecodeSymbolRoundTrips
    <2>2. CASE EncodeBit
      BY <2>2, EncodeBitRoundTrips
    <2>3. CASE EncodeShift
      BY <2>3, EncodeShiftRoundTrips
    <2>4. CASE EncodeEnds
      BY <2>4, EncodeEndsRoundTrips
    <2>5. CASE Flush
      BY <2>5, FlushRoundTrips
    <2>6. CASE EncodeReturns
      BY <2>6, EncodeReturnsRoundTrips
    <2>7. CASE Prime
      BY <2>7, PrimeRoundTrips
    <2>8. CASE DecodeStarts
      BY <2>8, DecodeStartsRoundTrips
    <2>9. CASE DecodeBit
      BY <2>9, DecodeBitRoundTrips
    <2>10. CASE DecodeShift
      BY <2>10, DecodeShiftRoundTrips
    <2>11. CASE DecodeReturns
      BY <2>11, DecodeReturnsRoundTrips
    <2>12. CASE UNCHANGED vars
      BY <2>12, StutterRoundTrips
    <2> QED  BY <2>1, <2>2, <2>3, <2>4, <2>5, <2>6, <2>7, <2>8, <2>9, <2>10, <2>11, <2>12 DEF Next
  <1>2. RoundTrip => CoderRoundTrips
    BY DEF RoundTrip
  <1> QED  BY InitRoundTrips, CoderInvariant, <1>1, <1>2, PTL DEF Spec

-----------------------------------------------------------------------------
(* The Burrows-Wheeler transform.  Sizes of sets of rows, and the tables    *)
(* that Decode makes of any input it does not refuse: bucket1 counts rows by *)
(* their first byte, bucket2 by their first two, and biPSI gives each row a  *)
(* place in psi of its own.                                                  *)

Bytes == 0..Alphabet - 1
Rows1 == 1..Len(in)

LEMMA Disjoint ==
  ASSUME NEW S, NEW Q, IsFiniteSet(S), IsFiniteSet(Q), S \cap Q = {}
  PROVE  /\ IsFiniteSet(S \cup Q)
         /\ Cardinality(S) \in Nat /\ Cardinality(Q) \in Nat
         /\ Cardinality(S \cup Q) = Cardinality(S) + Cardinality(Q)
  BY FS_Union, FS_EmptySet, FS_CardinalityType

(* What Decode is given when it does not refuse it. *)
Accepted == /\ Alphabet \in Nat \ {0} /\ in \in Seq(Bytes)
            /\ Len(in) \in Nat /\ Len(in) >= 2 /\ idx \in 1..Len(in)

Below(ch) == {x \in Rows1 : in[x] < ch}
Equal(ch) == {x \in Rows1 : in[x] = ch}
First(ch) == 1 + Cardinality(Below(ch))

LEMMA FirstIs == ASSUME NEW ch \in 0..Alphabet PROVE FirstRow[ch] = First(ch)
  BY DEF FirstRow, First, Below, Rows1, N

LEMMA SubsetOfRows ==
  ASSUME Accepted, NEW S, S \subseteq 0..Len(in)
  PROVE  IsFiniteSet(S) /\ Cardinality(S) \in Nat
  <1>1. IsFiniteSet(0..Len(in))
    BY FS_Interval DEF Accepted
  <1> QED  BY <1>1, FS_Subset, FS_CardinalityType

LEMMA FirstRows ==
  ASSUME Accepted
  PROVE  /\ First(0) = 1 /\ First(Alphabet) = Len(in) + 1
         /\ \A ch \in 0..Alphabet : First(ch) \in 1..Len(in) + 1
         /\ \A ch \in Bytes : First(ch + 1) = First(ch) + Cardinality(Equal(ch))
         /\ \A ch, d \in 0..Alphabet : ch <= d => First(ch) <= First(d)
  <1>1. IsFiniteSet(Rows1) /\ Cardinality(Rows1) = Len(in)
    <2>1. 1 \in Int /\ Len(in) \in Int /\ ~(1 > Len(in)) /\ Len(in) - 1 + 1 = Len(in)
      BY DEF Accepted
    <2> QED  BY <2>1, FS_Interval, Zenon DEF Rows1
  <1>2. \A x \in Rows1 : in[x] \in Bytes
    BY ElementOfSeq DEF Accepted, Rows1
  <1>3. Below(0) = {} /\ Below(Alphabet) = Rows1
    BY <1>2 DEF Accepted, Below, Bytes
  <1>4. ASSUME NEW ch \in 0..Alphabet
        PROVE  First(ch) \in 1..Len(in) + 1
    <2>1. Below(ch) \in SUBSET Rows1
      BY DEF Below
    <2>2. Cardinality(Below(ch)) \in Nat /\ Cardinality(Below(ch)) <= Len(in)
      BY <1>1, <2>1, FS_Subset, FS_CardinalityType
    <2> QED  BY <2>2 DEF First, Accepted
  <1>5. ASSUME NEW ch \in Bytes
        PROVE  First(ch + 1) = First(ch) + Cardinality(Equal(ch))
    <2>1. Below(ch + 1) = Below(ch) \cup Equal(ch) /\ Below(ch) \cap Equal(ch) = {}
      BY <1>2 DEF Below, Equal, Bytes
    <2>2. IsFiniteSet(Below(ch)) /\ IsFiniteSet(Equal(ch))
      BY <1>1, FS_Subset DEF Below, Equal
    <2>3. Cardinality(Below(ch)) \in Nat /\ Cardinality(Equal(ch)) \in Nat
          /\ Cardinality(Below(ch + 1)) = Cardinality(Below(ch)) + Cardinality(Equal(ch))
      BY <2>1, <2>2, Disjoint
    <2> QED  BY <2>3 DEF First
  <1>6. ASSUME NEW ch \in 0..Alphabet, NEW d \in 0..Alphabet, ch <= d
        PROVE  First(ch) <= First(d)
    <2>1. Below(ch) \in SUBSET Below(d)
      BY <1>2, <1>6 DEF Below, Bytes
    <2>2. IsFiniteSet(Below(d))
      BY <1>1, FS_Subset DEF Below
    <2>3. Cardinality(Below(ch)) <= Cardinality(Below(d))
          /\ Cardinality(Below(ch)) \in Nat /\ Cardinality(Below(d)) \in Nat
      BY <2>1, <2>2, FS_Subset, FS_CardinalityType
    <2> QED  BY <2>3 DEF First
  <1>7. First(0) = 1 /\ First(Alphabet) = Len(in) + 1
    <2>1. Cardinality(Below(0)) = 0 /\ Cardinality(Below(Alphabet)) = Len(in)
      BY <1>1, <1>3, FS_EmptySet
    <2> QED  BY <2>1 DEF First, Accepted
  <1> QED  BY <1>4, <1>5, <1>6, <1>7

(* The byte that row q of the sorted matrix starts with. *)
Within(q, ch) == First(ch) <= q /\ q < First(ch + 1)
Char(q) == CHOOSE ch \in Bytes : Within(q, ch)

LEMMA CharIs ==
  ASSUME Accepted, NEW q \in 1..Len(in)
  PROVE  /\ Char(q) \in Bytes /\ Within(q, Char(q))
         /\ \A ch \in Bytes : Within(q, ch) => ch = Char(q)
  <1> DEFINE Q == {ch \in 0..Alphabet : q < First(ch)}
  <1>1. Q \in SUBSET Nat /\ Alphabet \in Q
    BY FirstRows DEF Accepted
  <1>2. PICK e \in Q : \A d \in Q : e <= d
    BY <1>1, LeastNatural
  <1>3. e # 0 /\ e - 1 \in Bytes /\ e - 1 \in 0..Alphabet /\ e - 1 + 1 = e
    <2>1. e \in 0..Alphabet /\ q < First(e) /\ First(0) = 1 /\ Alphabet \in Nat /\ q \in Nat \ {0}
      BY <1>2, FirstRows DEF Accepted
    <2>2. e # 0
      BY <2>1
    <2> QED  BY <2>1, <2>2 DEF Bytes
  <1>4. First(e - 1) <= q
    BY <1>2, <1>3, FirstRows
  <1>5. Within(q, e - 1)
    BY <1>2, <1>3, <1>4 DEF Within
  <1>6. Char(q) \in Bytes /\ Within(q, Char(q))
    BY <1>3, <1>5 DEF Char
  <1>7. ASSUME NEW ch \in Bytes, NEW d \in Bytes, Within(q, ch), Within(q, d), ch < d PROVE FALSE
    <2>1. ch + 1 \in 0..Alphabet /\ d \in 0..Alphabet /\ ch + 1 <= d
      BY <1>7 DEF Accepted, Bytes
    <2>2. First(ch + 1) <= First(d) /\ First(ch + 1) \in Int /\ First(d) \in Int
      BY <2>1, FirstRows
    <2> QED  BY <1>7, <2>2 DEF Within
  <1>8. ASSUME NEW ch \in Bytes, Within(q, ch) PROVE ch = Char(q)
    <2>1. ~(ch < Char(q)) /\ ~(Char(q) < ch)
      BY <1>6, <1>7, <1>8
    <2> QED  BY <1>6, <2>1 DEF Bytes, Accepted
  <1> QED  BY <1>6, <1>8

-----------------------------------------------------------------------------
(* The rows that have a byte before them, that byte, and its place in the    *)
(* transform.                                                                *)
Slot(r) == IF r < idx THEN r + 1 ELSE r
Letter(r) == in[Slot(r)]

Earlier(ch, x) == {r \in Rows : r < x /\ Letter(r) = ch}

LEMMA RowsAre ==
  /\ Rows = Rows /\ N = Len(in)
  /\ \A r : L(r) = Letter(r)
  BY DEF Rows, N, L, Letter, Slot

LEMMA LetterIs == ASSUME Accepted, NEW r \in Rows
                  PROVE  Slot(r) \in 1..Len(in) /\ Letter(r) \in Bytes
  <1>1. Slot(r) \in 1..Len(in)
    BY DEF Accepted, Rows, Slot, N
  <1> QED  BY <1>1, ElementOfSeq DEF Accepted, Letter

(* Every place of the transform belongs to a row.                            *)
LEMMA EarlierAll ==
  ASSUME Accepted, NEW ch
  PROVE  Cardinality(Earlier(ch, Len(in) + 1)) = Cardinality(Equal(ch))
  <1> DEFINE S == Equal(ch)
             Q == Earlier(ch, Len(in) + 1)
             f == [x \in S |-> IF x <= idx THEN x - 1 ELSE x]
  <1>1. S \subseteq 1..Len(in) /\ IsFiniteSet(S)
    <2>1. S \subseteq 1..Len(in) /\ S \subseteq 0..Len(in)
      BY DEF Equal, Rows1, Accepted
    <2> QED  BY <2>1, SubsetOfRows
  <1>2. ASSUME NEW x \in S PROVE f[x] \in Q
    BY <1>1 DEF Earlier, Rows, Letter, Slot, Accepted, Equal, N
  <1>3. ASSUME NEW x \in S, NEW y \in S, f[x] = f[y] PROVE x = y
    BY <1>1, <1>3 DEF Accepted
  <1>4. ASSUME NEW r \in Q PROVE \E x \in S : f[x] = r
    <2>1. Slot(r) \in S
      BY LetterIs DEF Earlier, Equal, Rows1, Letter
    <2>2. f[Slot(r)] = r
      BY <2>1 DEF Slot, Accepted, Earlier, Rows, N
    <2> QED  BY <2>1, <2>2
  <1> HIDE DEF f
  <1>5. f \in [S -> Q]
    BY <1>2 DEF f
  <1>6. f \in Bijection(S, Q)
    <2>1. f \in Injection(S, Q)
      BY <1>3, <1>5 DEF Injection, IsInjective
    <2>2. f \in Surjection(S, Q)
      BY <1>4, <1>5 DEF Surjection
    <2> QED  BY <2>1, <2>2 DEF Bijection
  <1> HIDE DEF S, Q
  <1>7. Cardinality(Q) = Cardinality(S)
    BY <1>1, <1>6, FS_Bijection DEF ExistsBijection
  <1> QED  BY <1>7 DEF S, Q

(* The row that starts with the byte before row r, and goes on like row r.   *)
Before(r) == First(Letter(r)) + Cardinality(Earlier(Letter(r), r))

LEMMA BeforeIs ==
  ASSUME Accepted, NEW r \in Rows
  PROVE  /\ Before(r) \in 1..Len(in)
         /\ Letter(r) \in Bytes
         /\ Within(Before(r), Letter(r))
         /\ Char(Before(r)) = Letter(r)
  <1> DEFINE ch == Letter(r)
             S == Earlier(ch, r)
             Q == Earlier(ch, Len(in) + 1)
  <1>1. ch \in Bytes /\ ch \in 0..Alphabet /\ ch + 1 \in 0..Alphabet
    BY LetterIs DEF Bytes, Accepted
  <1>2. r \in 0..Len(in)
    BY DEF Rows, N
  <1>3. S \subseteq Q \ {r} /\ r \in Q /\ Q \subseteq 0..Len(in)
    BY <1>2 DEF Earlier, Rows, Accepted, N
  <1>4. IsFiniteSet(Q) /\ Cardinality(Q) \in Nat
    BY <1>3, SubsetOfRows
  <1>5. IsFiniteSet(Q \ {r}) /\ Cardinality(Q \ {r}) = Cardinality(Q) - 1
    BY <1>3, <1>4, FS_RemoveElement
  <1>6. Cardinality(S) \in Nat /\ Cardinality(S) <= Cardinality(Q) - 1
    BY <1>3, <1>5, FS_Subset, FS_CardinalityType
  <1>7. Cardinality(Q) = Cardinality(Equal(ch))
    BY EarlierAll
  <1>8. First(ch + 1) = First(ch) + Cardinality(Equal(ch)) /\ First(ch) \in 1..Len(in) + 1
        /\ First(ch + 1) \in 1..Len(in) + 1
    BY <1>1, FirstRows
  <1> HIDE DEF ch, S, Q
  <1>9. First(ch) + Cardinality(S) \in 1..Len(in) /\ Within(First(ch) + Cardinality(S), ch)
    <2>1. Len(in) \in Nat
      BY DEF Accepted
    <2> QED  BY <1>4, <1>6, <1>7, <1>8, <2>1 DEF Within
  <1>10. Before(r) = First(ch) + Cardinality(S)
    BY DEF Before, ch, S
  <1> QED  BY <1>1, <1>9, <1>10, CharIs DEF ch

-----------------------------------------------------------------------------
LEMMA PairDigits ==
  ASSUME NEW s \in Nat \ {0}, NEW a \in 0..s - 1, NEW ch \in 0..s - 1
  PROVE  /\ (a * s) + ch \in 0..s * s - 1
         /\ ((a * s) + ch) \div s = a /\ ((a * s) + ch) % s = ch
  <1> DEFINE x == (a * s) + ch
  <1>1. a * s \in Nat /\ (a + 1) * s = a * s + s /\ (a + 1) * s <= s * s /\ s * s \in Nat
    BY Product, ProductAtMost, SMTT(40)
  <1> DEFINE m == a * s
             n == (a + 1) * s
  <1>2. x = m + ch /\ m \in Nat /\ n = m + s
    BY <1>1
  <1>3. x \in Int /\ m <= x /\ x < n
    BY <1>2
  <1>4. a <= x \div s /\ x \div s < a + 1
    BY <1>3, QuotientAbove, QuotientBelow
  <1>5. x \div s = a /\ x % s \in 0..s - 1 /\ x = s * (x \div s) + (x % s)
    <2>1. x \div s \in Int /\ x % s \in 0..s - 1 /\ x = s * (x \div s) + (x % s)
      BY <1>3, Quotient
    <2> DEFINE q == x \div s
    <2>2. q \in Int /\ a <= q /\ q < a + 1
      BY <1>4, <2>1
    <2> HIDE DEF q
    <2>3. q = a
      BY <2>2
    <2> QED  BY <2>1, <2>3 DEF q
  <1>6. s * a = m
    BY ProductAtMost
  <1> HIDE DEF m, n, x
  <1>7. x % s = ch
    BY <1>2, <1>5, <1>6
  <1>8. x \in 0..s * s - 1
    <2> DEFINE q == s * s
    <2>1. n <= q /\ q \in Nat
      BY <1>1 DEF n
    <2> HIDE DEF q
    <2>2. x \in 0..q - 1
      BY <1>2, <1>3, <2>1
    <2> QED  BY <2>2 DEF q
  <1> QED  BY <1>5, <1>7, <1>8 DEF x


LEMMA PairOfDigits ==
  ASSUME Accepted, NEW w \in Pairs
  PROVE  w \div Alphabet \in Bytes /\ w % Alphabet \in Bytes
         /\ w = (w \div Alphabet) * Alphabet + (w % Alphabet)
  <1>1. Alphabet \in Nat \ {0} /\ w \in Int /\ 0 * Alphabet <= w /\ w < Alphabet * Alphabet
    BY Product DEF Accepted, Pairs
  <1>2. 0 <= w \div Alphabet /\ w \div Alphabet < Alphabet
    BY <1>1, QuotientAbove, QuotientBelow
  <1>3. w \div Alphabet \in Int /\ w % Alphabet \in 0..Alphabet - 1
        /\ w = Alphabet * (w \div Alphabet) + (w % Alphabet)
    BY <1>1, Quotient
  <1>4. Alphabet * (w \div Alphabet) = (w \div Alphabet) * Alphabet
    BY <1>1, <1>2, <1>3, ProductAtMost
  <1> QED  BY <1>1, <1>2, <1>3, <1>4 DEF Bytes

(* The rows whose text starts with a byte that has another before it, and    *)
(* the two of them as the decoder counts them.                               *)
Others == (1..Len(in)) \ {idx}
PairOf(q) == Letter(q) * Alphabet + Char(q)

LEMMA PairIs ==
  ASSUME Accepted, NEW q \in Others
  PROVE  /\ q \in Rows /\ q \in 1..Len(in) /\ PairOf(q) \in Pairs
         /\ PairOf(q) \div Alphabet = Letter(q) /\ PairOf(q) % Alphabet = Char(q)
  <1>1. q \in Rows /\ q \in 1..Len(in)
    BY DEF Others, Rows, Accepted, N
  <1>2. Letter(q) \in Bytes /\ Char(q) \in Bytes
    BY <1>1, LetterIs, CharIs
  <1> QED  BY <1>1, <1>2, PairDigits DEF Accepted, Bytes, PairOf, Pairs

WithPair(w) == {q \in Others : PairOf(q) = w}
PairBelow(w) == {q \in Others : PairOf(q) < w}

LEMMA PairCountIs ==
  ASSUME Accepted, NEW w \in Pairs
  PROVE  PairCount[w] = Cardinality(WithPair(w))
  <1> DEFINE a == w \div Alphabet
             ch == w % Alphabet
             S == {r \in Rows : First(ch) <= r /\ r < First(ch + 1) /\ Letter(r) = a}
  <1>1. a \in Bytes /\ ch \in Bytes /\ w = a * Alphabet + ch
        /\ ch \in 0..Alphabet /\ ch + 1 \in 0..Alphabet
    <2>1. a \in Bytes /\ ch \in Bytes /\ w = a * Alphabet + ch
      BY PairOfDigits
    <2> HIDE DEF a, ch
    <2> QED  BY <2>1 DEF Bytes, Accepted
  <1>2. PairCount[w] = Cardinality(S)
    <2>1. \A r : /\ FirstRow[ch] = First(ch) /\ FirstRow[ch + 1] = First(ch + 1)
                 /\ L(r) = Letter(r)
      BY <1>1, FirstIs, RowsAre
    <2>2. {r \in Rows : /\ FirstRow[ch] <= r /\ r < FirstRow[ch + 1]
                          /\ L(r) = a} = S
      BY <2>1, RowsAre
    <2>3. PairCount[w] = Cardinality({r \in Rows :
                              /\ FirstRow[ch] <= r /\ r < FirstRow[ch + 1]
                              /\ L(r) = a})
      BY DEF PairCount, Pairs
    <2> QED  BY <2>2, <2>3
  <1> HIDE DEF a, ch
  <1>3. ASSUME NEW r \in S PROVE r \in WithPair(w)
    <2>1. First(ch) \in 1..Len(in) + 1 /\ r \in Rows
      BY <1>1, FirstRows
    <2>2. r \in Others /\ r \in 1..Len(in)
      BY <2>1 DEF Rows, Others, Accepted, N
    <2>3. Char(r) = ch
      BY <1>1, <2>2, CharIs DEF Within
    <2> QED  BY <1>1, <2>2, <2>3 DEF WithPair, PairOf
  <1>4. ASSUME NEW r \in WithPair(w) PROVE r \in S
    <2>1. /\ r \in Others /\ PairOf(r) = w /\ r \in Rows /\ r \in 1..Len(in)
          /\ Letter(r) = a /\ Char(r) = ch
      BY PairIs DEF WithPair, a, ch
    <2> QED  BY <2>1, CharIs DEF Within
  <1>5. S = WithPair(w)
    <2> HIDE DEF S
    <2>1. S \subseteq WithPair(w) /\ WithPair(w) \subseteq S
      BY <1>3, <1>4
    <2> QED  BY <2>1
  <1> QED  BY <1>2, <1>5

(* Where the rows of each pair begin: after those of smaller pairs and after *)
(* the row of the last byte of the text alone.                               *)
Lead == in[1] * Alphabet
GroupStart(w) == 1 + Cardinality(PairBelow(w)) + (IF w >= Lead THEN 1 ELSE 0)

IsStarts(count, s) ==
  s = [w \in Pairs |-> (IF w = 0 THEN 1 ELSE s[w - 1] + count[w - 1])
                       + (IF w = in[1] * Alphabet THEN 1 ELSE 0)]

LEMMA PairsAre ==
  ASSUME Accepted
  PROVE  Alphabet * Alphabet \in Nat \ {0} /\ 0 \in Pairs /\ Lead \in Pairs
         /\ Alphabet * Alphabet - 1 \in Pairs
         /\ \A w \in Pairs : w \in Nat /\ (w # 0 => w - 1 \in Pairs)
  <1>1. Alphabet \in Nat \ {0} /\ in[1] \in Bytes
    BY ElementOfSeq DEF Accepted
  <1>2. Alphabet * Alphabet \in Nat \ {0}
    BY <1>1, SMTT(40)
  <1>3. in[1] * Alphabet + 0 \in Pairs /\ in[1] * Alphabet \in Int
    <2>1. 0 \in 0..Alphabet - 1 /\ in[1] \in 0..Alphabet - 1 /\ in[1] \in Int
      BY <1>1 DEF Bytes
    <2>2. in[1] * Alphabet + 0 \in Pairs
      BY <1>1, <2>1, PairDigits, Zenon DEF Pairs
    <2> QED  BY <1>1, <2>1, <2>2, Product
  <1> DEFINE q == Alphabet * Alphabet
  <1> HIDE DEF q
  <1>4. 0 \in 0..q - 1 /\ q - 1 \in 0..q - 1
        /\ \A w \in 0..q - 1 : w \in Nat /\ (w # 0 => w - 1 \in 0..q - 1)
    BY <1>2 DEF q
  <1> QED  BY <1>2, <1>3, <1>4 DEF q, Pairs, Lead

LEMMA StartsExist ==
  ASSUME Accepted, NEW count \in [Pairs -> Int]
  PROVE  \E s : IsStarts(count, s)
  <1> DEFINE m == Alphabet * Alphabet - 1
             extra(w) == IF w = in[1] * Alphabet THEN 1 ELSE 0
             F == [d \in Nat \X Int |->
                     IF d[1] \in Pairs THEN d[2] + count[d[1]] + extra(d[1] + 1) ELSE 0]
             x == 1 + extra(0)
  <1>1. m \in Nat /\ Pairs = 0..m
    BY PairsAre DEF Pairs
  <1>2. F \in [Nat \X Int -> Int] /\ x \in Int
    OBVIOUS
  <1> HIDE DEF m
  <1>3. PICK s \in [0..m -> Int] : Iterates(s, x, F, m)
    <2> HIDE DEF F, x
    <2> QED  BY <1>1, <1>2, IterationExists
  <1>4. ASSUME NEW w \in 0..m
        PROVE  s[w] = (IF w = 0 THEN 1 ELSE s[w - 1] + count[w - 1]) + extra(w)
    <2>1. CASE w = 0
      BY <1>3, <2>1 DEF Iterates
    <2>2. CASE w # 0
      <3>1. w - 1 \in 0..m - 1 /\ w - 1 \in Nat /\ w - 1 \in 0..m /\ w - 1 + 1 = w
        BY <1>1, <2>2
      <3>2. s[w] = F[<<w - 1, s[w - 1]>>]
        <4> HIDE DEF F, x
        <4> QED  BY <1>3, <3>1 DEF Iterates
      <3>3. s[w - 1] \in Int
        BY <1>3, <3>1
      <3>4. F[<<w - 1, s[w - 1]>>] = s[w - 1] + count[w - 1] + extra(w)
        BY <1>1, <3>1, <3>3
      <3> QED  BY <2>2, <3>2, <3>4
    <2> QED  BY <2>1, <2>2
  <1>5. IsStarts(count, s)
    BY <1>1, <1>3, <1>4 DEF IsStarts
  <1> QED  BY <1>5

LEMMA StartsAre ==
  ASSUME Accepted, NEW count \in [Pairs -> Int]
  PROVE  IsStarts(count, PairStarts(count))
  <1> DEFINE s == CHOOSE s : IsStarts(count, s)
  <1>1. IsStarts(count, s)
    BY StartsExist
  <1>2. PairStarts(count) = [w \in Pairs |-> s[w]]
    BY DEF PairStarts, Pairs, IsStarts
  <1>3. [w \in Pairs |-> s[w]] = s
    BY <1>1 DEF IsStarts
  <1> QED  BY <1>1, <1>2, <1>3

LEMMA OthersAre ==
  ASSUME Accepted, NEW S, S \subseteq Others
  PROVE  IsFiniteSet(S) /\ Cardinality(S) \in Nat
  <1>1. S \subseteq 0..Len(in)
    BY DEF Others, Accepted
  <1> QED  BY <1>1, SubsetOfRows

LEMMA CountIs ==
  ASSUME Accepted
  PROVE  /\ PairCount \in [Pairs -> Int]
         /\ \A w \in Pairs : PairCount[w] \in Nat
  <1>1. \A w \in Pairs : PairCount[w] \in Nat
    <2> TAKE w \in Pairs
    <2>1. WithPair(w) \subseteq Others
      BY DEF WithPair
    <2> QED  BY <2>1, OthersAre, PairCountIs
  <1>2. PairCount = [w \in Pairs |-> PairCount[w]]
    BY DEF PairCount, Pairs
  <1> QED  BY <1>1, <1>2

LEMMA NextPair ==
  ASSUME Accepted, NEW w \in Pairs
  PROVE  /\ Cardinality(PairBelow(w)) \in Nat /\ Cardinality(WithPair(w)) \in Nat
         /\ Cardinality(PairBelow(w + 1)) = Cardinality(PairBelow(w)) + Cardinality(WithPair(w))
  <1>1. \A q \in Others : PairOf(q) \in Int
    BY PairIs, PairsAre DEF Pairs
  <1>2. PairBelow(w) \subseteq Others /\ WithPair(w) \subseteq Others
    BY DEF WithPair, PairBelow
  <1>3. PairBelow(w + 1) = PairBelow(w) \cup WithPair(w) /\ PairBelow(w) \cap WithPair(w) = {}
    BY <1>1 DEF WithPair, PairBelow, Pairs
  <1> QED  BY <1>2, <1>3, OthersAre, Disjoint

LEMMA GroupStartIs ==
  ASSUME Accepted
  PROVE  /\ PairStarts(PairCount) = [w \in Pairs |-> GroupStart(w)]
         /\ \A w \in Pairs : GroupStart(w) \in Nat
  <1> DEFINE s == PairStarts(PairCount)
             Q == {n \in Nat : n \in Pairs => s[n] = GroupStart(n)}
  <1>1. /\ s = [w \in Pairs |-> s[w]]
        /\ \A w \in Pairs : s[w] = (IF w = 0 THEN 1 ELSE s[w - 1] + PairCount[w - 1])
                                   + (IF w = Lead THEN 1 ELSE 0)
    BY CountIs, StartsAre DEF IsStarts, Lead
  <1> HIDE DEF s
  <1>2. \A w \in Pairs : w \in Nat /\ GroupStart(w) \in Nat
    <2> TAKE w \in Pairs
    <2> QED  BY NextPair, PairsAre DEF GroupStart
  <1>3. 0 \in Q
    <2>1. PairBelow(0) = {}
      BY PairIs DEF PairBelow, Pairs
    <2>2. Cardinality(PairBelow(0)) = 0
      BY <2>1, FS_EmptySet
    <2>3. 0 \in Pairs /\ Lead \in Nat
      BY PairsAre
    <2> QED  BY <1>1, <2>2, <2>3 DEF GroupStart
  <1>4. ASSUME NEW n \in Q PROVE n + 1 \in Q
    <2>0. n \in Nat /\ n + 1 \in Nat
      OBVIOUS
    <2> SUFFICES ASSUME n + 1 \in Pairs PROVE s[n + 1] = GroupStart(n + 1)
      BY <2>0
    <2>1. n \in Nat /\ n \in Pairs /\ n + 1 # 0 /\ n + 1 - 1 = n
      <3>1. n \in Nat /\ n + 1 # 0 /\ n + 1 - 1 = n
        OBVIOUS
      <3> DEFINE kk == n + 1
      <3>2. kk \in Pairs /\ kk # 0
        BY <3>1
      <3> HIDE DEF kk
      <3>3. kk - 1 \in Pairs
        BY <3>2, PairsAre
      <3>4. n + 1 - 1 \in Pairs
        BY <3>3 DEF kk
      <3> QED  BY <3>1, <3>4
    <2>2. s[n + 1] = s[n] + PairCount[n] + (IF n + 1 = Lead THEN 1 ELSE 0)
      <3>1. s[n + 1] = (IF n + 1 = 0 THEN 1 ELSE s[n + 1 - 1] + PairCount[n + 1 - 1])
                       + (IF n + 1 = Lead THEN 1 ELSE 0)
        BY <1>1
      <3> QED  BY <2>1, <3>1
    <2>3. s[n] = GroupStart(n) /\ PairCount[n] = Cardinality(WithPair(n))
      BY <2>1, PairCountIs
    <2>4. Lead \in Nat
      BY PairsAre
    <2> QED  BY <2>1, <2>2, <2>3, <2>4, NextPair DEF GroupStart
  <1>5. Q = Nat
    <2> HIDE DEF Q
    <2>1. Q \in SUBSET Nat
      BY DEF Q
    <2> QED  BY <1>3, <1>4, <2>1, InductionInSet
  <1>6. \A w \in Pairs : s[w] = GroupStart(w)
    BY <1>2, <1>5
  <1>7. s = [w \in Pairs |-> GroupStart(w)]
    BY <1>1, <1>6
  <1> QED  BY <1>2, <1>7 DEF s

-----------------------------------------------------------------------------
(* The tables of biPSI.                                                      *)
Tables == [bucket1 : [0..Alphabet -> Int], bucket2 : [Pairs -> Int],
           p : [0..Len(in) -> 0..Len(in)]]

Set(f, x, y) == [f EXCEPT ![x] = y]

LEMMA SetIs ==
  ASSUME NEW S, NEW Q, NEW f \in [S -> Q], NEW x, NEW y, x \in S => y \in Q
  PROVE  /\ Set(f, x, y) \in [S -> Q]
         /\ x \in S => Set(f, x, y)[x] = y
         /\ \A z \in S : z # x => Set(f, x, y)[z] = f[z]
  BY DEF Set

TablesOf(x, y, z)  == [bucket1 |-> x, bucket2 |-> y, p |-> z]
Moved(s, ch, v)     == [s EXCEPT !.bucket1[ch] = v]
Put(s, o, r, w, v) == [s EXCEPT !.p[o] = r, !.bucket2[w] = v]

LEMMA MovedIs ==
  ASSUME NEW x, NEW y, NEW z, NEW ch, NEW v
  PROVE  Moved(TablesOf(x, y, z), ch, v) = TablesOf(Set(x, ch, v), y, z)
  BY DEF TablesOf, Moved, Set

LEMMA PutIs ==
  ASSUME NEW x, NEW y, NEW z, NEW r, NEW w, NEW o, NEW v
  PROVE  Put(TablesOf(x, y, z), o, r, w, v) = TablesOf(x, Set(y, w, v), Set(z, o, r))
  <1> DEFINE a == TablesOf(x, y, z)
             m == [a EXCEPT !.p[o] = r]
  <1>1. m = TablesOf(x, y, Set(z, o, r))
    BY DEF TablesOf, Set
  <1>2. Put(a, o, r, w, v) = [m EXCEPT !.bucket2[w] = v]
    BY DEF TablesOf, Put
  <1> HIDE DEF a, m
  <1>3. [m EXCEPT !.bucket2[w] = v] = TablesOf(x, Set(y, w, v), Set(z, o, r))
    BY <1>1 DEF TablesOf, Set
  <1> QED  BY <1>2, <1>3 DEF a

LEMMA BiPSIIs ==
  ASSUME Accepted, NEW s \in Tables, NEW r \in 0..Len(in),
         NEW ch, ch = Letter(r), NEW q, q = s.bucket1[ch], NEW w, w = Letter(q) * Alphabet + ch
  PROVE  LET u == BiPSI(s, r)
         IN  /\ u \in Tables
             /\ r = idx => u = s
             /\ r # idx => u.bucket1 = Set(s.bucket1, ch, q + 1)
             /\ r # idx /\ q = idx => u.bucket2 = s.bucket2 /\ u.p = s.p
             /\ r # idx /\ q # idx =>
                  /\ u.bucket2 = Set(s.bucket2, w, s.bucket2[w] + 1)
                  /\ u.p = Set(s.p, s.bucket2[w], r)
  <1> DEFINE u == BiPSI(s, r)
             t == Moved(s, ch, q + 1)
             v == Put(t, t.bucket2[w], r, w, t.bucket2[w] + 1)
  <1>1. u = IF r = idx THEN s ELSE IF q = idx THEN t ELSE v
    BY RowsAre DEF BiPSI, Moved, Put
  <1>2. CASE r = idx
    BY <1>1, <1>2
  <1>3. CASE r # idx
    <2>1. r \in Rows
      BY <1>3 DEF Rows, N
    <2>2. ch \in Bytes /\ ch \in 0..Alphabet
      BY <2>1, LetterIs DEF Accepted, Bytes
    <2>3. /\ s = TablesOf(s.bucket1, s.bucket2, s.p)
          /\ s.bucket1 \in [0..Alphabet -> Int] /\ s.bucket2 \in [Pairs -> Int]
          /\ s.p \in [0..Len(in) -> 0..Len(in)]
      BY DEF Tables, TablesOf
    <2>4. q \in Int
      BY <2>2, <2>3
    <2> DEFINE b == Set(s.bucket1, ch, q + 1)
               d == Set(s.bucket2, w, s.bucket2[w] + 1)
               e == Set(s.p, s.bucket2[w], r)
    <2>5. b \in [0..Alphabet -> Int] /\ d \in [Pairs -> Int] /\ e \in [0..Len(in) -> 0..Len(in)]
      <3>1. q + 1 \in Int /\ (w \in Pairs => s.bucket2[w] + 1 \in Int)
        BY <2>3, <2>4
      <3>2. b \in [0..Alphabet -> Int]
        BY <2>3, <3>1, SetIs
      <3>3. d \in [Pairs -> Int]
        <4> DEFINE y == s.bucket2[w] + 1
                   f == s.bucket2
        <4>1. f \in [Pairs -> Int] /\ (w \in Pairs => y \in Int)
          BY <2>3, <3>1
        <4> HIDE DEF y, f
        <4>2. Set(f, w, y) \in [Pairs -> Int]
          BY <4>1, SetIs
        <4> QED  BY <4>2 DEF y, f
      <3>4. e \in [0..Len(in) -> 0..Len(in)]
        BY <2>3, SetIs
      <3> QED  BY <3>2, <3>3, <3>4
    <2>6. t = TablesOf(b, s.bucket2, s.p)
      BY <2>3, MovedIs
    <2>7. t.bucket2 = s.bucket2
      BY <2>6 DEF TablesOf
    <2>8. v = TablesOf(b, d, e)
      BY <2>6, <2>7, PutIs
    <2> HIDE DEF b, d, e, t, v, u
    <2>9. CASE q = idx
      <3>1. u = [bucket1 |-> b, bucket2 |-> s.bucket2, p |-> s.p]
        BY <1>1, <1>3, <2>6, <2>9 DEF TablesOf
      <3>2. u \in Tables /\ u.bucket1 = b /\ u.bucket2 = s.bucket2 /\ u.p = s.p
        BY <2>3, <2>5, <3>1 DEF Tables
      <3> QED  BY <1>3, <2>9, <3>2 DEF u, b
    <2>10. CASE q # idx
      <3>1. u = [bucket1 |-> b, bucket2 |-> d, p |-> e]
        BY <1>1, <1>3, <2>8, <2>10 DEF TablesOf
      <3>2. u \in Tables /\ u.bucket1 = b /\ u.bucket2 = d /\ u.p = e
        BY <2>5, <3>1 DEF Tables
      <3> QED  BY <1>3, <2>10, <3>2 DEF u, b, d, e
    <2> QED  BY <2>9, <2>10
  <1> QED  BY <1>2, <1>3

Tables0 == [bucket1 |-> FirstRow, bucket2 |-> PairStarts(PairCount),
            p |-> [x \in 0..N |-> 0]]

IsLoop(f) ==
  f = [x \in 0..Len(in) + 1 |-> IF x = 0 THEN Tables0 ELSE BiPSI(f[x - 1], x - 1)]

LEMMA Tables0Is ==
  ASSUME Accepted
  PROVE  /\ Tables0 \in Tables
         /\ \A ch \in 0..Alphabet : Tables0.bucket1[ch] = First(ch)
         /\ \A w \in Pairs : Tables0.bucket2[w] = GroupStart(w)
  <1>1. FirstRow = [ch \in 0..Alphabet |-> FirstRow[ch]]
    BY DEF FirstRow
  <1>2. FirstRow \in [0..Alphabet -> Int] /\ \A ch \in 0..Alphabet : FirstRow[ch] = First(ch)
    BY <1>1, FirstIs, FirstRows
  <1>3. [w \in Pairs |-> GroupStart(w)] \in [Pairs -> Int]
    BY GroupStartIs
  <1>4. [x \in 0..Len(in) |-> 0] \in [0..Len(in) -> 0..Len(in)]
    BY DEF Accepted
  <1>5. Tables0 = [bucket1 |-> FirstRow, bucket2 |-> [w \in Pairs |-> GroupStart(w)],
                   p |-> [x \in 0..Len(in) |-> 0]]
    BY GroupStartIs, RowsAre DEF Tables0
  <1> QED  BY <1>2, <1>3, <1>4, <1>5 DEF Tables

LEMMA LoopExists ==
  ASSUME Accepted
  PROVE  \E f : IsLoop(f)
  <1> DEFINE n == Len(in)
             F == [d \in Nat \X Tables |-> IF d[1] \in 0..n THEN BiPSI(d[2], d[1]) ELSE d[2]]
  <1>1. n \in Nat /\ n + 1 \in Nat
    BY DEF Accepted
  <1>2. \A s \in Tables, r \in 0..n : BiPSI(s, r) \in Tables
    BY BiPSIIs
  <1>3. F \in [Nat \X Tables -> Tables]
    BY <1>2
  <1> HIDE DEF F
  <1>4. PICK f \in [0..n + 1 -> Tables] : Iterates(f, Tables0, F, n + 1)
    <2> HIDE DEF n
    <2> QED  BY <1>1, <1>3, Tables0Is, IterationExists
  <1>5. ASSUME NEW x \in 0..n + 1
        PROVE  f[x] = IF x = 0 THEN Tables0 ELSE BiPSI(f[x - 1], x - 1)
    <2>1. CASE x = 0
      BY <1>4, <2>1 DEF Iterates
    <2>2. CASE x # 0
      <3>1. x - 1 \in 0..n + 1 - 1 /\ x - 1 \in Nat /\ x - 1 \in 0..n /\ x - 1 \in 0..n + 1
            /\ x - 1 + 1 = x
        BY <1>1, <2>2
      <3>2. f[x] = F[<<x - 1, f[x - 1]>>]
        BY <1>4, <3>1 DEF Iterates
      <3>3. f[x - 1] \in Tables
        BY <1>4, <3>1
      <3>4. F[<<x - 1, f[x - 1]>>] = BiPSI(f[x - 1], x - 1)
        BY <3>1, <3>3 DEF F
      <3> QED  BY <2>2, <3>2, <3>4
    <2> QED  BY <2>1, <2>2
  <1>6. IsLoop(f)
    BY <1>4, <1>5 DEF IsLoop
  <1> QED  BY <1>6

(* What biPSI leaves. *)
Prepared == Up(BiPSI, Tables0, N + 1)

LEMMA LoopAre ==
  ASSUME Accepted
  PROVE  \E f : IsLoop(f) /\ Prepared = f[Len(in) + 1]
  <1> DEFINE f == CHOOSE f : IsLoop(f)
  <1>1. IsLoop(f)
    BY LoopExists
  <1>2. N = Len(in)
    BY RowsAre
  <1>3. Prepared = f[Len(in) + 1]
    BY <1>2 DEF Prepared, Up, IsLoop
  <1> QED  BY <1>1, <1>3

-----------------------------------------------------------------------------
(* Where biPSI puts the row that has row q before it.                        *)
Placed(w, b) == {q \in WithPair(w) : q < b}
Spot(q) == GroupStart(PairOf(q)) + Cardinality(Placed(PairOf(q), q))

AtRow(s, x) ==
  /\ s \in Tables
  /\ \A ch \in Bytes : s.bucket1[ch] = First(ch) + Cardinality(Earlier(ch, x))
  /\ \A w \in Pairs : s.bucket2[w] = GroupStart(w) + Cardinality(Placed(w, s.bucket1[w % Alphabet]))
  /\ \A r \in Rows : r < x /\ Before(r) # idx => s.p[Spot(Before(r))] = r

LEMMA EarlierGrows ==
  ASSUME Accepted, NEW ch, NEW x \in 0..Len(in)
  PROVE  /\ Cardinality(Earlier(ch, x)) \in Nat
         /\ Cardinality(Earlier(ch, x + 1)) =
              Cardinality(Earlier(ch, x)) + (IF x \in Rows /\ Letter(x) = ch THEN 1 ELSE 0)
  <1> DEFINE S == Earlier(ch, x)
  <1>1. IsFiniteSet(S) /\ Cardinality(S) \in Nat /\ x \notin S
    <2>1. S \subseteq 0..Len(in) /\ x \notin S
      BY DEF Earlier, Rows, Accepted, N
    <2> QED  BY <2>1, SubsetOfRows
  <1>2. Earlier(ch, x + 1) = IF x \in Rows /\ Letter(x) = ch THEN S \cup {x} ELSE S
    BY DEF Earlier, Rows, Accepted, N
  <1> HIDE DEF S
  <1>3. CASE x \in Rows /\ Letter(x) = ch
    <2>1. Cardinality(S \cup {x}) = Cardinality(S) + 1
      BY <1>1, FS_AddElement
    <2> QED  BY <1>1, <1>2, <1>3, <2>1 DEF S
  <1>4. CASE ~(x \in Rows /\ Letter(x) = ch)
    BY <1>1, <1>2, <1>4 DEF S
  <1> QED  BY <1>3, <1>4

LEMMA PlacedGrows ==
  ASSUME Accepted, NEW w \in Pairs, NEW b \in 1..Len(in)
  PROVE  /\ Cardinality(Placed(w, b)) \in Nat
         /\ Cardinality(Placed(w, b + 1)) =
              Cardinality(Placed(w, b)) + (IF b \in WithPair(w) THEN 1 ELSE 0)
  <1> DEFINE S == Placed(w, b)
  <1>1. IsFiniteSet(S) /\ Cardinality(S) \in Nat /\ b \notin S
    <2>1. S \subseteq Others /\ b \notin S
      BY DEF Placed, WithPair, Others, Accepted
    <2> QED  BY <2>1, OthersAre
  <1>2. Placed(w, b + 1) = IF b \in WithPair(w) THEN S \cup {b} ELSE S
    BY DEF Placed, WithPair, Others, Accepted
  <1> HIDE DEF S
  <1>3. CASE b \in WithPair(w)
    <2>1. Cardinality(S \cup {b}) = Cardinality(S) + 1
      BY <1>1, FS_AddElement
    <2> QED  BY <1>1, <1>2, <1>3, <2>1 DEF S
  <1>4. CASE b \notin WithPair(w)
    BY <1>1, <1>2, <1>4 DEF S
  <1> QED  BY <1>3, <1>4

(* Rows with the same byte before them keep their order, and so do rows with *)
(* the same pair.                                                            *)
LEMMA BeforeApart ==
  ASSUME Accepted, NEW r \in Rows, NEW t \in Rows, r < t
  PROVE  Before(r) # Before(t)
  <1>1. /\ Before(r) \in 1..Len(in) /\ Before(t) \in 1..Len(in)
        /\ Char(Before(r)) = Letter(r) /\ Char(Before(t)) = Letter(t)
    BY BeforeIs
  <1>2. CASE Letter(r) # Letter(t)
    BY <1>1, <1>2
  <1>3. CASE Letter(r) = Letter(t)
    <2> DEFINE ch == Letter(r)
    <2>1. ch \in Bytes /\ r \in 0..Len(in) /\ t \in 0..Len(in) /\ ch \in 0..Alphabet
      BY LetterIs DEF Rows, Bytes, Accepted, N
    <2>2. Cardinality(Earlier(ch, r)) \in Nat
          /\ Cardinality(Earlier(ch, r + 1)) = Cardinality(Earlier(ch, r)) + 1
      BY <2>1, EarlierGrows
    <2>3. Earlier(ch, r + 1) \subseteq Earlier(ch, t)
      BY <2>1 DEF Earlier, Rows, N
    <2>4. IsFiniteSet(Earlier(ch, t)) /\ Cardinality(Earlier(ch, t)) \in Nat
      <3>1. Earlier(ch, t) \subseteq 0..Len(in)
        BY DEF Earlier, Rows, N
      <3> QED  BY <3>1, SubsetOfRows
    <2>5. Cardinality(Earlier(ch, r + 1)) <= Cardinality(Earlier(ch, t))
      BY <2>3, <2>4, FS_Subset
    <2>6. First(ch) \in Int
      BY <2>1, FirstRows
    <2>7. /\ Before(r) = First(ch) + Cardinality(Earlier(ch, r))
          /\ Before(t) = First(ch) + Cardinality(Earlier(ch, t))
      BY <1>3 DEF Before
    <2> HIDE DEF ch
    <2> QED  BY <2>2, <2>4, <2>5, <2>6, <2>7
  <1> QED  BY <1>2, <1>3

LEMMA SpotIs ==
  ASSUME Accepted, NEW q \in Others
  PROVE  /\ Spot(q) \in Nat
         /\ GroupStart(PairOf(q)) <= Spot(q)
         /\ Spot(q) < GroupStart(PairOf(q)) + Cardinality(WithPair(PairOf(q)))
  <1> DEFINE w == PairOf(q)
             S == Placed(w, q)
             Q == WithPair(w)
  <1>1. w \in Pairs /\ q \in Q /\ q \notin S /\ S \subseteq Q \ {q} /\ Q \subseteq Others
    <2>1. w \in Pairs /\ q \in 1..Len(in)
      BY PairIs
    <2> QED  BY <2>1 DEF WithPair, Placed, Accepted
  <1>2. IsFiniteSet(Q) /\ Cardinality(Q) \in Nat
    BY <1>1, OthersAre
  <1>3. IsFiniteSet(Q \ {q}) /\ Cardinality(Q \ {q}) = Cardinality(Q) - 1
    BY <1>1, <1>2, FS_RemoveElement
  <1>4. Cardinality(S) <= Cardinality(Q) - 1 /\ Cardinality(S) \in Nat
    BY <1>1, <1>3, FS_Subset, FS_CardinalityType
  <1>5. GroupStart(w) \in Nat /\ Spot(q) = GroupStart(w) + Cardinality(S)
    BY <1>1, GroupStartIs DEF Spot
  <1> HIDE DEF w, S, Q
  <1>6. Spot(q) \in Nat /\ GroupStart(w) <= Spot(q) /\ Spot(q) < GroupStart(w) + Cardinality(Q)
    BY <1>2, <1>4, <1>5
  <1> QED  BY <1>6 DEF w, Q

(* A larger pair starts after all rows of a smaller one. *)
LEMMA StartsInOrder ==
  ASSUME Accepted, NEW v \in Pairs, NEW w \in Pairs, v < w
  PROVE  GroupStart(v) + Cardinality(WithPair(v)) <= GroupStart(w)
  <1>1. /\ Cardinality(PairBelow(v)) \in Nat /\ Cardinality(WithPair(v)) \in Nat
        /\ Cardinality(PairBelow(v + 1)) = Cardinality(PairBelow(v)) + Cardinality(WithPair(v))
    BY NextPair
  <1>2. PairBelow(v + 1) \subseteq PairBelow(w) /\ PairBelow(w) \subseteq Others
    <2>1. \A q \in Others : PairOf(q) \in Int
      BY PairIs, PairsAre DEF Pairs
    <2>2. v \in Int /\ w \in Int
      BY PairsAre
    <2> QED  BY <2>1, <2>2 DEF PairBelow
  <1>3. IsFiniteSet(PairBelow(w)) /\ Cardinality(PairBelow(w)) \in Nat
    BY <1>2, OthersAre
  <1>4. Cardinality(PairBelow(v + 1)) <= Cardinality(PairBelow(w))
    BY <1>2, <1>3, FS_Subset
  <1>5. v \in Nat /\ w \in Nat /\ Lead \in Nat
    BY PairsAre
  <1> QED  BY <1>1, <1>3, <1>4, <1>5 DEF GroupStart

(* There is a place for every row. *)
LEMMA LastStart ==
  ASSUME Accepted
  PROVE  /\ \A w \in Pairs : GroupStart(w) + Cardinality(WithPair(w)) <= Len(in) + 1
         /\ LET w == Alphabet * Alphabet - 1
            IN  GroupStart(w) + Cardinality(WithPair(w)) = Len(in) + 1
  <1>1. IsFiniteSet(Others) /\ Cardinality(Others) = Len(in) - 1 /\ Len(in) \in Nat
    <2>1. 1 \in Int /\ Len(in) \in Nat /\ Len(in) \in Int /\ ~(1 > Len(in)) /\ Len(in) - 1 + 1 = Len(in)
          /\ idx \in 1..Len(in)
      BY DEF Accepted
    <2>2. IsFiniteSet(1..Len(in)) /\ Cardinality(1..Len(in)) = Len(in)
      BY <2>1, FS_Interval, Zenon
    <2> QED  BY <2>1, <2>2, FS_RemoveElement, ZenonT(60) DEF Others
  <1>2. ASSUME NEW w \in Pairs
        PROVE  /\ GroupStart(w) + Cardinality(WithPair(w))
                    = 1 + Cardinality(PairBelow(w + 1)) + (IF w >= Lead THEN 1 ELSE 0)
               /\ Cardinality(PairBelow(w + 1)) \in Nat
               /\ Cardinality(PairBelow(w + 1)) <= Len(in) - 1
               /\ w \in Nat /\ Lead \in Nat
    <2>1. PairBelow(w + 1) \in SUBSET Others
      BY DEF PairBelow
    <2>2. Cardinality(PairBelow(w + 1)) \in Nat /\ Cardinality(PairBelow(w + 1)) <= Len(in) - 1
      BY <1>1, <2>1, FS_Subset, FS_CardinalityType
    <2>3. w \in Nat /\ Lead \in Nat
      BY PairsAre
    <2> QED  BY <2>2, <2>3, NextPair DEF GroupStart
  <1>3. \A w \in Pairs : GroupStart(w) + Cardinality(WithPair(w)) <= Len(in) + 1
    BY <1>1, <1>2
  <1> DEFINE e == Alphabet * Alphabet - 1
  <1>4. e \in Pairs /\ Lead <= e /\ PairBelow(e + 1) = Others
    <2>1. e \in Pairs
      BY PairsAre
    <2>2. \A w \in Pairs : w <= e /\ w < e + 1
      BY PairsAre DEF Pairs
    <2> HIDE DEF e
    <2>3. Lead <= e
      BY <2>2, PairsAre
    <2> QED  BY <2>1, <2>2, <2>3, PairIs DEF PairBelow
  <1>5. GroupStart(e) + Cardinality(WithPair(e)) = Len(in) + 1
    <2> HIDE DEF e
    <2> QED  BY <1>1, <1>2, <1>4
  <1> QED  BY <1>3, <1>5

LEMMA SpotInside ==
  ASSUME Accepted, NEW q \in Others
  PROVE  Spot(q) \in 1..Len(in)
  <1>1. PairOf(q) \in Pairs
    BY PairIs
  <1>2. /\ GroupStart(PairOf(q)) + Cardinality(WithPair(PairOf(q))) <= Len(in) + 1
        /\ Cardinality(WithPair(PairOf(q))) \in Nat /\ GroupStart(PairOf(q)) \in Nat
        /\ GroupStart(PairOf(q)) >= 1
    BY <1>1, LastStart, NextPair, GroupStartIs DEF GroupStart
  <1> QED  BY <1>2, SpotIs DEF Accepted

LEMMA SpotsApart ==
  ASSUME Accepted, NEW q \in Others, NEW t \in Others, q # t
  PROVE  Spot(q) # Spot(t)
  <1>0. \A v, w \in Others : v < w /\ PairOf(v) = PairOf(w) => Spot(v) # Spot(w)
    <2> TAKE v, w \in Others
    <2> HAVE v < w /\ PairOf(v) = PairOf(w)
    <2> DEFINE kk == PairOf(v)
    <2>1. kk \in Pairs /\ v \in 1..Len(in) /\ w \in 1..Len(in) /\ v \in WithPair(kk)
      BY PairIs DEF WithPair
    <2>2. Cardinality(Placed(kk, v)) \in Nat
          /\ Cardinality(Placed(kk, v + 1)) = Cardinality(Placed(kk, v)) + 1
      BY <2>1, PlacedGrows
    <2>3. Placed(kk, v + 1) \subseteq Placed(kk, w) /\ Placed(kk, w) \subseteq Others
      BY <2>1 DEF Placed, WithPair, Others
    <2>4. IsFiniteSet(Placed(kk, w)) /\ Cardinality(Placed(kk, w)) \in Nat
      BY <2>3, OthersAre
    <2>5. Cardinality(Placed(kk, v + 1)) <= Cardinality(Placed(kk, w))
      BY <2>3, <2>4, FS_Subset
    <2>6. GroupStart(kk) \in Nat
      BY <2>1, GroupStartIs
    <2>7. Spot(v) = GroupStart(kk) + Cardinality(Placed(kk, v))
          /\ Spot(w) = GroupStart(kk) + Cardinality(Placed(kk, w))
      BY DEF Spot
    <2> HIDE DEF kk
    <2> QED  BY <2>2, <2>4, <2>5, <2>6, <2>7
  <1>1. q \in Nat /\ t \in Nat
    BY DEF Others
  <1>2. CASE PairOf(q) = PairOf(t)
    BY <1>0, <1>1, <1>2
  <1>3. CASE PairOf(q) # PairOf(t)
    <2>1. PairOf(q) \in Pairs /\ PairOf(t) \in Pairs /\ PairOf(q) \in Nat /\ PairOf(t) \in Nat
      BY PairIs, PairsAre
    <2>2. /\ GroupStart(PairOf(q)) \in Nat /\ GroupStart(PairOf(t)) \in Nat
          /\ Cardinality(WithPair(PairOf(q))) \in Nat
          /\ Cardinality(WithPair(PairOf(t))) \in Nat
      BY <2>1, NextPair, GroupStartIs
    <2>3. CASE PairOf(q) < PairOf(t)
      BY <2>1, <2>2, <2>3, SpotIs, StartsInOrder
    <2>4. CASE PairOf(t) < PairOf(q)
      BY <2>1, <2>2, <2>4, SpotIs, StartsInOrder
    <2> QED  BY <1>3, <2>1, <2>3, <2>4
  <1> QED  BY <1>2, <1>3

LEMMA AtRowBegins ==
  ASSUME Accepted
  PROVE  AtRow(Tables0, 0)
  <1>1. \A ch \in Bytes : Tables0.bucket1[ch] = First(ch) + Cardinality(Earlier(ch, 0))
    <2> TAKE ch \in Bytes
    <2>1. Earlier(ch, 0) = {}
      BY DEF Earlier, Rows, N
    <2>2. ch \in 0..Alphabet
      BY DEF Bytes, Accepted
    <2>3. First(ch) \in Int
      BY <2>2, FirstRows
    <2>4. Cardinality(Earlier(ch, 0)) = 0
      BY <2>1, FS_EmptySet
    <2> QED  BY <2>2, <2>3, <2>4, Tables0Is
  <1>2. \A w \in Pairs :
          Tables0.bucket2[w] = GroupStart(w) + Cardinality(Placed(w, Tables0.bucket1[w % Alphabet]))
    <2> TAKE w \in Pairs
    <2> DEFINE ch == w % Alphabet
               b == Tables0.bucket1[ch]
    <2>1. ch \in Bytes /\ ch \in 0..Alphabet /\ ch + 1 \in 0..Alphabet
      <3>1. ch \in Bytes
        BY PairOfDigits
      <3> HIDE DEF ch
      <3> QED  BY <3>1 DEF Bytes, Accepted
    <2>2. b = First(ch)
      BY <2>1, Tables0Is
    <2>3. ASSUME NEW q \in Placed(w, b) PROVE FALSE
      <3>1. q \in Others /\ q \in 1..Len(in) /\ Char(q) = ch
        BY PairIs DEF Placed, WithPair
      <3>2. First(ch) <= q /\ q < b
        BY <3>1, CharIs DEF Within, Placed
      <3>3. First(ch) \in Int
        BY <2>1, FirstRows
      <3> QED  BY <2>2, <3>1, <3>2, <3>3
    <2> HIDE DEF b
    <2>4. Cardinality(Placed(w, b)) = 0
      BY <2>3, FS_EmptySet
    <2>5. Tables0.bucket2[w] = GroupStart(w) /\ GroupStart(w) \in Nat
      BY Tables0Is, GroupStartIs
    <2> QED  BY <2>4, <2>5 DEF b
  <1>3. \A r \in Rows : ~(r < 0)
    BY DEF Rows, Accepted, N
  <1> QED  BY <1>1, <1>2, <1>3, Tables0Is DEF AtRow

LEMMA AtNextRow ==
  ASSUME Accepted, NEW x \in 0..Len(in), NEW s, AtRow(s, x)
  PROVE  AtRow(BiPSI(s, x), x + 1)
  <1> DEFINE ch == Letter(x)
             q == s.bucket1[ch]
             w == Letter(q) * Alphabet + ch
             u == BiPSI(s, x)
  <1>0. s \in Tables /\ x \in Int
    BY DEF AtRow
  <1>1. /\ u \in Tables
        /\ x = idx => u = s
        /\ x # idx => u.bucket1 = Set(s.bucket1, ch, q + 1)
        /\ x # idx /\ q = idx => u.bucket2 = s.bucket2 /\ u.p = s.p
        /\ x # idx /\ q # idx =>
             /\ u.bucket2 = Set(s.bucket2, w, s.bucket2[w] + 1)
             /\ u.p = Set(s.p, s.bucket2[w], x)
    BY <1>0, BiPSIIs
  <1> HIDE DEF u
  <1>2. CASE x = idx
    <2>1. x \notin Rows
      BY <1>2 DEF Rows, N
    <2>2. \A d \in Bytes : Cardinality(Earlier(d, x + 1)) = Cardinality(Earlier(d, x))
      <3> TAKE d \in Bytes
      <3> QED  BY <2>1, EarlierGrows
    <2>3. \A r \in Rows : r < x + 1 => r < x
      BY <1>2 DEF Rows, Accepted, N
    <2>4. u = s
      BY <1>1, <1>2
    <2>5. AtRow(s, x + 1)
      BY <2>2, <2>3 DEF AtRow
    <2> QED  BY <2>4, <2>5 DEF u
  <1>3. CASE x # idx
    <2>1. x \in Rows
      BY <1>3 DEF Rows, N
    <2>2. ch \in Bytes /\ ch \in 0..Alphabet
      BY <2>1, LetterIs DEF Bytes, Accepted
    <2>3. q = Before(x) /\ q \in 1..Len(in) /\ Char(q) = ch
      BY <2>1, <2>2, BeforeIs DEF AtRow, Before
    <2>4. /\ s.bucket1 \in [0..Alphabet -> Int] /\ s.bucket2 \in [Pairs -> Int]
          /\ s.p \in [0..Len(in) -> 0..Len(in)]
      BY <1>0 DEF Tables
    <2>5. /\ u.bucket1[ch] = q + 1
          /\ \A d \in Bytes : d # ch => u.bucket1[d] = s.bucket1[d]
      <3>1. q + 1 \in Int
        BY <2>3
      <3>2. \A d \in Bytes : d \in 0..Alphabet
        BY DEF Bytes, Accepted
      <3>3. u.bucket1 = Set(s.bucket1, ch, q + 1)
        BY <1>1, <1>3
      <3> DEFINE f == s.bucket1
                 g == u.bucket1
                 y == q + 1
      <3>4. g = Set(f, ch, y) /\ f \in [0..Alphabet -> Int] /\ y \in Int
        BY <2>4, <3>1, <3>3
      <3> HIDE DEF ch, q, f, g, y
      <3>5. g[ch] = y /\ \A d \in 0..Alphabet : d # ch => g[d] = f[d]
        BY <2>2, <3>4 DEF Set
      <3> QED  BY <3>2, <3>5 DEF f, g, y
    <2>6. \A d \in Bytes : u.bucket1[d] = First(d) + Cardinality(Earlier(d, x + 1))
      <3> TAKE d \in Bytes
      <3>1. d \in 0..Alphabet
        BY DEF Bytes, Accepted
      <3>2. First(d) \in Int /\ Cardinality(Earlier(d, x)) \in Nat
            /\ Cardinality(Earlier(d, x + 1)) =
                 Cardinality(Earlier(d, x)) + (IF x \in Rows /\ Letter(x) = d THEN 1 ELSE 0)
        BY <3>1, FirstRows, EarlierGrows
      <3>3. s.bucket1[d] = First(d) + Cardinality(Earlier(d, x))
        BY DEF AtRow
      <3>4. CASE d = ch
        BY <2>1, <2>5, <3>2, <3>3, <3>4
      <3>5. CASE d # ch
        BY <2>1, <2>5, <3>2, <3>3, <3>5
      <3> QED  BY <3>4, <3>5
    <2> HIDE DEF ch, q
    <2>7. ASSUME NEW v \in Pairs
          PROVE  /\ v % Alphabet \in Bytes
                 /\ v % Alphabet = ch =>
                      Cardinality(Placed(v, q + 1)) =
                        Cardinality(Placed(v, q)) + (IF q # idx /\ v = w THEN 1 ELSE 0)
                 /\ Cardinality(Placed(v, q)) \in Nat
                 /\ s.bucket2[v] = GroupStart(v) + Cardinality(Placed(v, s.bucket1[v % Alphabet]))
                 /\ GroupStart(v) \in Nat
      <3>1. v % Alphabet \in Bytes /\ GroupStart(v) \in Nat
        BY PairOfDigits, GroupStartIs
      <3>2. Cardinality(Placed(v, q + 1)) =
              Cardinality(Placed(v, q)) + (IF q \in WithPair(v) THEN 1 ELSE 0)
            /\ Cardinality(Placed(v, q)) \in Nat
        BY <2>3, PlacedGrows
      <3>3. q \in WithPair(v) <=> q # idx /\ v = w
        <4>1. q \in Others => PairOf(q) = w
          BY <2>3 DEF PairOf, w
        <4>2. q \in Others <=> q # idx
          BY <2>3 DEF Others
        <4> QED  BY <4>1, <4>2 DEF WithPair
      <3>4. s.bucket2[v] = GroupStart(v) + Cardinality(Placed(v, s.bucket1[v % Alphabet]))
        BY DEF AtRow
      <3> QED  BY <3>1, <3>2, <3>3, <3>4
    <2>8. q # idx => /\ w \in Pairs /\ w % Alphabet = ch /\ q \in Others
                     /\ PairOf(q) = w /\ s.bucket2[w] = Spot(q)
      <3> HAVE q # idx
      <3>1. q \in Others /\ PairOf(q) = w
        BY <2>3 DEF PairOf, w, Others
      <3>2. w \in Pairs /\ w % Alphabet = ch
        BY <2>3, <3>1, PairIs
      <3>3. s.bucket2[w] = GroupStart(w) + Cardinality(Placed(w, s.bucket1[ch]))
        BY <2>7, <3>2
      <3> QED  BY <3>1, <3>2, <3>3 DEF Spot, q
    <2>9. q = s.bucket1[ch]
      BY DEF q
    <2> HIDE DEF w
    <2>10. \A v \in Pairs :
             u.bucket2[v] = GroupStart(v) + Cardinality(Placed(v, u.bucket1[v % Alphabet]))
      <3> TAKE v \in Pairs
      <3>1. u.bucket2[v] = s.bucket2[v] + (IF q # idx /\ v = w THEN 1 ELSE 0)
        <4>1. s.bucket2[v] \in Int
          BY <2>4
        <4>2. CASE q = idx
          BY <1>1, <1>3, <2>9, <4>1, <4>2 DEF q, ch
        <4>3. CASE q # idx
          <5>1. u.bucket2 = Set(s.bucket2, w, s.bucket2[w] + 1)
            BY <1>1, <1>3, <4>3 DEF q, ch, w
          <5>2. s.bucket2[w] + 1 \in Int /\ w \in Pairs
            BY <2>4, <2>8, <4>3
          <5> DEFINE f == s.bucket2
                     g == u.bucket2
                     y == s.bucket2[w] + 1
          <5>3. g = Set(f, w, y) /\ f \in [Pairs -> Int] /\ y \in Int /\ w \in Pairs
            BY <2>4, <5>1, <5>2
          <5> HIDE DEF f, g, y
          <5>4. g[w] = y /\ \A z \in Pairs : z # w => g[z] = f[z]
            BY <5>3 DEF Set
          <5>5. CASE v = w
            BY <4>3, <5>4, <5>5 DEF f, g, y
          <5>6. CASE v # w
            BY <4>1, <5>4, <5>6 DEF f, g
          <5> QED  BY <5>5, <5>6
        <4> QED  BY <4>2, <4>3
      <3>2. CASE v % Alphabet = ch
        BY <2>5, <2>7, <2>9, <3>1, <3>2
      <3>3. CASE v % Alphabet # ch
        <4>1. u.bucket1[v % Alphabet] = s.bucket1[v % Alphabet]
          BY <2>5, <2>7, <3>3
        <4>2. ~(q # idx /\ v = w)
          BY <2>8, <3>3
        <4>3. s.bucket2[v] \in Int
          BY <2>4
        <4> QED  BY <2>7, <3>1, <4>1, <4>2, <4>3
      <3> QED  BY <3>2, <3>3
    <2>11. \A r \in Rows : r < x + 1 /\ Before(r) # idx => u.p[Spot(Before(r))] = r
      <3> TAKE r \in Rows
      <3> HAVE r < x + 1 /\ Before(r) # idx
      <3>1. Before(r) \in Others /\ r \in Int
        BY BeforeIs DEF Others, Rows, N
      <3>2. CASE r = x
        <4>1. Before(r) = q /\ q # idx
          BY <2>3, <3>2
        <4>2. u.p = Set(s.p, Spot(q), x)
          BY <1>1, <1>3, <2>8, <4>1 DEF q, ch, w
        <4>3. Spot(q) \in 0..Len(in)
          BY <2>8, <4>1, SpotInside
        <4>4. u.p[Spot(q)] = x
          <5> DEFINE f == s.p
                     g == u.p
                     o == Spot(q)
          <5>1. g = Set(f, o, x) /\ f \in [0..Len(in) -> 0..Len(in)] /\ o \in 0..Len(in)
            BY <2>4, <4>2, <4>3
          <5> HIDE DEF f, g, o
          <5>2. g[o] = x
            BY <5>1 DEF Set
          <5> QED  BY <5>2 DEF g, o
        <4> QED  BY <3>2, <4>1, <4>4
      <3>3. CASE r # x
        <4>1. r < x
          BY <1>0, <3>1, <3>3
        <4>2. s.p[Spot(Before(r))] = r
          BY <4>1 DEF AtRow
        <4>3. CASE q = idx
          BY <1>1, <1>3, <4>2, <4>3 DEF q, ch
        <4>4. CASE q # idx
          <5>1. u.p = Set(s.p, Spot(q), x)
            BY <1>1, <1>3, <2>8, <4>4 DEF q, ch, w
          <5>2. Spot(q) # Spot(Before(r))
            BY <2>1, <2>3, <2>8, <3>1, <4>1, <4>4, BeforeApart, SpotsApart
          <5>3. Spot(Before(r)) \in 0..Len(in) /\ Spot(q) \in 0..Len(in)
            BY <2>8, <3>1, <4>4, SpotInside
          <5> DEFINE f == s.p
                     g == u.p
                     o == Spot(q)
                     e == Spot(Before(r))
          <5>4. /\ g = Set(f, o, x) /\ f \in [0..Len(in) -> 0..Len(in)] /\ o \in 0..Len(in)
                /\ e \in 0..Len(in) /\ e # o
            BY <2>4, <5>1, <5>2, <5>3
          <5> HIDE DEF f, g, o, e
          <5>5. g[e] = f[e]
            BY <5>4 DEF Set
          <5> QED  BY <4>2, <5>5 DEF f, g, e
        <4> QED  BY <4>3, <4>4
      <3> QED  BY <3>2, <3>3
    <2> QED  BY <1>1, <2>6, <2>10, <2>11 DEF AtRow, u
  <1> QED  BY <1>2, <1>3

(* After the loop every group is full. *)
LEMMA LoopEnds ==
  ASSUME Accepted
  PROVE  AtRow(Prepared, Len(in) + 1)
  <1>1. PICK f : IsLoop(f) /\ Prepared = f[Len(in) + 1]
    BY LoopAre
  <1> DEFINE n == Len(in)
             Q == {x \in Nat : x <= n + 1 => AtRow(f[x], x)}
  <1>2. n \in Nat
    BY DEF Accepted
  <1>3. /\ f[0] = Tables0
        /\ \A x \in 0..n : f[x + 1] = BiPSI(f[x], x)
    <2>1. \A x \in 0..n + 1 : f[x] = IF x = 0 THEN Tables0 ELSE BiPSI(f[x - 1], x - 1)
      BY <1>1 DEF IsLoop
    <2> HIDE DEF n
    <2>2. f[0] = Tables0
      BY <1>2, <2>1
    <2>3. ASSUME NEW x \in 0..n PROVE f[x + 1] = BiPSI(f[x], x)
      <3>1. x + 1 \in 0..n + 1 /\ x + 1 # 0 /\ x + 1 - 1 = x
        BY <1>2
      <3>2. f[x + 1] = IF x + 1 = 0 THEN Tables0 ELSE BiPSI(f[x + 1 - 1], x + 1 - 1)
        BY <2>1, <3>1
      <3> QED  BY <3>1, <3>2
    <2> QED  BY <2>2, <2>3
  <1>4. 0 \in Q
    BY <1>3, AtRowBegins
  <1>5. ASSUME NEW x \in Q PROVE x + 1 \in Q
    <2> SUFFICES ASSUME x + 1 <= n + 1 PROVE AtRow(f[x + 1], x + 1)
      OBVIOUS
    <2>1. x \in 0..n /\ AtRow(f[x], x)
      BY <1>2
    <2> QED  BY <1>3, <2>1, AtNextRow
  <1>6. Q = Nat
    <2> HIDE DEF Q
    <2>1. Q \in SUBSET Nat
      BY DEF Q
    <2> QED  BY <1>4, <1>5, <2>1, InductionInSet
  <1>7. n + 1 \in Q
    BY <1>2, <1>6
  <1> QED  BY <1>1, <1>2, <1>7

End(w) == GroupStart(w) + Cardinality(WithPair(w))

LEMMA PreparedIs ==
  ASSUME Accepted
  PROVE  /\ Prepared.bucket2 = [w \in Pairs |-> End(w)]
         /\ Prepared.p \in [0..Len(in) -> 0..Len(in)]
         /\ \A r \in Rows : Before(r) # idx => Prepared.p[Spot(Before(r))] = r
  <1> DEFINE n == Len(in)
  <1>1. AtRow(Prepared, n + 1) /\ n \in Nat
    BY LoopEnds DEF Accepted
  <1>2. Prepared.bucket2 \in [Pairs -> Int] /\ Prepared.p \in [0..n -> 0..n]
    BY <1>1 DEF AtRow, Tables
  <1>3. ASSUME NEW w \in Pairs PROVE Prepared.bucket2[w] = End(w)
    <2> DEFINE ch == w % Alphabet
    <2>1. ch \in Bytes
      BY PairOfDigits
    <2>2. Prepared.bucket1[ch] = First(ch) + Cardinality(Equal(ch))
      BY <1>1, <2>1, EarlierAll DEF AtRow
    <2>3. Prepared.bucket1[ch] = First(ch + 1)
      BY <2>1, <2>2, FirstRows
    <2>4. Placed(w, First(ch + 1)) = WithPair(w)
      <3>1. ASSUME NEW q \in WithPair(w) PROVE q < First(ch + 1)
        <4>1. q \in Others /\ PairOf(q) = w
          BY DEF WithPair
        <4>2. q \in 1..Len(in) /\ Char(q) = ch
          BY <4>1, PairIs
        <4> QED  BY <4>2, CharIs DEF Within
      <3> QED  BY <3>1 DEF Placed
    <2> QED  BY <1>1, <2>3, <2>4 DEF AtRow, End
  <1>4. Prepared.bucket2 = [w \in Pairs |-> End(w)]
    BY <1>2, <1>3
  <1>5. ASSUME NEW r \in Rows, Before(r) # idx PROVE Prepared.p[Spot(Before(r))] = r
    <2>1. r < n + 1
      BY <1>1 DEF Rows, N
    <2> HIDE DEF n
    <2> QED  BY <1>1, <1>5, <2>1 DEF AtRow
  <1> QED  BY <1>2, <1>4, <1>5

-----------------------------------------------------------------------------
(* fastbits has an entry for each stretch of places. *)
LEMMA PowersGrow ==
  ASSUME NEW n \in Nat
  PROVE  2^n \in Nat /\ 2^n >= n + 1
  <1> DEFINE S == 1..n
             f == [kk \in 0..n |-> 1..kk]
  <1>1. IsFiniteSet(S) /\ Cardinality(S) = n
    <2>1. 1 \in Int /\ n \in Int /\ (IF 1 > n THEN 0 ELSE n - 1 + 1) = n
      OBVIOUS
    <2> QED  BY <2>1, FS_Interval, Zenon
  <1>2. IsFiniteSet(SUBSET S) /\ Cardinality(SUBSET S) = 2^n
    <2> HIDE DEF S
    <2> QED  BY <1>1, FS_SUBSET
  <1>3. \A kk \in 0..n : f[kk] \in SUBSET S
    OBVIOUS
  <1>4. ASSUME NEW j \in 0..n, NEW kk \in 0..n, f[j] = f[kk] PROVE j = kk
    <2>1. 1..j = 1..kk
      BY <1>4
    <2>2. CASE j < kk
      <3>1. kk \in 1..kk /\ kk \notin 1..j
        BY <2>2
      <3> QED  BY <2>1, <3>1
    <2>3. CASE kk < j
      <3>1. j \in 1..j /\ j \notin 1..kk
        BY <2>3
      <3> QED  BY <2>1, <3>1
    <2> QED  BY <2>2, <2>3
  <1> HIDE DEF S
  <1>5. f \in Injection(0..n, SUBSET S)
    <2>1. DOMAIN f = 0..n
      OBVIOUS
    <2>2. f \in [0..n -> SUBSET S]
      BY <1>3
    <2> HIDE DEF f
    <2> QED  BY <1>4, <2>1, <2>2 DEF Injection, IsInjective
  <1>6. Cardinality(0..n) = n + 1 /\ IsFiniteSet(0..n)
    <2>1. 0 \in Int /\ n \in Int /\ (IF 0 > n THEN 0 ELSE n - 0 + 1) = n + 1
      OBVIOUS
    <2> QED  BY <2>1, FS_Interval, Zenon
  <1> HIDE DEF f
  <1>7. Cardinality(0..n) <= Cardinality(SUBSET S)
    BY <1>2, <1>5, FS_Injection, Zenon
  <1>8. Cardinality(SUBSET S) \in Nat
    BY <1>2, FS_CardinalityType
  <1> QED  BY <1>2, <1>6, <1>7, <1>8

LEMMA ShiftIs ==
  ASSUME Accepted, FastbitsLog \in Nat
  PROVE  /\ FastbitsShift \in Nat
         /\ \A x \in 0..Len(in) : x \div 2^FastbitsShift \in 0..2^FastbitsLog
  <1> DEFINE n == Len(in)
             m == 2^FastbitsLog
             Q == {x \in 0..n : n \div 2^x <= m}
  <1>1. n \in Nat /\ m \in Nat
    BY PowersGrow DEF Accepted
  <1>2. n \in Q
    <2>1. 2^n \in Nat /\ 2^n >= n + 1
      BY <1>1, PowersGrow
    <2> HIDE DEF m
    <2>2. \A y \in Nat : y >= n + 1 => n \div y <= 0
      <3> TAKE y \in Nat
      <3> HAVE y >= n + 1
      <3>1. n < 1 * y /\ y \in Nat \ {0} /\ n \in Int
        BY <1>1
      <3>2. n \div y < 1
        BY <3>1, QuotientBelow, SMTT(40)
      <3> QED  BY <3>1, <3>2, Quotient
    <2>3. n \div 2^n <= 0
      BY <2>1, <2>2
    <2>4. n \div 2^n \in Int
      <3>1. 2^n \in Nat \ {0}
        BY <1>1, <2>1
      <3> QED  BY <1>1, <3>1, Quotient
    <2> QED  BY <1>1, <2>3, <2>4
  <1>3. PICK x \in Q : \A y \in Q : x <= y
    <2> HIDE DEF m
    <2>1. Q \in SUBSET Nat /\ Q # {}
      BY <1>1, <1>2
    <2> QED  BY <2>1, LeastNatural
  <1>4. x \in 0..n /\ n \div 2^x <= m /\ \A y \in 0..x - 1 : n \div 2^y > m
    <2>1. ASSUME NEW y \in 0..x - 1 PROVE n \div 2^y > m
      <3>1. y \in Nat /\ y \in 0..n /\ ~(x <= y)
        BY <1>1, <1>3
      <3>2. ~(n \div 2^y <= m)
        BY <1>3, <3>1
      <3>3. 2^y \in Nat \ {0}
        BY <3>1, PowersGrow
      <3>4. n \div 2^y \in Int
        BY <1>1, <3>3, Quotient
      <3> QED  BY <1>1, <3>2, <3>4
    <2> QED  BY <1>3, <2>1
  <1>5. FastbitsShift \in 0..n /\ n \div 2^FastbitsShift <= m
    BY <1>4 DEF FastbitsShift, N
  <1> DEFINE d == 2^FastbitsShift
  <1>6. FastbitsShift \in Nat /\ d \in Nat \ {0}
    <2>1. FastbitsShift \in Nat
      BY <1>1, <1>5
    <2>2. d \in Nat /\ d >= FastbitsShift + 1
      BY <2>1, PowersGrow
    <2> QED  BY <2>1, <2>2
  <1>7. ASSUME NEW y \in 0..n PROVE y \div d \in 0..m
    <2> HIDE DEF d, m, n
    <2>1. n \div d \in Int /\ n % d \in 0..d - 1 /\ n = d * (n \div d) + (n % d) /\ y \in Int
          /\ y \div d \in Int
      BY <1>1, <1>6, Quotient
    <2>2. 0 * d <= y
      BY <1>1, <1>6
    <2>3. 0 <= y \div d
      BY <1>6, <2>1, <2>2, QuotientAbove, SMTT(40)
    <2> DEFINE e == n \div d
    <2>4. (e + 1) * d = d * e + d
      BY <1>6, <2>1, SMTT(40)
    <2>5. y < (e + 1) * d
      <3> DEFINE kk == d * e
      <3>1. kk \in Int /\ n = kk + (n % d)
        BY <1>6, <2>1, Product
      <3>2. (e + 1) * d = kk + d
        BY <2>4
      <3> HIDE DEF e, kk
      <3> QED  BY <1>1, <1>6, <2>1, <3>1, <3>2
    <2>6. y \div d < e + 1
      <3> DEFINE g == e + 1
      <3>1. y \in Int /\ g \in Int /\ d \in Nat \ {0} /\ y < g * d
        BY <1>6, <2>1, <2>5
      <3> HIDE DEF g, e
      <3>2. y \div d < g
        BY <3>1, QuotientBelow
      <3> QED  BY <3>2 DEF g
    <2>7. e <= m
      BY <1>5 DEF d, n, m
    <2> HIDE DEF e
    <2> QED  BY <1>1, <2>1, <2>3, <2>6, <2>7 DEF e
  <1> QED  BY <1>6, <1>7

-----------------------------------------------------------------------------
(* What the walk needs to stay inside its tables.                            *)
LookupsInv ==
  /\ text \in Seq(Bytes)
  /\ step = "decode" => in \in Seq(Bytes) /\ fastbits \in [0..2^FastbitsLog -> Pairs]
  /\ step = "walk" => /\ Accepted
                      /\ here \in 0..N /\ psi \in [0..N -> 0..N]
                      /\ ends = [w \in Pairs |-> End(w)]
                      /\ fastbits \in [0..2^FastbitsLog -> Pairs]

LEMMA AlphabetIs == Alphabet \in Nat \ {0} /\ MinBucketSize \in Nat
  BY SaisAssumption

LEMMA UsedIs == Used \subseteq [0..2^FastbitsLog -> Pairs]
  BY BwtAssumption DEF Used, Pairs

(* The last pair is always among those that the search may end with.         *)
LEMMA LookupsHold ==
  ASSUME LookupsInv
  PROVE  LookupsInRange
  <1> SUFFICES ASSUME step = "walk"
               PROVE  here \in 0..N /\ here \div 2^FastbitsShift \in 0..2^FastbitsLog /\ Found # {}
    BY DEF LookupsInRange
  <1>1. /\ Accepted /\ here \in 0..N /\ N = Len(in)
        /\ ends = [w \in Pairs |-> End(w)] /\ fastbits \in [0..2^FastbitsLog -> Pairs]
    BY RowsAre DEF LookupsInv
  <1>2. here \div 2^FastbitsShift \in 0..2^FastbitsLog
    BY <1>1, BwtAssumption, ShiftIs
  <1> DEFINE e == Alphabet * Alphabet - 1
             v == fastbits[here \div 2^FastbitsShift]
  <1>3. v \in Pairs /\ e \in Pairs /\ e \in Nat
    BY <1>1, <1>2, PairsAre
  <1>4. v <= e
    <2>1. Pairs = 0..e
      BY DEF Pairs
    <2> HIDE DEF e, v
    <2> QED  BY <1>3, <2>1
  <1>5. ends[e] = Len(in) + 1
    BY <1>1, <1>3, LastStart DEF End
  <1>6. e \in Found
    <2>1. ends[e] > here
      <3> HIDE DEF e
      <3> QED  BY <1>1, <1>5 DEF Accepted
    <2>2. e >= v
      <3>1. v \in Int
        BY <1>1, <1>3, PairsAre
      <3> HIDE DEF e, v
      <3> QED  BY <1>3, <1>4, <3>1
    <2> HIDE DEF e
    <2> QED  BY <1>3, <2>1, <2>2 DEF Found
  <1> QED  BY <1>1, <1>2, <1>6

LEMMA FastbitsTyped ==
  ASSUME fastbits \in [0..2^FastbitsLog -> Pairs], NEW count, NEW start,
         Alphabet \in Nat \ {0}
  PROVE  FastbitsOf(count, start) \in [0..2^FastbitsLog -> Pairs]
  <1> DEFINE reach(v) == {w \in Pairs : count[w] > 0
                            /\ (start[w] + count[w] - 1) \div 2^FastbitsShift >= v}
             best(v) == CHOOSE w \in reach(v) : \A x \in reach(v) : w <= x
  <1>1. FastbitsOf(count, start)
          = [v \in 0..2^FastbitsLog |-> IF reach(v) = {} THEN fastbits[v] ELSE best(v)]
    BY DEF FastbitsOf
  <1>2. Pairs \subseteq Nat
    BY DEF Pairs
  <1>3. ASSUME NEW v, reach(v) # {} PROVE best(v) \in Pairs
    <2> DEFINE Q == reach(v)
    <2>1. Q \subseteq Nat /\ Q \subseteq Pairs /\ Q # {}
      BY <1>2, <1>3
    <2> HIDE DEF Q
    <2>2. \E w \in Q : \A x \in Q : w <= x
      BY <2>1, LeastNatural
    <2>3. (CHOOSE w \in Q : \A x \in Q : w <= x) \in Q
      BY <2>2
    <2> QED  BY <2>1, <2>3 DEF Q
  <1> HIDE DEF reach, best
  <1> QED  BY <1>1, <1>3

(* What the walk starts with. *)
LEMMA PrepareLookups ==
  ASSUME LookupsInv, Prepare
  PROVE  LookupsInv'
  <1>1. /\ step = "decode" /\ N >= 2 /\ idx \in 1..N /\ in' = in /\ idx' = idx /\ step' = "walk"
        /\ here' = idx /\ text' = text
        /\ fastbits' = FastbitsOf(PairCount, PairStarts(PairCount))
        /\ ends' = Prepared.bucket2 /\ psi' = Prepared.p
    BY DEF Prepare, Prepared, Tables0, saisVars
  <1>2. in \in Seq(Bytes) /\ N = Len(in) /\ fastbits \in [0..2^FastbitsLog -> Pairs]
    BY <1>1, RowsAre DEF LookupsInv
  <1>3. Accepted
    BY <1>1, <1>2, AlphabetIs DEF Accepted
  <1>4. Accepted' /\ N' = N /\ (\A w : End(w)' = End(w))
    BY <1>1, <1>3 DEF Accepted, N, End, GroupStart, WithPair, PairBelow, Others, PairOf, Lead, Char,
        Letter, Slot, Within, First, Below, Rows1
  <1>5. here' \in 0..N
    BY <1>1, <1>2, <1>3 DEF Accepted
  <1>6. psi' \in [0..N -> 0..N] /\ ends' = [w \in Pairs |-> End(w)]
    BY <1>1, <1>2, <1>3, PreparedIs
  <1>7. fastbits' \in [0..2^FastbitsLog -> Pairs]
    BY <1>1, <1>2, AlphabetIs, FastbitsTyped
  <1>8. text' \in Seq(Bytes)
    BY <1>1 DEF LookupsInv
  <1> QED  BY <1>1, <1>4, <1>5, <1>6, <1>7, <1>8 DEF LookupsInv, Pairs, Bytes

(* A step of the walk. *)
LEMMA WalkLookups ==
  ASSUME LookupsInv, Walk
  PROVE  LookupsInv'
  <1>1. /\ step = "walk" /\ UNCHANGED <<text, in, idx, fastbits, ends, psi, step>>
        /\ here' = psi[here]
    BY DEF Walk, saisVars
  <1>2. /\ Accepted /\ here \in 0..N /\ psi \in [0..N -> 0..N] /\ ends = [w \in Pairs |-> End(w)]
        /\ fastbits \in [0..2^FastbitsLog -> Pairs] /\ text \in Seq(Bytes)
    BY <1>1 DEF LookupsInv
  <1>3. here' \in 0..N
    BY <1>1, <1>2
  <1>4. Accepted' /\ N' = N /\ (\A w : End(w)' = End(w))
    BY <1>1, <1>2 DEF Accepted, N, End, GroupStart, WithPair, PairBelow, Others, PairOf, Lead, Char,
        Letter, Slot, Within, First, Below, Rows1
  <1> QED  BY <1>1, <1>2, <1>3, <1>4 DEF LookupsInv, Pairs, Bytes

LEMMA ComputeSAKeeps ==
  ASSUME ComputeSA
  PROVE  step = "encode" /\ step' = step /\ UNCHANGED <<text, in, idx, fastbits, restored, here>>
  BY DEF ComputeSA, decodeVars, SaisNext, Place, SortUp, MoveMarks, SortDown, Name, Reduce, Return,
         Spread, InduceUp, InduceDown, Goto

-----------------------------------------------------------------------------
(* The suffixes of a text, and the rows in their order: row 0 is that of the *)
(* sentinel.                                                                 *)

LEMMA SameSize ==
  ASSUME NEW S, IsFiniteSet(S), NEW Q, NEW f \in [S -> Q],
         \A x, y \in S : f[x] = f[y] => x = y,
         \A z \in Q : \E x \in S : f[x] = z
  PROVE  Cardinality(Q) = Cardinality(S)
  <1>1. f \in Bijection(S, Q)
    BY DEF Bijection, Injection, IsInjective, Surjection
  <1> QED  BY <1>1, FS_Bijection DEF ExistsBijection

(* The order of the suffixes is one.                                         *)
LEMMA SuffixesDiffer ==
  ASSUME NEW s \in Seq(Bytes), NEW q \in 0..Len(s)
  PROVE  ~SuffixLess(s, q, q)
  <1>1. \A x \in 1..Len(s) : s[x] \in Int
    BY AlphabetIs, ElementOfSeq DEF Bytes
  <1>2. Len(s) \in Nat
    BY LenProperties
  <1> SUFFICES ASSUME NEW x \in 0..Len(s), q + x < Len(s),
                      q + x = Len(s) \/ s[q + x + 1] < s[q + x + 1]
               PROVE  FALSE
    BY DEF SuffixLess
  <1>3. q + x + 1 \in 1..Len(s)
    BY <1>2
  <1> QED  BY <1>1, <1>2, <1>3

LEMMA SuffixesFollow ==
  ASSUME NEW s \in Seq(Bytes), NEW a \in 0..Len(s), NEW q \in 0..Len(s), NEW d \in 0..Len(s),
         SuffixLess(s, a, q), SuffixLess(s, q, d)
  PROVE  SuffixLess(s, a, d)
  <1>1. \A x \in 1..Len(s) : s[x] \in Int
    BY AlphabetIs, ElementOfSeq DEF Bytes
  <1>2. Len(s) \in Nat
    BY LenProperties
  <1>3. PICK x \in 0..Len(s) : /\ a + x <= Len(s) /\ q + x < Len(s)
                               /\ \A y \in 1..x : s[a + y] = s[q + y]
                               /\ a + x = Len(s) \/ s[a + x + 1] < s[q + x + 1]
    BY DEF SuffixLess
  <1>4. PICK z \in 0..Len(s) : /\ q + z <= Len(s) /\ d + z < Len(s)
                               /\ \A y \in 1..z : s[q + y] = s[d + y]
                               /\ q + z = Len(s) \/ s[q + z + 1] < s[d + z + 1]
    BY DEF SuffixLess
  <1> SUFFICES \E m \in 0..Len(s) : /\ a + m <= Len(s) /\ d + m < Len(s)
                                    /\ \A y \in 1..m : s[a + y] = s[d + y]
                                    /\ a + m = Len(s) \/ s[a + m + 1] < s[d + m + 1]
    BY DEF SuffixLess
  <1>5. CASE x < z
    <2>1. \A y \in 1..x : s[a + y] = s[d + y]
      BY <1>3, <1>4, <1>5
    <2>2. x + 1 \in 1..z
      BY <1>5
    <2>3. s[q + (x + 1)] = s[d + (x + 1)]
      BY <1>4, <2>2
    <2>4. q + (x + 1) = q + x + 1 /\ d + (x + 1) = d + x + 1 /\ d + x < Len(s)
      BY <1>2, <1>4, <1>5
    <2> QED  BY <1>3, <2>1, <2>3, <2>4
  <1>6. CASE x = z
    <2>1. \A y \in 1..x : s[a + y] = s[d + y]
      BY <1>3, <1>4, <1>6
    <2>2. q + z # Len(s)
      BY <1>3, <1>6
    <2>3. a + x = Len(s) \/ s[a + x + 1] < s[d + x + 1]
      <3> SUFFICES ASSUME a + x # Len(s) PROVE s[a + x + 1] < s[d + x + 1]
        OBVIOUS
      <3>1. s[a + x + 1] < s[q + x + 1] /\ s[q + x + 1] < s[d + x + 1]
        BY <1>3, <1>4, <1>6, <2>2
      <3>2. a + x + 1 \in 1..Len(s) /\ q + x + 1 \in 1..Len(s) /\ d + x + 1 \in 1..Len(s)
        BY <1>2, <1>3, <1>4, <1>6
      <3>3. s[a + x + 1] \in Int /\ s[q + x + 1] \in Int /\ s[d + x + 1] \in Int
        BY <1>1, <3>2
      <3> QED  BY <3>1, <3>3, SMTT(40)
    <2> QED  BY <1>3, <1>4, <1>6, <2>1, <2>3
  <1>7. CASE z < x
    <2>1. \A y \in 1..z : s[a + y] = s[d + y]
      BY <1>3, <1>4, <1>7
    <2>2. z + 1 \in 1..x
      BY <1>7
    <2>3. s[a + (z + 1)] = s[q + (z + 1)]
      BY <1>3, <2>2
    <2>4. a + (z + 1) = a + z + 1 /\ q + (z + 1) = q + z + 1 /\ a + z <= Len(s) /\ q + z # Len(s)
      BY <1>2, <1>3, <1>7
    <2> QED  BY <1>4, <2>1, <2>3, <2>4
  <1> QED  BY <1>5, <1>6, <1>7

(* A byte in front decides, or what follows it does.                         *)
LEMMA SuffixesPrepend ==
  ASSUME NEW s \in Seq(Bytes), NEW a \in 0..Len(s) - 1, NEW q \in 0..Len(s) - 1,
         \/ s[a + 1] < s[q + 1]
         \/ s[a + 1] = s[q + 1] /\ SuffixLess(s, a + 1, q + 1)
  PROVE  SuffixLess(s, a, q)
  <1>1. Len(s) \in Nat
    BY LenProperties
  <1> SUFFICES \E m \in 0..Len(s) : /\ a + m <= Len(s) /\ q + m < Len(s)
                                    /\ \A y \in 1..m : s[a + y] = s[q + y]
                                    /\ a + m = Len(s) \/ s[a + m + 1] < s[q + m + 1]
    BY DEF SuffixLess
  <1>2. CASE s[a + 1] < s[q + 1]
    <2>1. 0 \in 0..Len(s) /\ a + 0 <= Len(s) /\ q + 0 < Len(s) /\ (\A y \in 1..0 : s[a + y] = s[q + y])
          /\ a + 0 + 1 = a + 1 /\ q + 0 + 1 = q + 1
      BY <1>1
    <2>2. s[a + 0 + 1] < s[q + 0 + 1]
      BY <1>2, <2>1
    <2> QED  BY <2>1, <2>2
  <1>3. CASE s[a + 1] = s[q + 1] /\ SuffixLess(s, a + 1, q + 1)
    <2>1. PICK x \in 0..Len(s) : /\ a + 1 + x <= Len(s) /\ q + 1 + x < Len(s)
                                 /\ \A y \in 1..x : s[a + 1 + y] = s[q + 1 + y]
                                 /\ a + 1 + x = Len(s) \/ s[a + 1 + x + 1] < s[q + 1 + x + 1]
      BY <1>3 DEF SuffixLess
    <2>2. ASSUME NEW y \in 1..x + 1 PROVE s[a + y] = s[q + y]
      <3>1. CASE y = 1
        BY <1>3, <3>1
      <3>2. CASE y # 1
        <4>1. y - 1 \in 1..x /\ a + 1 + (y - 1) = a + y /\ q + 1 + (y - 1) = q + y
          BY <3>2
        <4> QED  BY <2>1, <4>1
      <3> QED  BY <3>1, <3>2
    <2>3. /\ x + 1 \in 0..Len(s) /\ a + (x + 1) = a + 1 + x /\ q + (x + 1) = q + 1 + x
      BY <1>1, <2>1
    <2>4. a + (x + 1) <= Len(s) /\ q + (x + 1) < Len(s)
          /\ (a + (x + 1) = Len(s) \/ s[a + (x + 1) + 1] < s[q + (x + 1) + 1])
      BY <2>1, <2>3
    <2> QED  BY <2>2, <2>3, <2>4
  <1> QED  BY <1>2, <1>3

-----------------------------------------------------------------------------
(* Suffix sorting is done.  Row 0 holds the empty suffix, at the end of the  *)
(* text, the others are those of SA.                                         *)
Ordered == /\ text \in Seq(Bytes) /\ Len(text) \in Nat /\ Len(text) >= 2
           /\ DOMAIN SA = 0..Len(text) - 1
           /\ {SA[x] : x \in DOMAIN SA} = DOMAIN SA
           /\ InSuffixOrder(text, Len(text))

Pos(r) == IF r = 0 THEN Len(text) ELSE SA[r - 1]

LEMMA PosIs ==
  ASSUME Ordered
  PROVE  /\ \A r \in 0..Len(text) : Pos(r) \in 0..Len(text)
         /\ \A t \in 0..Len(text) : \E r \in 0..Len(text) : Pos(r) = t
         /\ \A q, r \in 0..Len(text) : Pos(q) = Pos(r) => q = r
         /\ \A r \in 1..Len(text) : Pos(r) \in 0..Len(text) - 1
  <1> DEFINE n == Len(text)
             S == 0..n - 1
             f == [x \in S |-> SA[x]]
  <1>1. n \in Nat /\ n >= 2 /\ DOMAIN SA = S /\ {SA[x] : x \in S} = S
    BY DEF Ordered
  <1>2. f \in [S -> S] /\ \A z \in S : \E x \in S : f[x] = z
    BY <1>1
  <1>3. f \in Surjection(S, S) /\ IsFiniteSet(S)
    <2>1. f \in Surjection(S, S)
      <3> HIDE DEF f, S
      <3> QED  BY <1>2 DEF Surjection
    <2>2. 0 \in Int /\ n - 1 \in Int
      BY <1>1
    <2>3. IsFiniteSet(0..n - 1)
      BY <2>2, FS_Interval
    <2> QED  BY <2>1, <2>3
  <1>4. f \in Injection(S, S)
    <2> HIDE DEF f, S
    <2> QED  BY <1>3, FS_Surjection
  <1>5. \A x, y \in S : SA[x] = SA[y] => x = y
    <2>1. \A x, y \in S : f[x] = f[y] => x = y
      <3> HIDE DEF f, S
      <3> QED  BY <1>4 DEF Injection, IsInjective
    <2> QED  BY <2>1
  <1>6. \A r \in 1..n : r - 1 \in S /\ Pos(r) = SA[r - 1] /\ Pos(r) \in S
    <2> TAKE r \in 1..n
    <2>1. r - 1 \in S /\ r # 0
      BY <1>1
    <2> HIDE DEF S
    <2> QED  BY <1>1, <2>1 DEF Pos
  <1>7. Pos(0) = n
    BY DEF Pos
  <1>8. ASSUME NEW t \in 0..n PROVE \E r \in 0..n : Pos(r) = t
    <2>1. CASE t = n
      BY <1>1, <1>7, <2>1
    <2>2. CASE t # n
      <3>1. t \in S
        BY <1>1, <2>2
      <3>2. PICK x \in S : SA[x] = t
        BY <1>2, <3>1
      <3>3. x + 1 \in 0..n /\ x + 1 # 0 /\ x + 1 - 1 = x
        BY <1>1
      <3> QED  BY <3>2, <3>3 DEF Pos
    <2> QED  BY <2>1, <2>2
  <1>9. ASSUME NEW q \in 0..n, NEW r \in 0..n, Pos(q) = Pos(r) PROVE q = r
    <2>1. CASE q = 0 /\ r # 0
      <3>1. r \in 1..n
        BY <1>1, <2>1
      <3> QED  BY <1>1, <1>6, <1>7, <1>9, <2>1, <3>1
    <2>2. CASE q # 0 /\ r = 0
      <3>1. q \in 1..n
        BY <1>1, <2>2
      <3> QED  BY <1>1, <1>6, <1>7, <1>9, <2>2, <3>1
    <2>3. CASE q # 0 /\ r # 0
      <3>1. q \in 1..n /\ r \in 1..n
        BY <1>1, <2>3
      <3>2. q - 1 = r - 1
        BY <1>5, <1>6, <1>9, <3>1
      <3> QED  BY <3>1, <3>2
    <2>4. CASE q = 0 /\ r = 0
      BY <2>4
    <2> QED  BY <2>1, <2>2, <2>3, <2>4
  <1>10. ASSUME NEW r \in 0..n PROVE Pos(r) \in 0..n
    <2>1. CASE r = 0
      BY <1>1, <1>7, <2>1
    <2>2. CASE r # 0
      <3>1. r \in 1..n
        BY <1>1, <2>2
      <3> QED  BY <1>1, <1>6, <3>1
    <2> QED  BY <2>1, <2>2
  <1> QED  BY <1>6, <1>8, <1>9, <1>10

LEMMA RowsInOrder ==
  ASSUME Ordered, NEW q \in 0..Len(text), NEW r \in 0..Len(text)
  PROVE  q < r <=> SuffixLess(text, Pos(q), Pos(r))
  <1> DEFINE n == Len(text)
             Q == {j \in Nat : \A y \in 0..n : y + 1 + j <= n => SuffixLess(text, Pos(y), Pos(y + 1 + j))}
  <1>1. n \in Nat /\ n >= 2 /\ text \in Seq(Bytes)
        /\ \A x \in 0..n - 2 : SuffixLess(text, SA[x], SA[x + 1])
    BY DEF Ordered, InSuffixOrder
  <1>2. ASSUME NEW y \in 0..n - 1 PROVE SuffixLess(text, Pos(y), Pos(y + 1))
    <2>1. CASE y = 0
      <3>1. Pos(0) = n /\ Pos(1) \in 0..n - 1
        <4>1. 1 \in 1..n
          BY <1>1
        <4> QED  BY <4>1, PosIs DEF Pos
      <3>2. SuffixLess(text, n, Pos(1))
        <4>1. 0 \in 0..Len(text) /\ n + 0 <= Len(text) /\ Pos(1) + 0 < Len(text)
              /\ n + 0 = Len(text) /\ \A z \in 1..0 : text[n + z] = text[Pos(1) + z]
          BY <1>1, <3>1
        <4> HIDE DEF n
        <4> QED  BY <4>1 DEF SuffixLess
      <3> QED  BY <2>1, <3>1, <3>2
    <2>2. CASE y # 0
      <3>1. y - 1 \in 0..n - 2 /\ y - 1 + 1 = y + 1 - 1 /\ y + 1 # 0
        BY <1>1, <2>2
      <3> QED  BY <1>1, <2>2, <3>1 DEF Pos
    <2> QED  BY <2>1, <2>2
  <1>3. 0 \in Q
    <2> SUFFICES ASSUME NEW y \in 0..n, y + 1 + 0 <= n PROVE SuffixLess(text, Pos(y), Pos(y + 1 + 0))
      OBVIOUS
    <2>1. y \in 0..n - 1 /\ y + 1 + 0 = y + 1
      BY <1>1
    <2> QED  BY <1>2, <2>1
  <1>4. ASSUME NEW j \in Q PROVE j + 1 \in Q
    <2> SUFFICES ASSUME NEW y \in 0..n, y + 1 + (j + 1) <= n
                 PROVE  SuffixLess(text, Pos(y), Pos(y + 1 + (j + 1)))
      OBVIOUS
    <2>1. /\ j \in Nat /\ y + 1 + j <= n /\ y + 1 + j \in 0..n - 1 /\ y + 1 + j + 1 = y + 1 + (j + 1)
          /\ y + 1 + j \in 0..n /\ y + 1 + (j + 1) \in 0..n
      BY <1>1
    <2>2. SuffixLess(text, Pos(y), Pos(y + 1 + j))
      BY <2>1
    <2>3. SuffixLess(text, Pos(y + 1 + j), Pos(y + 1 + (j + 1)))
      BY <1>2, <2>1
    <2>4. Pos(y) \in 0..n /\ Pos(y + 1 + j) \in 0..n /\ Pos(y + 1 + (j + 1)) \in 0..n
      BY <2>1, PosIs
    <2> HIDE DEF Q
    <2> QED  BY <1>1, <2>2, <2>3, <2>4, SuffixesFollow
  <1>5. Q = Nat
    <2> HIDE DEF Q
    <2>1. Q \in SUBSET Nat
      BY DEF Q
    <2> QED  BY <1>3, <1>4, <2>1, InductionInSet
  <1>6. \A x, y \in 0..n : x < y => SuffixLess(text, Pos(x), Pos(y))
    <2> TAKE x, y \in 0..n
    <2> HAVE x < y
    <2> DEFINE j == y - x - 1
    <2>1. j \in Nat /\ x + 1 + j = y /\ y <= n
      BY <1>1
    <2>2. j \in Q
      BY <1>5, <2>1
    <2> HIDE DEF j
    <2> QED  BY <2>1, <2>2
  <1>7. ASSUME SuffixLess(text, Pos(q), Pos(r)), ~(q < r) PROVE FALSE
    <2>1. Pos(q) \in 0..n /\ Pos(r) \in 0..n
      BY PosIs
    <2>2. ~SuffixLess(text, Pos(q), Pos(q))
      BY <1>1, <2>1, SuffixesDiffer
    <2>3. r < q \/ r = q
      BY <1>1, <1>7
    <2>4. SuffixLess(text, Pos(q), Pos(q))
      BY <1>1, <1>6, <1>7, <2>1, <2>3, SuffixesFollow
    <2> QED  BY <2>2, <2>4
  <1> QED  BY <1>6, <1>7

-----------------------------------------------------------------------------
(* What Encode makes of a text: each row that has a byte before it is given  *)
(* that byte.                                                                *)
Transformed == /\ Ordered /\ Accepted /\ Len(in) = Len(text)
               /\ Pos(idx) = 0
               /\ \A r \in Rows : Letter(r) = text[Pos(r)]

LEMMA EncodeTransforms ==
  ASSUME Ordered, Encode
  PROVE  Transformed'
  <1> DEFINE n == Len(text)
             S == 0..n - 1
             whole == CHOOSE x \in DOMAIN SA : SA[x] = 0
             a == [x \in 1..n |-> SA[x - 1]]
             others == RemoveAt(a, whole + 1)
             bytes == [x \in DOMAIN others |-> text[others[x]]]
  <1>1. /\ text \in Seq(Bytes) /\ n \in Nat /\ n >= 2 /\ DOMAIN SA = S
        /\ \A x \in S : SA[x] \in S
        /\ \E x \in S : SA[x] = 0
    <2>1. /\ text \in Seq(Bytes) /\ n \in Nat /\ n >= 2 /\ DOMAIN SA = S
          /\ {SA[x] : x \in DOMAIN SA} = DOMAIN SA
      BY DEF Ordered
    <2>2. 0 \in S
      BY <2>1
    <2> HIDE DEF n, S
    <2>3. {SA[x] : x \in S} = S
      BY <2>1
    <2> QED  BY <2>1, <2>2, <2>3
  <1>2. /\ in' = <<text[n]>> \o bytes /\ idx' = whole + 1
        /\ text' = text /\ SA' = SA
    <2>1. UNCHANGED saisVars
          /\ IF n <= 1 THEN in' = text /\ idx' = n
             ELSE in' = <<Last(text)>> \o bytes /\ idx' = whole + 1
      BY DEF Encode
    <2>2. ~(n <= 1)
      BY <1>1
    <2> HIDE DEF bytes, whole
    <2>3. in' = <<Last(text)>> \o bytes /\ idx' = whole + 1
      BY <2>1, <2>2
    <2> QED  BY <2>1, <2>3 DEF saisVars, Last
  <1>3. whole \in S /\ SA[whole] = 0
    <2> HIDE DEF S
    <2> QED  BY <1>1
  <1>4. \A x \in S : SA[x] = 0 => x = whole
    <2> TAKE x \in S
    <2> HAVE SA[x] = 0
    <2>1. x + 1 \in 0..n /\ whole + 1 \in 0..n /\ x + 1 # 0 /\ whole + 1 # 0
          /\ x + 1 - 1 = x /\ whole + 1 - 1 = whole
      <3> HIDE DEF whole
      <3> QED  BY <1>1, <1>3
    <2>2. Pos(x + 1) = Pos(whole + 1)
      BY <1>3, <2>1 DEF Pos
    <2>3. x + 1 = whole + 1
      BY <2>1, <2>2, PosIs
    <2> HIDE DEF whole
    <2> QED  BY <1>1, <1>3, <2>3
  <1> HIDE DEF whole
  <1>5. a \in Seq(S) /\ Len(a) = n /\ \A x \in 1..n : x - 1 \in S /\ a[x] = SA[x - 1]
    <2>1. \A x \in 1..n : x - 1 \in S
      BY <1>1
    <2>2. a \in [1..n -> S]
      <3> HIDE DEF S
      <3> QED  BY <1>1, <2>1
    <2>3. \A x \in 1..n : a[x] = SA[x - 1]
      OBVIOUS
    <2>4. DOMAIN a = 1..n
      OBVIOUS
    <2> HIDE DEF a, S
    <2>5. a \in Seq(S)
      BY <1>1, <2>2
    <2> QED  BY <1>1, <2>1, <2>3, <2>4, <2>5, LenProperties
  <1> DEFINE left == SubSeq(a, 1, whole)
             right == SubSeq(a, whole + 2, n)
  <1>6. others = left \o right
    <2> DEFINE j == whole + 1
               k2 == whole + 2
    <2>1. j - 1 = whole /\ j + 1 = k2
      BY <1>1, <1>3
    <2>2. Len(a) = n
      BY <1>5
    <2> HIDE DEF a, n, j, k2
    <2>3. RemoveAt(a, j) = SubSeq(a, 1, whole) \o SubSeq(a, k2, n)
      BY <2>1, <2>2, Zenon DEF RemoveAt
    <2> QED  BY <2>3 DEF j, k2
  <1>7. /\ left \in Seq(S) /\ Len(left) = whole /\ \A x \in 1..whole : left[x] = SA[x - 1]
    <2> HIDE DEF a, S
    <2>1. 1 \in Int /\ whole \in Int /\ whole \in Nat /\ whole <= n - 1 /\ \A x \in 1..whole : x \in 1..n
      BY <1>1, <1>3 DEF S
    <2>2. \A x \in 1..whole : a[x] \in S
      BY <1>1, <1>5, <2>1
    <2>3. /\ left \in Seq(S) /\ Len(left) = IF 1 <= whole THEN whole - 1 + 1 ELSE 0
          /\ \A x \in 1..whole - 1 + 1 : left[x] = a[1 + x - 1]
      BY <2>1, <2>2, SubSeqProperties
    <2>4. Len(left) = whole
      BY <2>1, <2>3
    <2>5. ASSUME NEW x \in 1..whole PROVE left[x] = SA[x - 1]
      <3>1. x \in 1..whole - 1 + 1 /\ 1 + x - 1 = x /\ x \in 1..n
        BY <2>1
      <3> QED  BY <1>5, <2>3, <3>1
    <2> QED  BY <2>3, <2>4, <2>5
  <1>8. /\ right \in Seq(S) /\ Len(right) = n - 1 - whole
        /\ \A x \in 1..n - 1 - whole : right[x] = SA[whole + x]
    <2> HIDE DEF a, S
    <2>1. whole + 2 \in Int /\ n \in Int /\ whole \in Nat /\ whole <= n - 1
          /\ \A x \in whole + 2..n : x \in 1..n
      BY <1>1, <1>3 DEF S
    <2>2. \A x \in whole + 2..n : a[x] \in S
      BY <1>1, <1>5, <2>1
    <2>3. /\ right \in Seq(S) /\ Len(right) = IF whole + 2 <= n THEN n - (whole + 2) + 1 ELSE 0
          /\ \A x \in 1..n - (whole + 2) + 1 : right[x] = a[whole + 2 + x - 1]
      BY <2>1, <2>2, SubSeqProperties
    <2>4. Len(right) = n - 1 - whole
      BY <2>1, <2>3
    <2>5. ASSUME NEW x \in 1..n - 1 - whole PROVE right[x] = SA[whole + x]
      <3>1. x \in 1..n - (whole + 2) + 1 /\ whole + 2 + x - 1 \in 1..n
            /\ whole + 2 + x - 1 - 1 = whole + x
        BY <2>1
      <3> QED  BY <1>5, <2>3, <3>1, SMTT(40)
    <2> QED  BY <2>3, <2>4, <2>5
  <1>9. /\ others \in Seq(S) /\ Len(others) = n - 1 /\ DOMAIN others = 1..n - 1
        /\ \A x \in 1..n - 1 : others[x] = IF x <= whole THEN SA[x - 1] ELSE SA[x]
    <2> HIDE DEF left, right, S, others
    <2>0. whole \in Nat /\ whole <= n - 1
      BY <1>1, <1>3 DEF S
    <2>1. /\ others \in Seq(S) /\ Len(others) = whole + (n - 1 - whole)
          /\ \A x \in 1..whole + (n - 1 - whole) :
                others[x] = IF x <= whole THEN left[x] ELSE right[x - whole]
      BY <1>6, <1>7, <1>8, ConcatProperties, SMTT(40)
    <2>2. whole + (n - 1 - whole) = n - 1
      BY <1>1, <2>0
    <2>3. DOMAIN others = 1..n - 1
      BY <2>1, <2>2, LenProperties
    <2>4. ASSUME NEW x \in 1..n - 1 PROVE others[x] = IF x <= whole THEN SA[x - 1] ELSE SA[x]
      <3>1. CASE x <= whole
        <4>1. x \in 1..whole
          BY <2>0, <3>1
        <4> QED  BY <1>7, <2>1, <2>2, <3>1, <4>1
      <3>2. CASE ~(x <= whole)
        <4>1. x - whole \in 1..n - 1 - whole /\ whole + (x - whole) = x
          BY <1>1, <2>0, <3>2
        <4> QED  BY <1>8, <2>1, <2>2, <3>2, <4>1
      <3> QED  BY <3>1, <3>2
    <2> QED  BY <2>1, <2>2, <2>3, <2>4
  <1> HIDE DEF others, left, right, a
  <1>10. \A x \in 1..n - 1 : others[x] \in 1..n - 1
    <2> TAKE x \in 1..n - 1
    <2>1. CASE x <= whole
      <3>1. x - 1 \in S /\ x - 1 # whole
        BY <1>1, <1>3, <2>1
      <3> QED  BY <1>1, <1>4, <1>9, <2>1, <3>1, SMTT(40)
    <2>2. CASE ~(x <= whole)
      <3>1. x \in S /\ x # whole
        BY <1>1, <1>3, <2>2
      <3> QED  BY <1>1, <1>4, <1>9, <2>2, <3>1
    <2> QED  BY <2>1, <2>2
  <1>11. \A x \in 1..n : text[x] \in Bytes
    BY <1>1, ElementOfSeq
  <1>12. bytes \in Seq(Bytes) /\ Len(bytes) = n - 1 /\ \A x \in 1..n - 1 : bytes[x] = text[others[x]]
    <2>1. bytes \in [1..n - 1 -> Bytes]
      <3>1. \A x \in 1..n - 1 : others[x] \in 1..n
        BY <1>1, <1>10
      <3> QED  BY <1>9, <1>11, <3>1
    <2>2. DOMAIN bytes = 1..n - 1 /\ \A x \in 1..n - 1 : bytes[x] = text[others[x]]
      BY <1>9
    <2>3. n - 1 \in Nat
      BY <1>1
    <2> HIDE DEF bytes
    <2>4. bytes \in Seq(Bytes)
      BY <2>1, <2>3
    <2> QED  BY <2>2, <2>3, <2>4, LenProperties
  <1> HIDE DEF bytes
  <1>13. /\ in' \in Seq(Bytes) /\ Len(in') = n /\ in'[1] = text[n]
         /\ \A x \in 2..n : in'[x] = text[others[x - 1]]
    <2>1. <<text[n]>> \in Seq(Bytes) /\ Len(<<text[n]>>) = 1 /\ <<text[n]>>[1] = text[n]
      BY <1>1, <1>11
    <2>2. /\ in' \in Seq(Bytes) /\ Len(in') = 1 + (n - 1)
          /\ \A x \in 1..1 + (n - 1) : in'[x] = IF x <= 1 THEN <<text[n]>>[x] ELSE bytes[x - 1]
      BY <1>2, <1>12, <2>1, ConcatProperties
    <2>3. 1 + (n - 1) = n /\ 1 \in 1..n
      BY <1>1
    <2>4. ASSUME NEW x \in 2..n PROVE in'[x] = text[others[x - 1]]
      <3>1. x \in 1..n /\ ~(x <= 1) /\ x - 1 \in 1..n - 1
        BY <1>1
      <3> QED  BY <1>12, <2>2, <2>3, <3>1
    <2> QED  BY <2>1, <2>2, <2>3, <2>4
  <1>14. Ordered'
    BY <1>2 DEF Ordered, InSuffixOrder, SuffixLess, Bytes
  <1>15. Accepted'
    BY <1>1, <1>2, <1>3, <1>13, AlphabetIs DEF Accepted, Bytes
  <1>16. Pos(idx)'  = 0
    <2>1. idx' # 0 /\ idx' - 1 = whole
      BY <1>1, <1>2, <1>3
    <2> QED  BY <1>2, <1>3, <2>1 DEF Pos
  <1>17. ASSUME NEW r \in Rows' PROVE Letter(r)' = text[Pos(r)]
    <2>1. r \in 0..n /\ r # whole + 1 /\ Slot(r)' = IF r < whole + 1 THEN r + 1 ELSE r
      BY <1>2, <1>13 DEF Rows, N, Slot
    <2>2. CASE r = 0
      <3>1. Slot(r)' = 1 /\ Pos(r) = n
        BY <1>1, <1>3, <2>1, <2>2 DEF Pos
      <3> QED  BY <1>13, <3>1 DEF Letter
    <2>3. CASE r # 0 /\ r < whole + 1
      <3>1. Slot(r)' = r + 1 /\ r + 1 \in 2..n /\ r + 1 - 1 = r /\ r \in 1..n - 1 /\ r <= whole
        BY <1>1, <1>3, <2>1, <2>3
      <3>2. Letter(r)' = text[others[r]]
        BY <1>13, <3>1 DEF Letter
      <3> QED  BY <1>9, <2>3, <3>1, <3>2 DEF Pos
    <2>4. CASE ~(r < whole + 1)
      <3>1. Slot(r)' = r /\ r \in 2..n /\ r - 1 \in 1..n - 1 /\ ~(r - 1 <= whole) /\ r # 0
        BY <1>1, <1>3, <2>1, <2>4
      <3>2. Letter(r)' = text[others[r - 1]]
        BY <1>13, <3>1 DEF Letter
      <3> QED  BY <1>9, <3>1, <3>2 DEF Pos
    <2> QED  BY <2>2, <2>3, <2>4
  <1>18. \A r : Pos(r)' = Pos(r)
    BY <1>2 DEF Pos
  <1>19. Len(in)' = Len(text)'
    BY <1>2, <1>13
  <1>20. (\A r \in Rows : Letter(r) = text[Pos(r)])'
    BY <1>2, <1>17, <1>18
  <1> QED  BY <1>14, <1>15, <1>16, <1>19, <1>20 DEF Transformed

-----------------------------------------------------------------------------
(* The row of the suffix that begins at position t.                          *)
RowOf(t) == CHOOSE r \in 0..Len(text) : Pos(r) = t

LEMMA RowOfIs ==
  ASSUME Transformed
  PROVE  /\ \A t \in 0..Len(text) : RowOf(t) \in 0..Len(text) /\ Pos(RowOf(t)) = t
         /\ \A t, u \in 0..Len(text) : RowOf(t) = RowOf(u) => t = u
         /\ \A r \in 0..Len(text) : Pos(r) \in 0..Len(text) /\ RowOf(Pos(r)) = r
         /\ RowOf(Len(text)) = 0 /\ RowOf(0) = idx
         /\ \A t \in 0..Len(text) - 1 : RowOf(t) \in 1..Len(text)
         /\ \A t \in 1..Len(text) : RowOf(t) \in Rows /\ Letter(RowOf(t)) = text[t]
         /\ \A t \in 1..Len(text) - 1 : RowOf(t) \in Others
  <1> DEFINE n == Len(text)
  <1>1. Ordered /\ n \in Nat /\ n >= 2 /\ Len(in) = n /\ Accepted /\ idx \in 1..n /\ Pos(idx) = 0
        /\ Pos(0) = n
    BY DEF Transformed, Accepted, Ordered, Pos
  <1>2. \A t \in 0..n : RowOf(t) \in 0..n /\ Pos(RowOf(t)) = t
    BY <1>1, PosIs DEF RowOf
  <1>3. \A r \in 0..n : Pos(r) \in 0..n /\ RowOf(Pos(r)) = r
    <2> TAKE r \in 0..n
    <2>1. Pos(r) \in 0..n
      BY <1>1, PosIs
    <2>2. RowOf(Pos(r)) \in 0..n /\ Pos(RowOf(Pos(r))) = Pos(r)
      BY <1>2, <2>1
    <2>3. RowOf(Pos(r)) = r
      BY <1>1, <2>2, PosIs
    <2> QED  BY <2>1, <2>3
  <1>4. RowOf(n) = 0 /\ RowOf(0) = idx
    <2>1. 0 \in 0..n /\ idx \in 0..n
      BY <1>1
    <2> QED  BY <1>1, <1>3, <2>1
  <1>5. \A t, u \in 0..n : RowOf(t) = RowOf(u) => t = u
    BY <1>2
  <1>6. \A t \in 0..n - 1 : RowOf(t) \in 1..n
    <2> TAKE t \in 0..n - 1
    <2>1. t \in 0..n /\ n \in 0..n /\ t # n
      BY <1>1
    <2>2. RowOf(t) # 0
      BY <1>4, <1>5, <2>1
    <2> QED  BY <1>1, <1>2, <2>1, <2>2
  <1>7. ASSUME NEW t \in 1..n PROVE RowOf(t) \in Rows /\ Letter(RowOf(t)) = text[t]
    <2>1. t \in 0..n /\ 0 \in 0..n /\ t # 0
      BY <1>1
    <2>2. RowOf(t) # idx
      BY <1>4, <1>5, <2>1
    <2>3. RowOf(t) \in Rows
      BY <1>1, <1>2, <2>1, <2>2 DEF Rows, N
    <2> QED  BY <1>2, <2>1, <2>3 DEF Transformed
  <1>8. ASSUME NEW t \in 1..n - 1 PROVE RowOf(t) \in Others
    <2>1. t \in 0..n /\ 0 \in 0..n /\ t # 0 /\ t \in 0..n - 1
      BY <1>1
    <2>2. RowOf(t) # idx
      BY <1>4, <1>5, <2>1
    <2> QED  BY <1>1, <1>6, <2>1, <2>2 DEF Others
  <1> QED  BY <1>2, <1>3, <1>4, <1>5, <1>6, <1>7, <1>8

(* Rows compare as the bytes at the start of their texts and the rows of     *)
(* what follows these.                                                       *)
LEMMA RowsCompare ==
  ASSUME Transformed, NEW u \in 1..Len(text), NEW t \in 1..Len(text)
  PROVE  /\ text[u] \in Int /\ text[t] \in Int
         /\ RowOf(u - 1) < RowOf(t - 1) <=>
               text[u] < text[t] \/ (text[u] = text[t] /\ RowOf(u) < RowOf(t))
  <1> DEFINE n == Len(text)
             less(y, z) == text[y] < text[z] \/ (text[y] = text[z] /\ RowOf(y) < RowOf(z))
  <1>1. Ordered /\ n \in Nat /\ text \in Seq(Bytes)
    BY DEF Transformed, Ordered
  <1>2. \A y \in 1..n : /\ text[y] \in Int /\ y - 1 \in 0..n /\ y - 1 \in 0..n - 1 /\ y \in 0..n
                        /\ y - 1 + 1 = y
    BY <1>1, AlphabetIs, ElementOfSeq DEF Bytes
  <1>3. \A y, z \in 0..n : RowOf(y) < RowOf(z) <=> SuffixLess(text, y, z)
    <2> TAKE y, z \in 0..n
    <2>1. RowOf(y) \in 0..n /\ RowOf(z) \in 0..n /\ Pos(RowOf(y)) = y /\ Pos(RowOf(z)) = z
      BY RowOfIs
    <2> QED  BY <1>1, <2>1, RowsInOrder
  <1>4. ASSUME NEW y \in 1..n, NEW z \in 1..n, less(y, z) PROVE RowOf(y - 1) < RowOf(z - 1)
    <2>1. \/ text[y - 1 + 1] < text[z - 1 + 1]
          \/ text[y - 1 + 1] = text[z - 1 + 1] /\ SuffixLess(text, y - 1 + 1, z - 1 + 1)
      BY <1>2, <1>3, <1>4
    <2>2. SuffixLess(text, y - 1, z - 1)
      BY <1>1, <1>2, <2>1, SuffixesPrepend
    <2> QED  BY <1>2, <1>3, <2>2
  <1>5. ASSUME RowOf(u - 1) < RowOf(t - 1), ~less(u, t) PROVE FALSE
    <2>1. u # t
      <3>1. RowOf(u - 1) \in 0..n
        BY <1>2, RowOfIs
      <3> QED  BY <1>1, <1>5, <3>1
    <2>2. RowOf(u) # RowOf(t) /\ RowOf(u) \in 0..n /\ RowOf(t) \in 0..n
      BY <1>2, <2>1, RowOfIs
    <2>3. less(t, u)
      BY <1>2, <1>5, <2>2
    <2>4. RowOf(t - 1) < RowOf(u - 1)
      BY <1>4, <2>3
    <2>5. RowOf(t - 1) \in 0..n /\ RowOf(u - 1) \in 0..n
      BY <1>2, RowOfIs
    <2> QED  BY <1>5, <2>4, <2>5
  <1> QED  BY <1>2, <1>4, <1>5

(* As many rows of texts that begin in the text are below a row as its       *)
(* number says.                                                              *)
RowsUnder(t) == {u \in 1..Len(text) : RowOf(u - 1) < RowOf(t - 1)}

LEMMA RowsUnderAre ==
  ASSUME Transformed, NEW t \in 1..Len(text)
  PROVE  IsFiniteSet(RowsUnder(t)) /\ RowOf(t - 1) = 1 + Cardinality(RowsUnder(t))
  <1> DEFINE n == Len(text)
             m == RowOf(t - 1)
             Q == {u \in 1..n : RowOf(u - 1) < m}
             f == [u \in Q |-> RowOf(u - 1)]
  <1>1. n \in Nat /\ m \in 1..n
    <2>1. n \in Nat
      BY DEF Transformed, Ordered
    <2>2. t - 1 \in 0..n - 1
      BY <2>1
    <2> QED  BY <2>1, <2>2, RowOfIs
  <1>2. \A u \in Q : u \in 1..n /\ u - 1 \in 0..n - 1 /\ u - 1 \in 0..n /\ RowOf(u - 1) < m
    BY <1>1
  <1>3. \A u \in Q : RowOf(u - 1) \in 1..m - 1
    <2> TAKE u \in Q
    <2>1. RowOf(u - 1) \in 1..n /\ RowOf(u - 1) < m
      BY <1>2, RowOfIs
    <2> HIDE DEF m
    <2> QED  BY <1>1, <2>1
  <1>4. \A z \in 1..m - 1 : \E u \in Q : RowOf(u - 1) = z
    <2> TAKE z \in 1..m - 1
    <2>1. z \in 0..n /\ z \in 1..n /\ z < m
      <3> HIDE DEF m
      <3> QED  BY <1>1
    <2>2. RowOf(Pos(z)) = z
      BY <2>1, RowOfIs
    <2>3. Pos(z) \in 0..n - 1
      BY <2>1, PosIs DEF Transformed
    <2> DEFINE w == Pos(z) + 1
    <2>4. w \in 1..n /\ w - 1 = Pos(z)
      BY <1>1, <2>3
    <2> HIDE DEF w, m
    <2>5. RowOf(w - 1) = z /\ RowOf(w - 1) < m
      BY <2>1, <2>2, <2>4
    <2>6. w \in Q
      BY <2>4, <2>5
    <2> HIDE DEF Q
    <2> QED  BY <2>5, <2>6
  <1>5. \A u, v \in Q : RowOf(u - 1) = RowOf(v - 1) => u = v
    <2> TAKE u, v \in Q
    <2> HAVE RowOf(u - 1) = RowOf(v - 1)
    <2>0. u - 1 \in 0..n /\ v - 1 \in 0..n
      BY <1>2
    <2>1. u - 1 = v - 1
      BY <2>0, RowOfIs, ZenonT(60)
    <2> QED  BY <1>2, <2>1
  <1>6. IsFiniteSet(Q)
    <2>1. 1 \in Int /\ n \in Int
      BY <1>1
    <2>2. IsFiniteSet(1..n) /\ Q \subseteq 1..n
      BY <2>1, FS_Interval
    <2> QED  BY <2>2, FS_Subset
  <1>7. Cardinality(1..m - 1) = Cardinality(Q)
    <2>1. f \in [Q -> 1..m - 1] /\ \A u \in Q : f[u] = RowOf(u - 1)
      BY <1>3
    <2> DEFINE G == 1..m - 1
    <2>2. f \in [Q -> G] /\ (\A x, y \in Q : f[x] = f[y] => x = y) /\ \A z \in G : \E x \in Q : f[x] = z
      <3> HIDE DEF f, Q, m
      <3> QED  BY <1>4, <1>5, <2>1
    <2> HIDE DEF f, Q, G
    <2>3. Cardinality(G) = Cardinality(Q)
      BY <1>6, <2>2, SameSize
    <2> QED  BY <2>3 DEF G
  <1>8. Cardinality(1..m - 1) = m - 1
    <2> HIDE DEF m
    <2> DEFINE j == m - 1
    <2>1. 1 \in Int /\ j \in Int /\ (IF 1 > j THEN 0 ELSE j - 1 + 1) = j
      BY <1>1
    <2> HIDE DEF j
    <2>2. Cardinality(1..j) = j
      BY <2>1, FS_Interval, Zenon
    <2> QED  BY <2>2 DEF j
  <1>9. m = 1 + Cardinality(Q)
    <2> HIDE DEF m, Q
    <2> QED  BY <1>1, <1>7, <1>8
  <1> QED  BY <1>6, <1>9 DEF RowsUnder

-----------------------------------------------------------------------------
(* Rows grouped by the two bytes that follow the place they stand for.       *)

LEMMA SlotIs ==
  ASSUME Accepted
  PROVE  /\ \A q, r \in Rows : Slot(q) = Slot(r) => q = r
         /\ \A x \in 1..Len(in) : \E r \in Rows : Slot(r) = x
  <1>1. \A q, r \in Rows : Slot(q) = Slot(r) => q = r
    BY DEF Accepted, Rows, Slot, N
  <1>2. ASSUME NEW x \in 1..Len(in) PROVE \E r \in Rows : Slot(r) = x
    <2> DEFINE r == IF x <= idx THEN x - 1 ELSE x
    <2>1. r \in Rows /\ Slot(r) = x
      BY DEF Accepted, Rows, Slot, N
    <2> HIDE DEF r
    <2> QED  BY <2>1
  <1> QED  BY <1>1, <1>2

LEMMA RowsAreAll ==
  ASSUME Transformed, NEW r \in Rows
  PROVE  \E u \in 1..Len(text) : RowOf(u) = r
  <1>1. /\ Len(text) \in Nat /\ Len(in) = Len(text) /\ Accepted /\ idx \in 1..Len(text)
        /\ r \in 0..Len(text) /\ r # idx /\ Pos(idx) = 0
    BY DEF Transformed, Ordered, Accepted, Rows, N
  <1>2. Pos(r) \in 0..Len(text) /\ RowOf(Pos(r)) = r /\ RowOf(0) = idx
    BY <1>1, RowOfIs
  <1>3. Pos(r) # 0
    BY <1>1, <1>2
  <1> QED  BY <1>1, <1>2, <1>3

(* The row before that of position t is that of the position before it.      *)
LEMMA BeforeRow ==
  ASSUME Transformed, NEW t \in 1..Len(text)
  PROVE  Before(RowOf(t)) = RowOf(t - 1)
  <1> DEFINE n == Len(text)
             ch == text[t]
             m == RowOf(t)
             G == {u \in 1..n : text[u] < ch}
             H == {u \in 1..n : text[u] = ch /\ RowOf(u) < m}
  <1>1. /\ Accepted /\ n \in Nat /\ Len(in) = n /\ Letter(m) = ch /\ m \in Rows
        /\ \A u \in 1..n : RowOf(u) \in Rows /\ Letter(RowOf(u)) = text[u] /\ text[u] \in Int
    BY RowOfIs, RowsCompare DEF Transformed, Ordered
  <1>2. RowsUnder(t) = G \cup H /\ G \cap H = {}
    <2>1. \A u \in 1..n : RowOf(u - 1) < RowOf(t - 1) <=> u \in G \/ u \in H
      BY RowsCompare
    <2>2. RowsUnder(t) = G \cup H
      <3> HIDE DEF n
      <3> QED  BY <2>1 DEF RowsUnder, n
    <2>3. \A u \in 1..n : ~(u \in G /\ u \in H)
      BY <1>1
    <2> QED  BY <2>2, <2>3
  <1>3. IsFiniteSet(G) /\ IsFiniteSet(H)
    <2>1. IsFiniteSet(RowsUnder(t))
      BY RowsUnderAre
    <2> HIDE DEF G, H
    <2> QED  BY <1>2, <2>1, FS_Subset
  <1>4. Cardinality(Below(ch)) = Cardinality(G)
    <2> DEFINE f == [u \in G |-> Slot(RowOf(u))]
    <2>1. ASSUME NEW u \in G PROVE Slot(RowOf(u)) \in Below(ch)
      <3>1. RowOf(u) \in Rows /\ Letter(RowOf(u)) < ch
        BY <1>1
      <3>2. Slot(RowOf(u)) \in 1..Len(in) /\ in[Slot(RowOf(u))] < ch
        BY <1>1, <3>1, LetterIs DEF Letter
      <3> QED  BY <3>2 DEF Below, Rows1
    <2>2. ASSUME NEW u \in G, NEW v \in G, Slot(RowOf(u)) = Slot(RowOf(v)) PROVE u = v
      <3>1. RowOf(u) = RowOf(v) /\ u \in 0..n /\ v \in 0..n
        BY <1>1, <2>2, SlotIs
      <3> QED  BY <3>1, RowOfIs
    <2>3. ASSUME NEW x \in Below(ch) PROVE \E u \in G : Slot(RowOf(u)) = x
      <3>1. x \in 1..Len(in) /\ in[x] < ch
        BY DEF Below, Rows1
      <3>2. PICK r \in Rows : Slot(r) = x
        BY <1>1, <3>1, SlotIs
      <3>3. PICK u \in 1..n : RowOf(u) = r
        BY RowsAreAll
      <3>4. text[u] < ch
        BY <1>1, <3>1, <3>2, <3>3 DEF Letter
      <3>5. u \in G
        BY <3>4
      <3> HIDE DEF G
      <3> QED  BY <3>2, <3>3, <3>5
    <2>4. f \in [G -> Below(ch)] /\ (\A u, v \in G : f[u] = f[v] => u = v)
          /\ \A x \in Below(ch) : \E u \in G : f[u] = x
      <3> HIDE DEF G, ch
      <3> QED  BY <2>1, <2>2, <2>3
    <2> HIDE DEF f, G, ch
    <2> QED  BY <1>3, <2>4, SameSize
  <1>5. Cardinality(Earlier(ch, m)) = Cardinality(H)
    <2> DEFINE f == [u \in H |-> RowOf(u)]
    <2>1. ASSUME NEW u \in H PROVE RowOf(u) \in Earlier(ch, m)
      <3>1. RowOf(u) \in Rows /\ Letter(RowOf(u)) = ch /\ RowOf(u) < m
        BY <1>1
      <3> HIDE DEF ch, m
      <3> QED  BY <3>1 DEF Earlier
    <2>2. ASSUME NEW u \in H, NEW v \in H, RowOf(u) = RowOf(v) PROVE u = v
      <3>1. u \in 0..n /\ v \in 0..n
        BY <1>1
      <3> QED  BY <2>2, <3>1, RowOfIs
    <2>3. ASSUME NEW r \in Earlier(ch, m) PROVE \E u \in H : RowOf(u) = r
      <3>1. r \in Rows /\ r < m /\ Letter(r) = ch
        BY DEF Earlier
      <3>2. PICK u \in 1..n : RowOf(u) = r
        BY <3>1, RowsAreAll
      <3>3. text[u] = ch /\ RowOf(u) < m
        BY <1>1, <3>1, <3>2
      <3>4. u \in H
        BY <3>3
      <3> HIDE DEF H
      <3> QED  BY <3>2, <3>4
    <2>4. f \in [H -> Earlier(ch, m)] /\ (\A u, v \in H : f[u] = f[v] => u = v)
          /\ \A x \in Earlier(ch, m) : \E u \in H : f[u] = x
      <3> HIDE DEF H, ch, m
      <3> QED  BY <2>1, <2>2, <2>3
    <2> HIDE DEF f, H, ch, m
    <2> QED  BY <1>3, <2>4, SameSize
  <1>6. Before(m) = 1 + Cardinality(Below(ch)) + Cardinality(Earlier(ch, m))
    BY <1>1 DEF Before, First
  <1>7. RowOf(t - 1) = 1 + Cardinality(RowsUnder(t))
    BY RowsUnderAre
  <1> HIDE DEF G, H, ch, m
  <1>8. Cardinality(RowsUnder(t)) = Cardinality(G) + Cardinality(H)
        /\ Cardinality(G) \in Nat /\ Cardinality(H) \in Nat
    BY <1>2, <1>3, Disjoint
  <1>9. Before(m) = RowOf(t - 1)
    BY <1>4, <1>5, <1>6, <1>7, <1>8
  <1> QED  BY <1>9 DEF m

LEMMA PairRow ==
  ASSUME Transformed, NEW t \in 1..Len(text) - 1
  PROVE  /\ RowOf(t) \in Others
         /\ Letter(RowOf(t)) = text[t] /\ Char(RowOf(t)) = text[t + 1]
         /\ PairOf(RowOf(t)) = text[t] * Alphabet + text[t + 1]
         /\ PairOf(RowOf(t)) \in Pairs
         /\ text[t] \in 0..Alphabet - 1 /\ text[t + 1] \in 0..Alphabet - 1
  <1>1. /\ Accepted /\ Len(text) \in Nat /\ t \in 1..Len(text) /\ t + 1 \in 1..Len(text)
        /\ t + 1 - 1 = t /\ text \in Seq(Bytes)
    BY DEF Transformed, Ordered
  <1>2. Before(RowOf(t + 1)) = RowOf(t)
    BY <1>1, BeforeRow
  <1>3. RowOf(t + 1) \in Rows /\ Letter(RowOf(t + 1)) = text[t + 1] /\ Letter(RowOf(t)) = text[t]
        /\ RowOf(t) \in Others
    BY <1>1, RowOfIs
  <1>4. Char(RowOf(t)) = text[t + 1]
    BY <1>1, <1>2, <1>3, BeforeIs
  <1>5. text[t] \in 0..Alphabet - 1 /\ text[t + 1] \in 0..Alphabet - 1
    BY <1>1, ElementOfSeq DEF Bytes
  <1>6. PairOf(RowOf(t)) \in Pairs
    BY <1>1, <1>3, PairIs
  <1> QED  BY <1>3, <1>4, <1>5, <1>6 DEF PairOf

LEMMA PairsCompare ==
  ASSUME NEW s \in Nat \ {0}, NEW a \in 0..s - 1, NEW b \in 0..s - 1,
         NEW d \in 0..s - 1, NEW e \in 0..s - 1
  PROVE  /\ a * s + b \in Int /\ d * s + e \in Int
         /\ a * s + b < d * s + e <=> a < d \/ (a = d /\ b < e)
         /\ a * s + b = d * s + e <=> a = d /\ b = e
  <1>1. \A x, y \in 0..s - 1 : x < y => x * s + s <= y * s
    <2> TAKE x, y \in 0..s - 1
    <2> HAVE x < y
    <2>1. x + 1 \in Int /\ y \in Int /\ x + 1 <= y /\ s \in Nat /\ (x + 1) * s = x * s + s
      BY SMTT(40)
    <2> DEFINE z == x + 1
    <2>2. z \in Int /\ z <= y /\ z * s = x * s + s
      BY <2>1
    <2> HIDE DEF z
    <2>3. z * s <= y * s
      BY <2>1, <2>2, ProductAtMost
    <2> QED  BY <2>2, <2>3
  <1>2. a * s \in Int /\ d * s \in Int
    BY Product
  <1> DEFINE g == a * s
             h == d * s
  <1>3. (a < d => g + s <= h) /\ (d < a => h + s <= g) /\ (a = d => g = h)
    BY <1>1
  <1> HIDE DEF g, h
  <1>4. g \in Int /\ h \in Int
    BY <1>2 DEF g, h
  <1>5. /\ g + b \in Int /\ h + e \in Int
        /\ g + b < h + e <=> a < d \/ (a = d /\ b < e)
        /\ g + b = h + e <=> a = d /\ b = e
    BY <1>3, <1>4
  <1> QED  BY <1>5 DEF g, h

-----------------------------------------------------------------------------
(* biPSI puts each row where the walk comes from.                            *)
LEMMA SpotRow ==
  ASSUME Transformed, NEW t \in 1..Len(text) - 1
  PROVE  Spot(RowOf(t)) = RowOf(t - 1)
  <1> DEFINE n == Len(text)
             m == RowOf(t)
             w == PairOf(m)
             G == {u \in 1..n - 1 : PairOf(RowOf(u)) < w}
             H == {u \in 1..n - 1 : PairOf(RowOf(u)) = w /\ RowOf(u) < m}
             J == IF w >= Lead THEN {n} ELSE {}
  <1>1. /\ Accepted /\ n \in Nat /\ n >= 2 /\ Len(in) = n /\ Alphabet \in Nat \ {0}
        /\ t \in 1..n /\ t + 1 \in 1..n /\ n \in 1..n
    BY DEF Transformed, Ordered, Accepted
  <1>2. \A u \in 1..n - 1 :
          /\ u \in 1..n /\ u + 1 \in 1..n /\ u + 1 - 1 = u
          /\ RowOf(u) \in Others /\ PairOf(RowOf(u)) \in Int
          /\ PairOf(RowOf(u)) = text[u] * Alphabet + text[u + 1]
          /\ text[u] \in 0..Alphabet - 1 /\ text[u + 1] \in 0..Alphabet - 1
    <2> TAKE u \in 1..n - 1
    <2> HIDE DEF w, m, n
    <2>1. /\ RowOf(u) \in Others /\ PairOf(RowOf(u)) \in Pairs
          /\ PairOf(RowOf(u)) = text[u] * Alphabet + text[u + 1]
          /\ text[u] \in 0..Alphabet - 1 /\ text[u + 1] \in 0..Alphabet - 1
      BY PairRow DEF n
    <2>2. PairOf(RowOf(u)) \in Int
      BY <1>1, <2>1, PairsAre
    <2>3. u \in 1..n /\ u + 1 \in 1..n /\ u + 1 - 1 = u
      BY <1>1
    <2> QED  BY <2>1, <2>2, <2>3
  <1>3. ASSUME NEW u \in 1..n - 1
        PROVE  RowOf(u - 1) < RowOf(t - 1) <=> u \in G \/ u \in H
    <2>1. RowOf(u - 1) < RowOf(t - 1)
            <=> text[u] < text[t] \/ (text[u] = text[t] /\ RowOf(u) < RowOf(t))
      BY <1>1, <1>2, RowsCompare
    <2>2. RowOf(u) < RowOf(t)
            <=> text[u + 1] < text[t + 1] \/ (text[u + 1] = text[t + 1] /\ RowOf(u + 1) < RowOf(t + 1))
      <3> DEFINE x == u + 1
                 y == t + 1
      <3>1. x \in 1..n /\ y \in 1..n /\ x - 1 = u /\ y - 1 = t
        BY <1>1, <1>2
      <3> HIDE DEF x, y
      <3>2. RowOf(x - 1) < RowOf(y - 1) <=> text[x] < text[y] \/ (text[x] = text[y] /\ RowOf(x) < RowOf(y))
        BY <3>1, RowsCompare
      <3>3. RowOf(u) < RowOf(t) <=> text[x] < text[y] \/ (text[x] = text[y] /\ RowOf(x) < RowOf(y))
        BY <3>1, <3>2
      <3> QED  BY <3>3 DEF x, y
    <2>3. /\ PairOf(RowOf(u)) < w
               <=> text[u] < text[t] \/ (text[u] = text[t] /\ text[u + 1] < text[t + 1])
          /\ PairOf(RowOf(u)) = w <=> text[u] = text[t] /\ text[u + 1] = text[t + 1]
      <3> DEFINE a == text[u]
                 b == text[u + 1]
                 d == text[t]
                 e == text[t + 1]
      <3>1. a \in 0..Alphabet - 1 /\ b \in 0..Alphabet - 1 /\ d \in 0..Alphabet - 1
            /\ e \in 0..Alphabet - 1 /\ PairOf(RowOf(u)) = a * Alphabet + b
            /\ w = d * Alphabet + e
        BY <1>2
      <3> HIDE DEF a, b, d, e, w
      <3>2. /\ a * Alphabet + b < d * Alphabet + e <=> a < d \/ (a = d /\ b < e)
            /\ a * Alphabet + b = d * Alphabet + e <=> a = d /\ b = e
        BY <1>1, <3>1, PairsCompare
      <3>3. /\ PairOf(RowOf(u)) < w <=> a < d \/ (a = d /\ b < e)
            /\ PairOf(RowOf(u)) = w <=> a = d /\ b = e
        BY <3>1, <3>2
      <3> QED  BY <3>3 DEF a, b, d, e
    <2>4. u \in G <=> PairOf(RowOf(u)) < w
      OBVIOUS
    <2>5. u \in H <=> PairOf(RowOf(u)) = w /\ RowOf(u) < m
      OBVIOUS
    <2> HIDE DEF G, H, w
    <2> QED  BY <2>1, <2>2, <2>3, <2>4, <2>5
  <1>4. RowOf(n - 1) < RowOf(t - 1) <=> w >= Lead
    <2>1. RowOf(n - 1) < RowOf(t - 1)
            <=> text[n] < text[t] \/ (text[n] = text[t] /\ RowOf(n) < RowOf(t))
      BY <1>1, RowsCompare
    <2>2. RowOf(n) = 0 /\ RowOf(t) \in 1..n /\ Letter(RowOf(n)) = text[n]
      <3>1. t \in 0..n - 1
        BY <1>1
      <3> QED  BY <1>1, <3>1, RowOfIs
    <2>3. in[1] = text[n]
      BY <1>1, <2>2 DEF Letter, Slot, Accepted
    <2>4. text[n] \in 0..Alphabet - 1
      BY <1>1, ElementOfSeq DEF Transformed, Ordered, Bytes
    <2> DEFINE l == text[n] * Alphabet + 0
    <2>5. /\ w < l <=> text[t] < text[n] \/ (text[t] = text[n] /\ text[t + 1] < 0)
          /\ w \in Int /\ l \in Int
      <3>1. 0 \in 0..Alphabet - 1
        BY <1>1
      <3> DEFINE a == text[n]
                 d == text[t]
                 e == text[t + 1]
      <3>2. a \in 0..Alphabet - 1 /\ d \in 0..Alphabet - 1 /\ e \in 0..Alphabet - 1
            /\ l = a * Alphabet + 0 /\ w = d * Alphabet + e
        BY <1>2, <2>4
      <3> HIDE DEF a, d, e, l, w
      <3>3. /\ d * Alphabet + e < a * Alphabet + 0 <=> d < a \/ (d = a /\ e < 0)
            /\ d * Alphabet + e \in Int /\ a * Alphabet + 0 \in Int
        BY <1>1, <3>1, <3>2, PairsCompare
      <3>4. (w < l <=> d < a \/ (d = a /\ e < 0)) /\ w \in Int /\ l \in Int
        BY <3>2, <3>3
      <3> QED  BY <3>4 DEF a, d, e
    <2>6. l = Lead
      <3>1. text[n] * Alphabet \in Int
        BY <1>1, <2>4, Product
      <3> QED  BY <2>3, <3>1 DEF Lead
    <2>7. text[n] \in Int /\ text[t] \in Int /\ text[t + 1] >= 0 /\ text[t + 1] \in Int
      BY <1>1, <1>2, <2>4
    <2> HIDE DEF w, l
    <2> QED  BY <2>1, <2>2, <2>5, <2>6, <2>7, SMTT(40)
  <1>5. RowsUnder(t) = (G \cup H) \cup J /\ G \cap H = {} /\ (G \cup H) \cap J = {}
    <2>1. ASSUME NEW u \in 1..n
          PROVE  RowOf(u - 1) < RowOf(t - 1) <=> u \in G \/ u \in H \/ u \in J
      <3>1. CASE u = n
        <4>1. u \notin G /\ u \notin H
          BY <1>1, <3>1
        <4> HIDE DEF G, H, w
        <4> QED  BY <1>4, <3>1, <4>1
      <3>2. CASE u # n
        <4>1. u \in 1..n - 1 /\ u \notin J
          BY <1>1, <3>2
        <4> HIDE DEF G, H, J
        <4> QED  BY <1>3, <4>1
      <3> QED  BY <3>1, <3>2
    <2>2. G \subseteq 1..n - 1 /\ H \subseteq 1..n - 1 /\ J \subseteq {n}
      OBVIOUS
    <2>3. \A u \in 1..n - 1 : u \in 1..n /\ u # n
      BY <1>1
    <2>4. \A u : ~(u \in G /\ u \in H)
      <3>1. w \in Int
        BY <1>2
      <3> HIDE DEF w
      <3> QED  BY <1>2, <3>1
    <2> HIDE DEF G, H, J
    <2>5. RowsUnder(t) = (G \cup H) \cup J
      BY <1>1, <2>1, <2>2, <2>3 DEF RowsUnder
    <2> QED  BY <2>2, <2>3, <2>4, <2>5
  <1>6. IsFiniteSet(G) /\ IsFiniteSet(H) /\ IsFiniteSet(J) /\ IsFiniteSet(G \cup H)
    <2>1. IsFiniteSet(RowsUnder(t))
      BY <1>1, RowsUnderAre
    <2> HIDE DEF G, H, J
    <2> QED  BY <1>5, <2>1, FS_Subset
  <1>7. \A u, v \in 1..n - 1 : RowOf(u) = RowOf(v) => u = v
    <2> TAKE u, v \in 1..n - 1
    <2>1. u \in 0..n /\ v \in 0..n
      BY <1>1
    <2> QED  BY <2>1, RowOfIs
  <1>8. \A q \in Others : \E u \in 1..n - 1 : RowOf(u) = q
    <2> TAKE q \in Others
    <2>1. q \in Rows /\ q # 0
      BY <1>1 DEF Others, Rows, N, Accepted
    <2>2. PICK u \in 1..n : RowOf(u) = q
      BY <2>1, RowsAreAll
    <2>3. u # n
      BY <2>1, <2>2, RowOfIs
    <2> QED  BY <1>1, <2>2, <2>3
  <1>9. Cardinality(PairBelow(w)) = Cardinality(G)
    <2> DEFINE f == [u \in G |-> RowOf(u)]
    <2>1. ASSUME NEW u \in G PROVE RowOf(u) \in PairBelow(w) /\ u \in 1..n - 1
      <3>1. RowOf(u) \in Others /\ PairOf(RowOf(u)) < w
        BY <1>2
      <3> HIDE DEF w
      <3> QED  BY <3>1 DEF PairBelow
    <2>2. ASSUME NEW q \in PairBelow(w) PROVE \E u \in G : RowOf(u) = q
      <3>1. q \in Others /\ PairOf(q) < w
        BY DEF PairBelow
      <3>2. PICK u \in 1..n - 1 : RowOf(u) = q
        BY <1>8, <3>1
      <3>3. u \in G
        BY <3>1, <3>2
      <3> HIDE DEF G
      <3> QED  BY <3>2, <3>3
    <2>3. f \in [G -> PairBelow(w)] /\ (\A u, v \in G : f[u] = f[v] => u = v)
          /\ \A x \in PairBelow(w) : \E u \in G : f[u] = x
      <3> HIDE DEF G, w
      <3> QED  BY <1>7, <2>1, <2>2
    <2> HIDE DEF f, G, w
    <2> QED  BY <1>6, <2>3, SameSize
  <1>10. Cardinality(Placed(w, m)) = Cardinality(H)
    <2> DEFINE f == [u \in H |-> RowOf(u)]
    <2>1. ASSUME NEW u \in H PROVE RowOf(u) \in Placed(w, m) /\ u \in 1..n - 1
      <3>1. RowOf(u) \in Others /\ PairOf(RowOf(u)) = w /\ RowOf(u) < m
        BY <1>2
      <3> HIDE DEF w, m
      <3> QED  BY <3>1 DEF Placed, WithPair
    <2>2. ASSUME NEW q \in Placed(w, m) PROVE \E u \in H : RowOf(u) = q
      <3>1. q \in Others /\ PairOf(q) = w /\ q < m
        BY DEF Placed, WithPair
      <3>2. PICK u \in 1..n - 1 : RowOf(u) = q
        BY <1>8, <3>1
      <3>3. u \in H
        BY <3>1, <3>2
      <3> HIDE DEF H
      <3> QED  BY <3>2, <3>3
    <2>3. f \in [H -> Placed(w, m)] /\ (\A u, v \in H : f[u] = f[v] => u = v)
          /\ \A x \in Placed(w, m) : \E u \in H : f[u] = x
      <3> HIDE DEF H, w, m
      <3> QED  BY <1>7, <2>1, <2>2
    <2> HIDE DEF f, H, w, m
    <2> QED  BY <1>6, <2>3, SameSize
  <1>11. Cardinality(J) = IF w >= Lead THEN 1 ELSE 0
    BY FS_EmptySet, FS_Singleton
  <1>12. RowOf(t - 1) = 1 + Cardinality(RowsUnder(t))
    BY <1>1, RowsUnderAre
  <1>13. Spot(m) = 1 + Cardinality(PairBelow(w)) + Cardinality(J) + Cardinality(Placed(w, m))
    BY <1>11 DEF Spot, GroupStart
  <1> HIDE DEF G, H, J, w, m
  <1>14. /\ Cardinality(RowsUnder(t)) = Cardinality(G \cup H) + Cardinality(J)
         /\ Cardinality(G \cup H) = Cardinality(G) + Cardinality(H)
         /\ Cardinality(G) \in Nat /\ Cardinality(H) \in Nat /\ Cardinality(J) \in Nat
    BY <1>5, <1>6, Disjoint
  <1>15. Spot(m) = RowOf(t - 1)
    BY <1>9, <1>10, <1>12, <1>13, <1>14
  <1> QED  BY <1>15 DEF m

-----------------------------------------------------------------------------
(* What Prepare has made of the transform of a text.                         *)
Ready == /\ Transformed
         /\ ends = [w \in Pairs |-> End(w)]
         /\ fastbits \in [0..2^FastbitsLog -> Pairs]
         /\ \A v \in 0..2^FastbitsLog, w \in Pairs :
               Cardinality(WithPair(w)) > 0 /\ (End(w) - 1) \div 2^FastbitsShift >= v
                 => fastbits[v] <= w
         /\ \A r \in Rows : Before(r) # idx => psi[Spot(Before(r))] = r

(* The walk finds the pair at each second position and goes on to the next.  *)
LEMMA WalkFinds ==
  ASSUME Ready, NEW t \in 1..Len(text) - 1, here = RowOf(t - 1)
  PROVE  LET w == CHOOSE x \in Found : \A y \in Found : x <= y
         IN  /\ w \div Alphabet = text[t] /\ w % Alphabet = text[t + 1]
             /\ psi[here] = RowOf(t + 1)
  <1> DEFINE q == RowOf(t)
             w == PairOf(q)
             v == here \div 2^FastbitsShift
             least == CHOOSE x \in Found : \A y \in Found : x <= y
  <1>1. /\ Transformed /\ Accepted /\ Len(text) \in Nat /\ Len(in) = Len(text)
        /\ t - 1 \in 0..Len(text) - 1 /\ t \in 1..Len(text) /\ t + 1 \in 1..Len(text) /\ t + 1 - 1 = t
        /\ t \in 0..Len(text) - 1
    BY SMTT(40) DEF Ready, Transformed, Ordered
  <1>2. /\ q \in Others /\ w \in Pairs /\ Letter(q) = text[t] /\ Char(q) = text[t + 1]
    BY <1>1, PairRow
  <1>3. w \div Alphabet = text[t] /\ w % Alphabet = text[t + 1]
    BY <1>1, <1>2, PairIs
  <1>4. Spot(q) = here
    BY <1>1, SpotRow
  <1>5. psi[here] = RowOf(t + 1)
    <2>1. RowOf(t + 1) \in Rows /\ Before(RowOf(t + 1)) = RowOf(t)
      BY <1>1, RowOfIs, BeforeRow
    <2>2. q # idx
      BY <1>2 DEF Others
    <2>3. psi[Spot(q)] = RowOf(t + 1)
      BY <2>1, <2>2 DEF Ready
    <2> QED  BY <1>4, <2>3
  <1>6. here \in 1..Len(text)
    BY <1>1, RowOfIs
  <1> HIDE DEF q, w
  <1>7. /\ GroupStart(w) <= here /\ here < End(w) /\ GroupStart(w) \in Nat /\ End(w) \in Nat
        /\ Cardinality(WithPair(w)) > 0
    <2>1. GroupStart(w) <= here /\ here < GroupStart(w) + Cardinality(WithPair(w))
      BY <1>1, <1>2, <1>4, SpotIs DEF w
    <2>2. GroupStart(w) \in Nat /\ Cardinality(WithPair(w)) \in Nat
      BY <1>1, <1>2, GroupStartIs, NextPair
    <2> QED  BY <1>6, <2>1, <2>2 DEF End
  <1>8. /\ FastbitsShift \in Nat /\ v \in 0..2^FastbitsLog
        /\ 2^FastbitsShift \in Nat \ {0}
    <2>1. FastbitsLog \in Nat
      BY BwtAssumption
    <2>2. FastbitsShift \in Nat /\ \A x \in 0..Len(in) : x \div 2^FastbitsShift \in 0..2^FastbitsLog
      BY <1>1, <2>1, ShiftIs
    <2>3. here \in 0..Len(in)
      BY <1>1, <1>6
    <2>4. 2^FastbitsShift \in Nat /\ 2^FastbitsShift >= FastbitsShift + 1
      BY <2>2, PowersGrow
    <2>5. 2^FastbitsShift # 0
      BY <2>2, <2>4
    <2> QED  BY <2>2, <2>3, <2>4, <2>5
  <1>9. (End(w) - 1) \div 2^FastbitsShift >= v
    <2> DEFINE d == 2^FastbitsShift
               e == End(w) - 1
    <2>1. d \in Nat \ {0} /\ here \in Int /\ e \in Int /\ here <= e
      BY <1>6, <1>7, <1>8
    <2> HIDE DEF d, e
    <2>2. here \div d \in Int /\ here % d \in 0..d - 1 /\ here = d * (here \div d) + (here % d)
          /\ e \div d \in Int
      BY <2>1, Quotient
    <2> DEFINE g == here \div d
               h == g * d
    <2>3. h \in Int /\ h = d * g
      <3>1. d \in Int /\ g \in Int
        BY <2>1, <2>2
      <3> HIDE DEF g
      <3> QED  BY <3>1, Product
    <2>4. h <= e
      <3> DEFINE f == d * g
                 r == here % d
      <3>1. f \in Int /\ here = f + r /\ h = f /\ r \in 0..d - 1
        BY <2>2, <2>3
      <3> HIDE DEF f, g, h, r
      <3> QED  BY <2>1, <3>1
    <2>5. g \in Int /\ g * d <= e
      BY <2>2, <2>4
    <2> HIDE DEF g, h
    <2>6. g <= e \div d
      BY <2>1, <2>5, QuotientAbove
    <2>7. e \div d >= g
      BY <2>2, <2>5, <2>6
    <2> QED  BY <2>7 DEF d, e, g
  <1>10. \A x \in Found : x \in Pairs /\ x \in Int /\ End(x) > here
    BY <1>1, PairsAre DEF Found, Ready
  <1>11. w \in Found
    <2>1. fastbits[v] <= w /\ fastbits[v] \in Pairs
      BY <1>2, <1>7, <1>8, <1>9 DEF Ready
    <2>2. ends[w] > here
      BY <1>2, <1>6, <1>7 DEF Ready
    <2>3. w \in Int /\ fastbits[v] \in Int
      BY <1>1, <1>2, <2>1, PairsAre
    <2>4. w >= fastbits[v]
      BY <2>1, <2>3
    <2> QED  BY <1>2, <2>2, <2>4 DEF Found
  <1>12. \A x \in Found : w <= x
    <2> TAKE x \in Found
    <2>1. x \in Pairs /\ x \in Int /\ w \in Int /\ End(x) > here
      BY <1>10, <1>11
    <2> SUFFICES ASSUME x < w PROVE FALSE
      BY <2>1
    <2>2. End(x) <= GroupStart(w)
      BY <1>1, <1>2, <2>1, StartsInOrder DEF End
    <2>3. End(x) \in Int
      <3>1. GroupStart(x) \in Nat /\ Cardinality(WithPair(x)) \in Nat
        BY <1>1, <2>1, GroupStartIs, NextPair
      <3> QED  BY <3>1 DEF End
    <2> QED  BY <1>6, <1>7, <2>1, <2>2, <2>3
  <1>13. least = w
    <2>1. least \in Found /\ \A y \in Found : least <= y
      BY <1>11, <1>12
    <2>2. least <= w /\ w <= least /\ least \in Int /\ w \in Int
      BY <1>10, <1>11, <1>12, <2>1
    <2> HIDE DEF least
    <2> QED  BY <2>2
  <1> QED  BY <1>3, <1>5, <1>13

(* biPSI and the groups that fastbits gets depend on the transform only. *)
LEMMA SameTables ==
  ASSUME UNCHANGED <<text, SA, in, idx>>
  PROVE  /\ Transformed' <=> Transformed
         /\ Rows' = Rows /\ N' = N /\ FastbitsShift' = FastbitsShift
         /\ \A r : Before(r)' = Before(r) /\ Spot(r)' = Spot(r) /\ RowOf(r)' = RowOf(r)
         /\ \A w : End(w)' = End(w) /\ WithPair(w)' = WithPair(w)
  <1>1. Accepted' <=> Accepted
    BY DEF Accepted, Bytes
  <1>2. Ordered' <=> Ordered
    BY DEF Ordered, InSuffixOrder, SuffixLess, Bytes
  <1>3. Rows' = Rows /\ N' = N
    BY DEF Rows, N
  <1>4. \A r : Letter(r)' = Letter(r) /\ Pos(r)' = Pos(r) /\ Char(r)' = Char(r)
    BY DEF Letter, Slot, Pos, Char, Within, First, Below, Rows1, Bytes
  <1>5. Transformed' <=> Transformed
    BY <1>1, <1>2, <1>3, <1>4 DEF Transformed
  <1>6. FastbitsShift' = FastbitsShift
    BY <1>3 DEF FastbitsShift
  <1>7. \A r : PairOf(r)' = PairOf(r)
    BY <1>4 DEF PairOf
  <1>8. \A w : WithPair(w)' = WithPair(w) /\ End(w)' = End(w)
    BY DEF End, GroupStart, WithPair, PairBelow, Others, PairOf, Lead, Char,
        Letter, Slot, Within, First, Below, Rows1, Bytes
  <1>9. \A r : Before(r)' = Before(r)
    BY DEF Before, First, Earlier, Below, Rows1, Letter, Slot, Rows, N
  <1>10. \A r : RowOf(r)' = RowOf(r)
    BY DEF RowOf, Pos
  <1>11. \A r : Spot(r)' = Spot(r)
    BY DEF Spot, Placed, GroupStart, WithPair, PairBelow, Others, PairOf, Lead, Char,
        Letter, Slot, Within, First, Below, Rows1, Bytes
  <1> QED  BY <1>3, <1>5, <1>6, <1>8, <1>9, <1>10, <1>11

-----------------------------------------------------------------------------
(* fastbits leads to no pair after those that end in a stretch or later.     *)
LEMMA FastbitsBelow ==
  ASSUME Accepted, fastbits \in [0..2^FastbitsLog -> Pairs],
         NEW v \in 0..2^FastbitsLog, NEW w \in Pairs,
         Cardinality(WithPair(w)) > 0, (End(w) - 1) \div 2^FastbitsShift >= v
  PROVE  FastbitsOf(PairCount, PairStarts(PairCount))[v] <= w
  <1> DEFINE count == PairCount
             start == PairStarts(PairCount)
             reach == {x \in Pairs : count[x] > 0
                         /\ (start[x] + count[x] - 1) \div 2^FastbitsShift >= v}
             best == CHOOSE x \in reach : \A y \in reach : x <= y
  <1>1. count[w] = Cardinality(WithPair(w)) /\ start[w] + count[w] = End(w)
    BY PairCountIs, GroupStartIs DEF End
  <1>2. w \in reach
    <2>1. start[w] \in Nat /\ count[w] \in Nat /\ count[w] > 0 /\ End(w) \in Nat
      BY <1>1, GroupStartIs, NextPair DEF End
    <2> HIDE DEF count, start
    <2> DEFINE e == start[w] + count[w] - 1
    <2>2. e = End(w) - 1
      BY <1>1, <2>1
    <2>3. count[w] > 0 /\ e \div 2^FastbitsShift >= v
      BY <2>1, <2>2
    <2> QED  BY <2>3
  <1>3. reach \in SUBSET Nat
    BY DEF Pairs
  <1>4. FastbitsOf(count, start)[v] = best
    <2>1. v \in DOMAIN fastbits
      OBVIOUS
    <2>2. FastbitsOf(count, start)[v] = IF reach = {} THEN fastbits[v] ELSE best
      <3> HIDE DEF count, start
      <3> QED  BY <2>1 DEF FastbitsOf
    <2> HIDE DEF reach, best, count, start
    <2> QED  BY <1>2, <2>2
  <1> HIDE DEF reach, count, start
  <1>5. \E x \in reach : \A y \in reach : x <= y
    BY <1>2, <1>3, LeastNatural
  <1>6. best <= w
    BY <1>2, <1>5
  <1> HIDE DEF best
  <1> QED  BY <1>4, <1>6 DEF count, start

LEMMA PrepareReady ==
  ASSUME LookupsInv, Transformed, Prepare
  PROVE  Ready' /\ here' = RowOf(0)
  <1>1. /\ step = "decode" /\ UNCHANGED <<text, SA, in, idx>> /\ here' = idx
        /\ fastbits' = FastbitsOf(PairCount, PairStarts(PairCount))
        /\ psi' = Prepared.p /\ step' = "walk"
    BY DEF Prepare, Prepared, Tables0, saisVars
  <1>2. Accepted /\ fastbits \in [0..2^FastbitsLog -> Pairs]
    BY <1>1 DEF Transformed, LookupsInv
  <1>3. LookupsInv'
    BY PrepareLookups
  <1>4. (ends = [w \in Pairs |-> End(w)] /\ fastbits \in [0..2^FastbitsLog -> Pairs])'
    BY <1>1, <1>3 DEF LookupsInv
  <1>5. Transformed'
    BY <1>1, SameTables
  <1>6. \A r \in Rows : Before(r) # idx => Prepared.p[Spot(Before(r))] = r
    BY <1>2, PreparedIs
  <1>7. (\A r \in Rows : Before(r) # idx => psi[Spot(Before(r))] = r)'
    <2>1. /\ Rows' = Rows /\ idx' = idx
          /\ \A r : Before(r)' = Before(r) /\ Spot(r)' = Spot(r)
      BY <1>1, SameTables
    <2>2. \A r : Spot(Before(r))' = Spot(Before(r))
      BY <1>1 DEF Before, First, Earlier, Below, Rows1, Letter, Slot, Rows, N,
          Spot, Placed, GroupStart, WithPair, PairBelow, Others, PairOf, Lead, Char, Within, Bytes
    <2> QED  BY <1>1, <1>6, <2>1, <2>2
  <1>8. (\A v \in 0..2^FastbitsLog, w \in Pairs :
           Cardinality(WithPair(w)) > 0 /\ (End(w) - 1) \div 2^FastbitsShift >= v
             => fastbits[v] <= w)'
    <2>1. \A v \in 0..2^FastbitsLog, w \in Pairs :
            Cardinality(WithPair(w)) > 0 /\ (End(w) - 1) \div 2^FastbitsShift >= v
              => fastbits'[v] <= w
      BY <1>1, <1>2, FastbitsBelow
    <2>2. /\ FastbitsShift' = FastbitsShift
          /\ \A w : End(w)' = End(w) /\ WithPair(w)' = WithPair(w)
      BY <1>1, SameTables
    <2> QED  BY <2>1, <2>2 DEF Pairs
  <1>9. here' = RowOf(0)
    BY <1>1, RowOfIs
  <1> QED  BY <1>4, <1>5, <1>7, <1>8, <1>9 DEF Ready

-----------------------------------------------------------------------------
(* Two bytes with each step of the walk. *)
WalkRight ==
  \E k2 \in Nat : /\ Len(restored) = 2 * k2 /\ 2 * k2 <= Len(text)
                  /\ restored \in Seq(Bytes) /\ here = RowOf(2 * k2)
                  /\ \A x \in 1..2 * k2 : restored[x] = text[x]

BwtInv ==
  /\ LookupsInv
  /\ step # "encode" => at = "sorted"
  /\ step \in {"encode", "decode"} => restored = <<>>
  /\ text # <<>> =>
       /\ step = "decode" => IF Len(text) = 1 THEN in = text ELSE Transformed
       /\ step = "walk" => Ready /\ WalkRight
       /\ step = "done" => restored = text

LEMMA WalkKeeps ==
  ASSUME BwtInv, text # <<>>, Walk
  PROVE  Ready' /\ WalkRight'
  <1>1. /\ step = "walk" /\ UNCHANGED <<text, SA, in, idx, fastbits, ends, psi>> /\ here' = psi[here]
        /\ Len(restored) \div 2 < N \div 2
        /\ LET w == CHOOSE x \in Found : \A y \in Found : x <= y
           IN  restored' = restored \o <<w \div Alphabet, w % Alphabet>>
    BY DEF Walk, saisVars
  <1>2. Ready /\ WalkRight
    BY <1>1 DEF BwtInv
  <1>3. N = Len(text) /\ Len(text) \in Nat /\ text \in Seq(Bytes) /\ Transformed
    BY <1>2 DEF Ready, Transformed, Ordered, N
  <1>4. Ready'
    <2>1. Transformed' /\ Rows' = Rows /\ FastbitsShift' = FastbitsShift
      BY <1>1, <1>3, SameTables
    <2>2. \A w : End(w)' = End(w) /\ WithPair(w)' = WithPair(w)
      BY <1>1, SameTables
    <2>3. \A r : Before(r)' = Before(r)
      BY <1>1, SameTables
    <2>4. \A r : Spot(Before(r))' = Spot(Before(r))
      BY <1>1 DEF Before, First, Earlier, Below, Rows1, Letter, Slot, Rows, N,
          Spot, Placed, GroupStart, WithPair, PairBelow, Others, PairOf, Lead, Char, Within, Bytes
    <2> QED  BY <1>1, <1>2, <2>1, <2>2, <2>3, <2>4 DEF Ready, Pairs
  <1>5. PICK k2 \in Nat : /\ Len(restored) = 2 * k2 /\ 2 * k2 <= Len(text)
                          /\ restored \in Seq(Bytes) /\ here = RowOf(2 * k2)
                          /\ \A x \in 1..2 * k2 : restored[x] = text[x]
    BY <1>2 DEF WalkRight
  <1> DEFINE t == 2 * k2 + 1
             w == CHOOSE x \in Found : \A y \in Found : x <= y
             two == <<w \div Alphabet, w % Alphabet>>
             next == restored \o two
  <1>6. t \in 1..Len(text) - 1 /\ t - 1 = 2 * k2 /\ t + 1 = 2 * (k2 + 1) /\ t + 1 <= Len(text)
        /\ t \in 1..Len(text) /\ t + 1 \in 1..Len(text)
    <2>1. (2 * k2) \div 2 = k2 /\ k2 < Len(text) \div 2
      BY <1>1, <1>3, <1>5
    <2>2. 2 * k2 + 2 <= Len(text)
      BY <1>3, <2>1
    <2> QED  BY <1>3, <2>2
  <1> HIDE DEF t
  <1>7. w \div Alphabet = text[t] /\ w % Alphabet = text[t + 1] /\ psi[here] = RowOf(t + 1)
    <2>1. here = RowOf(t - 1)
      BY <1>5, <1>6
    <2> QED  BY <1>2, <1>6, <2>1, WalkFinds
  <1> HIDE DEF w
  <1>8. two \in Seq(Bytes) /\ Len(two) = 2 /\ two[1] = text[t] /\ two[2] = text[t + 1]
    <2>1. text[t] \in Bytes /\ text[t + 1] \in Bytes
      BY <1>3, <1>6, ElementOfSeq
    <2> QED  BY <1>7, <2>1
  <1> HIDE DEF two
  <1> DEFINE m == 2 * k2
  <1> HIDE DEF m
  <1>9. /\ next \in Seq(Bytes) /\ Len(next) = t + 1
        /\ \A x \in 1..t + 1 : next[x] = text[x]
    <2>0. /\ m \in Nat /\ Len(restored) = m /\ restored \in Seq(Bytes)
          /\ \A x \in 1..m : restored[x] = text[x]
      BY <1>5 DEF m
    <2>1. /\ next \in Seq(Bytes) /\ Len(next) = m + 2
          /\ \A x \in 1..m + 2 : next[x] = IF x <= m THEN restored[x] ELSE two[x - m]
      <3>1. /\ next \in Seq(Bytes) /\ Len(next) = Len(restored) + Len(two)
            /\ \A x \in 1..Len(restored) + Len(two) :
                  next[x] = IF x <= Len(restored) THEN restored[x] ELSE two[x - Len(restored)]
        BY <1>8, <2>0, ConcatProperties
      <3> HIDE DEF next
      <3> QED  BY <1>8, <2>0, <3>1
    <2>2. t + 1 = m + 2 /\ t = m + 1
      BY DEF t, m
    <2>3. ASSUME NEW x \in 1..t + 1 PROVE next[x] = text[x]
      <3>1. x \in 1..m + 2
        BY <2>2
      <3>2. CASE x <= m
        <4>1. x \in 1..m
          BY <2>0, <3>2
        <4> QED  BY <2>0, <2>1, <3>1, <3>2, <4>1
      <3>3. CASE x = m + 1
        <4>1. ~(x <= m) /\ x - m = 1 /\ x = t
          BY <2>0, <2>2, <3>3
        <4> QED  BY <1>8, <2>1, <3>1, <4>1
      <3>4. CASE x = m + 2
        <4>1. ~(x <= m) /\ x - m = 2 /\ x = t + 1
          BY <2>0, <2>2, <3>4
        <4> QED  BY <1>8, <2>1, <3>1, <4>1
      <3>5. x <= m \/ x = m + 1 \/ x = m + 2
        BY <2>0, <3>1
      <3> HIDE DEF next
      <3> QED  BY <3>2, <3>3, <3>4, <3>5
    <2> QED  BY <2>1, <2>2, <2>3
  <1>10. restored' = next /\ text' = text
    BY <1>1 DEF two, w
  <1>11. here' = RowOf(t + 1)
    BY <1>1, <1>7
  <1> HIDE DEF next
  <1>12. WalkRight'
    <2> DEFINE j == k2 + 1
    <2>1. j \in Nat /\ 2 * j = t + 1 /\ 2 * j <= Len(text)
      BY <1>6
    <2> HIDE DEF j
    <2>2. /\ Len(restored') = 2 * j /\ 2 * j <= Len(text') /\ restored' \in Seq(Bytes)
          /\ here' = RowOf(2 * j) /\ \A x \in 1..2 * j : restored'[x] = text'[x]
      BY <1>9, <1>10, <1>11, <2>1
    <2>3. RowOf(2 * j)' = RowOf(2 * j)
      BY <1>1 DEF RowOf, Pos
    <2> QED  BY <2>1, <2>2, <2>3 DEF WalkRight, Bytes
  <1> QED  BY <1>4, <1>12

LEMMA FinishRight ==
  ASSUME BwtInv, text # <<>>, Finish
  PROVE  restored' = text
  <1>1. /\ step = "walk" /\ Len(restored) \div 2 = N \div 2
        /\ restored' = Append(SubSeq(restored, 1, N - 1), in[1])
    BY DEF Finish
  <1>2. Ready /\ WalkRight
    BY <1>1 DEF BwtInv
  <1> DEFINE n == Len(text)
  <1>3. N = n /\ n \in Nat /\ n >= 2 /\ text \in Seq(Bytes) /\ Transformed /\ Accepted
    BY <1>2 DEF Ready, Transformed, Ordered, N
  <1>4. PICK k2 \in Nat : /\ Len(restored) = 2 * k2 /\ 2 * k2 <= n
                          /\ restored \in Seq(Bytes)
                          /\ \A x \in 1..2 * k2 : restored[x] = text[x]
    BY <1>2 DEF WalkRight
  <1>5. in[1] = text[n] /\ text[n] \in Bytes
    <2>1. n \in 1..n
      BY <1>3
    <2>2. RowOf(n) = 0 /\ Letter(RowOf(n)) = text[n]
      BY <1>3, <2>1, RowOfIs
    <2> QED  BY <1>3, <2>1, <2>2, ElementOfSeq DEF Letter, Slot, Accepted
  <1>6. n - 1 <= 2 * k2
    <2>1. (2 * k2) \div 2 = k2 /\ k2 = n \div 2
      BY <1>1, <1>3, <1>4
    <2> QED  BY <1>3, <2>1
  <1> DEFINE most == SubSeq(restored, 1, n - 1)
  <1>7. /\ most \in Seq(Bytes) /\ Len(most) = n - 1 /\ \A x \in 1..n - 1 : most[x] = text[x]
    <2>1. 1 \in Int /\ n - 1 \in Int /\ 1 <= n - 1 /\ \A x \in 1..n - 1 : x \in 1..2 * k2 /\ x \in 1..n
      BY <1>3, <1>4, <1>6
    <2>2. \A x \in 1..n - 1 : restored[x] = text[x] /\ restored[x] \in Bytes
      BY <1>3, <1>4, <2>1, ElementOfSeq
    <2>3. /\ most \in Seq(Bytes) /\ Len(most) = n - 1 - 1 + 1
          /\ \A x \in 1..n - 1 - 1 + 1 : most[x] = restored[1 + x - 1]
      BY <2>1, <2>2, SubSeqProperties
    <2>4. n - 1 - 1 + 1 = n - 1 /\ \A x \in 1..n - 1 : 1 + x - 1 = x
      BY <1>3
    <2> QED  BY <2>2, <2>3, <2>4
  <1> HIDE DEF most
  <1>8. /\ Append(most, text[n]) \in Seq(Bytes) /\ Len(Append(most, text[n])) = n
        /\ \A x \in 1..n : Append(most, text[n])[x] = text[x]
    <2> DEFINE all == Append(most, text[n])
    <2>1. /\ all \in Seq(Bytes) /\ Len(all) = n - 1 + 1
          /\ \A x \in 1..n - 1 : all[x] = most[x]
          /\ all[n - 1 + 1] = text[n]
      BY <1>5, <1>7, AppendProperties
    <2>2. n - 1 + 1 = n /\ \A x \in 1..n : x \in 1..n - 1 \/ x = n
      BY <1>3
    <2> HIDE DEF all
    <2> QED  BY <1>7, <2>1, <2>2 DEF all
  <1>9. Append(most, text[n]) = text
    <2> DEFINE all == Append(most, text[n])
    <2>1. all \in Seq(Bytes) /\ text \in Seq(Bytes) /\ Len(all) = Len(text)
          /\ \A x \in 1..Len(text) : all[x] = text[x]
      BY <1>3, <1>8
    <2> HIDE DEF all
    <2> QED  BY <2>1, SeqEqual DEF all
  <1> QED  BY <1>1, <1>3, <1>5, <1>9 DEF most

-----------------------------------------------------------------------------
(* Each step keeps the invariant of the transform.                           *)

LEMMA InitEncodeInv ==
  ASSUME NEW s \in Texts \cup {<<>>} \cup {<<ch>> : ch \in 0..Alphabet - 1}, InitEncode(s)
  PROVE  BwtInv
  <1>1. s \in Seq(Bytes)
    <2>1. CASE s \in Texts
      BY <2>1, SaisAssumption DEF Bytes
    <2>2. CASE s = <<>>
      BY <2>2
    <2>3. CASE s \in {<<ch>> : ch \in 0..Alphabet - 1}
      <3>1. PICK ch \in Bytes : s = <<ch>>
        BY <2>3 DEF Bytes
      <3> QED  BY <3>1
    <2> QED  BY <2>1, <2>2, <2>3
  <1>2. text = s /\ step = "encode" /\ restored = <<>>
    BY DEF InitEncode, SaisInit, Idle
  <1> QED  BY <1>1, <1>2 DEF BwtInv, LookupsInv

LEMMA InitDamagedInv ==
  ASSUME NEW d \in Damaged, InitDamaged(d)
  PROVE  BwtInv /\ step # "encode"
  <1>1. text = <<>> /\ step = "decode" /\ restored = <<>> /\ at = "sorted" /\ in = d.in
        /\ fastbits \in Used
    BY DEF InitDamaged, Idle
  <1>2. in \in Seq(Bytes) /\ fastbits \in [0..2^FastbitsLog -> Pairs]
    BY <1>1, BwtAssumption, UsedIs DEF Bytes
  <1> QED  BY <1>1, <1>2 DEF BwtInv, LookupsInv

LEMMA EncodeInv ==
  ASSUME BwtInv, SuffixesSorted, Encode
  PROVE  BwtInv'
  <1>1. /\ step = "encode" /\ at = "sorted" /\ UNCHANGED <<text, SA, at, restored>>
        /\ fastbits' \in Used /\ step' = "decode"
    BY DEF Encode, saisVars
  <1>2. text \in Seq(Bytes) /\ restored = <<>> /\ Len(text) \in Nat
    BY <1>1, LenProperties DEF BwtInv, LookupsInv
  <1>3. fastbits' \in [0..2^FastbitsLog -> Pairs]
    BY <1>1, UsedIs
  <1>4. CASE Len(text) <= 1
    <2>1. in' = text
      BY <1>4 DEF Encode
    <2>2. text # <<>> => Len(text) = 1
      <3>1. Len(text) = 0 => text = <<>>
        BY <1>2, EmptySeq
      <3> DEFINE n == Len(text)
      <3>2. n \in Nat /\ n <= 1 /\ (n = 0 => text = <<>>)
        BY <1>2, <1>4, <3>1
      <3> HIDE DEF n
      <3>3. n = 0 \/ n = 1
        BY <3>2
      <3> QED  BY <3>2, <3>3 DEF n
    <2>3. LookupsInv'
      BY <1>1, <1>2, <1>3, <2>1 DEF LookupsInv, Pairs, Bytes
    <2> QED  BY <1>1, <1>2, <2>1, <2>2, <2>3 DEF BwtInv
  <1>5. CASE ~(Len(text) <= 1)
    <2>1. Ordered
      BY <1>1, <1>2, <1>5 DEF Ordered, SuffixesSorted
    <2>2. Transformed'
      BY <2>1, EncodeTransforms
    <2>3. (in \in Seq(Bytes))'
      BY <2>2 DEF Transformed, Accepted
    <2>4. LookupsInv'
      BY <1>1, <1>2, <1>3, <2>3 DEF LookupsInv, Pairs, Bytes
    <2>5. text' = text /\ Len(text) # 1
      <3> DEFINE n == Len(text)
      <3>1. n \in Nat /\ ~(n <= 1)
        BY <1>2, <1>5
      <3> HIDE DEF n
      <3>2. n # 1
        BY <3>1
      <3> QED  BY <1>1, <3>2 DEF n
    <2> QED  BY <1>1, <1>2, <2>2, <2>4, <2>5 DEF BwtInv
  <1> QED  BY <1>4, <1>5

LEMMA ComputeSAInv ==
  ASSUME BwtInv, ComputeSA
  PROVE  BwtInv'
  <1>1. step = "encode" /\ step' = step /\ UNCHANGED <<text, restored>>
    BY ComputeSAKeeps
  <1> QED  BY <1>1 DEF BwtInv, LookupsInv, Bytes

LEMMA PrepareInv ==
  ASSUME BwtInv, Prepare
  PROVE  BwtInv'
  <1>1. /\ step = "decode" /\ step' = "walk" /\ N >= 2 /\ UNCHANGED <<text, SA, at, in, idx, restored>>
    BY DEF Prepare, saisVars
  <1>2. LookupsInv'
    BY PrepareLookups DEF BwtInv
  <1>3. ASSUME text # <<>> PROVE Ready' /\ WalkRight'
    <2>1. Transformed
      <3>1. Len(text) # 1
        <4> SUFFICES ASSUME Len(text) = 1 PROVE FALSE
          OBVIOUS
        <4>1. in = text
          BY <1>1, <1>3 DEF BwtInv
        <4> DEFINE n == Len(in)
        <4>2. n >= 2 /\ n = 1
          BY <1>1, <4>1 DEF N
        <4> HIDE DEF n
        <4> QED  BY <4>2
      <3> QED  BY <1>1, <1>3, <3>1 DEF BwtInv
    <2>2. Ready' /\ here' = RowOf(0)
      BY <2>1, PrepareReady DEF BwtInv
    <2>3. RowOf(0)' = RowOf(0) /\ restored = <<>> /\ Len(text) \in Nat
      BY <1>1, <2>1 DEF RowOf, Pos, BwtInv, Transformed, Ordered
    <2>4. /\ 0 \in Nat /\ Len(restored') = 2 * 0 /\ 2 * 0 <= Len(text') /\ restored' \in Seq(Bytes')
          /\ here' = RowOf(2 * 0)' /\ \A x \in 1..2 * 0 : restored'[x] = text'[x]
      BY <1>1, <2>2, <2>3
    <2> QED  BY <2>2, <2>4 DEF WalkRight
  <1> QED  BY <1>1, <1>2, <1>3 DEF BwtInv

LEMMA WalkInv ==
  ASSUME BwtInv, Walk
  PROVE  BwtInv'
  <1>1. step = "walk" /\ UNCHANGED <<text, at, step>>
    BY DEF Walk, saisVars
  <1>2. LookupsInv'
    BY WalkLookups DEF BwtInv
  <1>3. text # <<>> => Ready' /\ WalkRight'
    BY WalkKeeps
  <1> QED  BY <1>1, <1>2, <1>3 DEF BwtInv

LEMMA DoneInv ==
  ASSUME BwtInv, Copy \/ InvalidIndex \/ Finish
  PROVE  BwtInv'
  <1>1. UNCHANGED <<text, at>> /\ step' \in {"done", "invalid index"} /\ step # "encode"
        /\ (step' = "done" => Copy \/ Finish)
    BY DEF Copy, InvalidIndex, Finish, saisVars
  <1>2. ASSUME Copy, text # <<>> PROVE restored' = text
    <2>1. restored' = in /\ step = "decode" /\ N <= 1
      BY <1>2 DEF Copy
    <2>2. Len(text) = 1
      <3> SUFFICES ASSUME Len(text) # 1 PROVE FALSE
        OBVIOUS
      <3>1. Transformed
        BY <1>2, <2>1 DEF BwtInv
      <3>2. Len(text) >= 2 /\ N = Len(text) /\ Len(text) \in Nat
        BY <3>1 DEF Transformed, Ordered, N
      <3> QED  BY <2>1, <3>2
    <2> QED  BY <1>2, <2>1, <2>2 DEF BwtInv
  <1>3. ASSUME Finish, text # <<>> PROVE restored' = text
    BY <1>3, FinishRight
  <1> QED  BY <1>1, <1>2, <1>3 DEF BwtInv, LookupsInv, Bytes

LEMMA StutterBwtInv ==
  ASSUME BwtInv, UNCHANGED bwtVars
  PROVE  BwtInv'
  <1>1. UNCHANGED <<text, SA, at, in, idx, fastbits, ends, psi, here, restored, step>>
    BY DEF bwtVars, saisVars, decodeVars
  <1>2. LookupsInv'
    <2>1. Accepted' <=> Accepted
      BY <1>1 DEF Accepted, Bytes
    <2>2. N' = N /\ \A w : End(w)' = End(w)
      BY <1>1, SameTables
    <2>3. LookupsInv
      BY DEF BwtInv
    <2> QED  BY <1>1, <2>1, <2>2, <2>3 DEF LookupsInv, Pairs, Bytes
  <1>3. ASSUME Ready PROVE Ready'
    <2>1. Transformed' /\ Rows' = Rows /\ FastbitsShift' = FastbitsShift
      BY <1>1, <1>3, SameTables DEF Ready
    <2>2. \A w : End(w)' = End(w) /\ WithPair(w)' = WithPair(w)
      BY <1>1, SameTables
    <2>3. \A r : Before(r)' = Before(r)
      BY <1>1, SameTables
    <2>4. \A r : Spot(Before(r))' = Spot(Before(r))
      BY <1>1 DEF Before, First, Earlier, Below, Rows1, Letter, Slot, Rows, N,
          Spot, Placed, GroupStart, WithPair, PairBelow, Others, PairOf, Lead, Char, Within, Bytes
    <2> QED  BY <1>1, <1>3, <2>1, <2>2, <2>3, <2>4 DEF Ready, Pairs
  <1>4. ASSUME WalkRight PROVE WalkRight'
    <2>1. \A t : RowOf(t)' = RowOf(t)
      BY <1>1, SameTables
    <2> QED  BY <1>1, <1>4, <2>1 DEF WalkRight, Bytes
  <1>5. Transformed' <=> Transformed
    BY <1>1, SameTables
  <1> QED  BY <1>1, <1>2, <1>3, <1>4, <1>5 DEF BwtInv

LEMMA BwtStep ==
  ASSUME BwtInv, [BwtNext]_bwtVars, Encode => SuffixesSorted
  PROVE  BwtInv'
  <1>1. CASE ComputeSA
    BY <1>1, ComputeSAInv
  <1>2. CASE Encode
    BY <1>2, EncodeInv
  <1>3. CASE Prepare
    BY <1>3, PrepareInv
  <1>4. CASE Walk
    BY <1>4, WalkInv
  <1>5. CASE Copy \/ InvalidIndex \/ Finish
    BY <1>5, DoneInv
  <1>6. CASE Returned \/ UNCHANGED bwtVars
    BY <1>6, StutterBwtInv DEF Returned
  <1> QED  BY <1>1, <1>2, <1>3, <1>4, <1>5, <1>6 DEF BwtNext

(* "Any idx in the valid range decodes without out-of-bounds access": what a *)
(* damaged block holds, its walk stays inside p and fastbits, whatever an    *)
(* earlier use has left there, and each search for a pair ends in bucket2.   *)
THEOREM DamagedLookupsInRange ==
  (\E d \in Damaged : InitDamaged(d)) /\ [][BwtNext]_bwtVars => []LookupsInRange
  <1> DEFINE Inv == BwtInv /\ step # "encode"
  <1>1. (\E d \in Damaged : InitDamaged(d)) => Inv
    BY InitDamagedInv
  <1>2. Inv /\ [BwtNext]_bwtVars => Inv'
    <2> SUFFICES ASSUME Inv, [BwtNext]_bwtVars PROVE Inv'
      OBVIOUS
    <2>1. ~Encode /\ ~ComputeSA
      BY DEF Encode, ComputeSA
    <2>2. step' # "encode"
      BY <2>1 DEF BwtNext, Prepare, Copy, InvalidIndex, Walk, Finish, Returned, bwtVars
    <2> QED  BY <2>1, <2>2, BwtStep
  <1>3. Inv => LookupsInRange
    BY LookupsHold DEF BwtInv
  <1> QED  BY <1>1, <1>2, <1>3, PTL

(* Where the suffix array is right, whatever Encode made of a text is walked *)
(* inside the tables, too.                                                   *)
THEOREM LookupsAreInRange == BwtSpec /\ []SuffixesSorted => []LookupsInRange
  <1>1. BwtInit => BwtInv
    BY InitEncodeInv, InitDamagedInv DEF BwtInit
  <1>2. BwtInv /\ SuffixesSorted /\ [BwtNext]_bwtVars => BwtInv'
    BY BwtStep
  <1>3. BwtInv => LookupsInRange
    BY LookupsHold DEF BwtInv
  <1> QED  BY <1>1, <1>2, <1>3, PTL DEF BwtSpec

(* Where the suffix array is right, Decode turns what Encode made of a text  *)
(* back into it, for every text and every size of the tables: two bytes at a *)
(* time, with what an earlier use has left in fastbits, and whatever the     *)
(* walk has made of the last byte.                                           *)
THEOREM BwtRestores == BwtSpec /\ []SuffixesSorted => []BwtRoundTrips
  <1>1. BwtInit => BwtInv
    BY InitEncodeInv, InitDamagedInv DEF BwtInit
  <1>2. BwtInv /\ SuffixesSorted /\ [BwtNext]_bwtVars => BwtInv'
    BY BwtStep
  <1>3. BwtInv => BwtRoundTrips
    BY DEF BwtInv, BwtRoundTrips
  <1> QED  BY <1>1, <1>2, <1>3, PTL DEF BwtSpec
=============================================================================
