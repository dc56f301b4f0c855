--------------------------- MODULE RunLengthProofs ---------------------------
(***************************************************************************)
(* Proofs about RunLength, for inputs and codes of any length and any      *)
(* width of bytes and of int32: the run lengths keep to an int32, what is  *)
(* written are bytes, Decode stays inside its output, and undoes Encode;   *)
(* the gains counted in the first pass are what the second pass saves.     *)
(* The same for Lzp, from L on: positions stay in range, and Decompress    *)
(* undoes Compress.                                                        *)
(***************************************************************************)
EXTENDS RunLength, Lzp, SequenceTheorems, FiniteSetTheorems, WellFoundedInduction, TLAPS

(* The first pass: a run is no longer than what has been read, and no gain   *)
(* or loss is larger.                                                        *)
Counting ==
  pc = "count" =>
    /\ Len(in) <= MaxLen
    /\ ip <= Len(in) + 1
    /\ run \in 0..ip - 1
    /\ \A b \in Byte : t[b] \in 1 - ip..ip - 1

(* The second pass: it holds a run of a byte, except before the first byte   *)
(* and after the terminator.                                                 *)
Encoding ==
  pc = "encode" =>
    /\ Len(in) <= MaxLen
    /\ ip = 1 => prev = -1 /\ run = 0
    /\ ip > 1 => run \in 1..MaxLen + 1
    /\ ip \in 2..Len(in) + 1 => prev \in Byte /\ run \in 1..ip - 1
    /\ ip = Len(in) + 2 => run = 1

(* A verdict comes last, and no code of Encode's is shorter than its bitmap. *)
NoVerdictYet ==
  /\ pc # "returned" => result = "none"
  /\ pc = "short" => foreign

IInv == Inv /\ Counting /\ Encoding /\ NoVerdictYet

-----------------------------------------------------------------------------
LEMMA Limits ==
  /\ Int32Max \in Nat /\ MaxByte \in Nat /\ MaxByte >= 1 /\ MaxByte <= Int32Max
  /\ MaxLen \in Nat /\ MaxLen <= Int32Max
  BY ConstantsAssumption

(* A conversion to int32 always gives one. *)
LEMMA Int32Range == ASSUME NEW x \in Int PROVE Int32(x) \in -Int32Max - 1..Int32Max
  <1> DEFINE k == 2 * (Int32Max + 1)
             y == x + Int32Max + 1
  <1>1. k \in Nat \ {0} /\ y \in Int
    BY Limits
  <1>2. y % k \in 0..k - 1
    <2> HIDE DEF k, y
    <2> QED  BY <1>1
  <1> QED  BY <1>2, Limits DEF Int32

LEMMA RepeatedByte ==
  ASSUME NEW b \in Byte, NEW len \in Nat
  PROVE  [k \in 1..len |-> b] \in Seq(Byte) /\ Len([k \in 1..len |-> b]) = len
  OBVIOUS

(* What replaces a run is made of bytes, for any length of the run.          *)
LEMMA CollapsedIsBytes ==
  ASSUME NEW b \in Byte, NEW r \in Nat \ {0}
  PROVE  Collapsed(b, r) \in Seq(Byte)
  <1> DEFINE full == (r - 1) \div MaxByte
             rest == r - full * MaxByte - 1
  <1>1. full \in Nat /\ rest \in 0..MaxByte - 1
    <2>1. r - 1 \in Nat /\ MaxByte \in Nat \ {0}
      BY Limits
    <2>2. \A x \in Nat, y \in Nat \ {0} :
            x \div y \in Nat /\ x - (x \div y) * y \in 0..y - 1
      OBVIOUS
    <2>3. full \in Nat /\ (r - 1) - full * MaxByte \in 0..MaxByte - 1
      BY <2>1, <2>2
    <2>4. full * MaxByte \in Int
      BY <2>3, Limits
    <2> HIDE DEF full
    <2> QED  BY <2>3, <2>4
  <1>2. MaxByte \in Byte /\ rest \in Byte
    BY <1>1, Limits DEF Byte
  <1> HIDE DEF full, rest
  <1>3. [k \in 1..full |-> MaxByte] \in Seq(Byte)
    BY <1>1, <1>2, RepeatedByte
  <1>4. <<b>> \in Seq(Byte) /\ <<rest>> \in Seq(Byte)
    BY <1>2
  <1>5. <<b>> \o [k \in 1..full |-> MaxByte] \o <<rest>> \in Seq(Byte)
    BY <1>3, <1>4, ConcatProperties
  <1> QED  BY <1>5 DEF Collapsed, full, rest

(* How much of a run is written: no more than the run nor than the room.     *)
LEMMA ClippedRange ==
  ASSUME NEW full \in -Int32Max - 1..Int32Max, NEW room \in Nat
  PROVE  /\ Clipped(full, room) \in Nat
         /\ Clipped(full, room) <= room
         /\ full - Clipped(full, room) \in -Int32Max - 1..Int32Max
  BY Limits DEF Clipped, MinOf

-----------------------------------------------------------------------------
LEMMA InitInv == Init => IInv
  <1> SUFFICES ASSUME Init PROVE IInv
    OBVIOUS
  <1>1. /\ in \in Seq(Byte) /\ original \in Seq(Byte) /\ foreign \in BOOLEAN
        /\ t \in [Byte -> {0, 1}]
        /\ \/ pc = "count" /\ Len(in) <= MaxLen /\ \A b \in Byte : t[b] = 0
           \/ pc \in {"decode", "short"}
        /\ pc = "short" => foreign
    <2>1. \A len \in Nat : \A s \in [1..len -> Byte] : s \in Seq(Byte) /\ Len(s) = len
      OBVIOUS
    <2>2. CASE /\ in \in UNION {[1..len -> Byte] : len \in 0..MaxLen}
               /\ original = in
               /\ foreign = FALSE
               /\ t = [b \in Byte |-> 0]
               /\ pc = "count"
      <3>1. PICK len \in 0..MaxLen : in \in [1..len -> Byte]
        BY <2>2
      <3>2. len \in Nat /\ len <= MaxLen
        BY Limits
      <3>3. in \in Seq(Byte) /\ Len(in) <= MaxLen
        BY <2>1, <3>1, <3>2
      <3>4. t \in [Byte -> {0, 1}] /\ \A b \in Byte : t[b] = 0
        BY <2>2
      <3> QED  BY <2>2, <3>3, <3>4
    <2>3. CASE /\ in \in UNION {[1..len -> Byte] : len \in 0..MaxCodeLen}
               /\ original \in {[k \in 1..len |-> 0] : len \in 0..MaxLen}
               /\ foreign = TRUE
               /\ t \in [Byte -> {0, 1}]
               /\ pc = "decode"
      <3>1. in \in Seq(Byte)
        <4>1. PICK len \in 0..MaxCodeLen : in \in [1..len -> Byte]
          BY <2>3
        <4>2. len \in Nat
          BY ConstantsAssumption
        <4> QED  BY <2>1, <4>1, <4>2
      <3>2. original \in Seq(Byte)
        <4>1. PICK len \in 0..MaxLen : original = [k \in 1..len |-> 0]
          BY <2>3
        <4>2. len \in Nat /\ 0 \in Byte
          BY Limits DEF Byte
        <4> QED  BY <4>1, <4>2, RepeatedByte
      <3> QED  BY <2>3, <3>1, <3>2
    <2>4. CASE /\ in = <<>>
               /\ original \in {[k \in 1..len |-> 0] : len \in 0..MaxLen}
               /\ foreign = TRUE
               /\ t = [b \in Byte |-> 0]
               /\ pc = "short"
      <3>1. PICK len \in 0..MaxLen : original = [k \in 1..len |-> 0]
        BY <2>4
      <3>2. len \in Nat /\ 0 \in Byte
        BY Limits DEF Byte
      <3>3. original \in Seq(Byte) /\ in \in Seq(Byte)
        BY <2>4, <3>1, <3>2, RepeatedByte, EmptySeq
      <3> QED  BY <2>4, <3>3
    <2> QED  BY <2>2, <2>3, <2>4 DEF Init
  <1>2. ip = 1 /\ run = 0 /\ prev = -1 /\ c = 0 /\ out = <<>> /\ result = "none"
    BY DEF Init
  <1>3. Len(in) \in Nat /\ Len(original) \in Nat /\ out \in Seq(Byte) /\ Len(out) = 0
    BY <1>1, <1>2, LenProperties, EmptySeq
  <1>4. TypeOK
    <2>1. ip \in 1..Len(in) + 2 /\ run \in -Int32Max - 1..Int32Max /\ c \in Byte
      BY <1>2, <1>3, Limits DEF Byte
    <2>2. t \in [Byte -> -Int32Max - 1..Int32Max]
      BY <1>1, Limits
    <2> QED  BY <1>1, <1>2, <1>3, <2>1, <2>2 DEF TypeOK
  <1>5. DecodeStaysInside
    BY <1>2, <1>3 DEF DecodeStaysInside, OutLen
  <1>6. Counting /\ Encoding /\ NoVerdictYet
    BY <1>1, <1>2, <1>3 DEF Counting, Encoding, NoVerdictYet
  <1> QED  BY <1>4, <1>5, <1>6 DEF IInv, Inv

LEMMA Lengths ==
  ASSUME TypeOK
  PROVE  /\ Len(in) \in Nat /\ Len(out) \in Nat /\ OutLen \in Nat
         /\ ip \in Nat /\ ip >= 1 /\ ip <= Len(in) + 2 /\ run \in Int
         /\ ip <= Len(in) => in[ip] \in Byte
         /\ t \in [Byte -> Int]
  <1>1. Len(in) \in Nat /\ Len(out) \in Nat /\ OutLen \in Nat
    BY LenProperties DEF TypeOK, OutLen
  <1>2. ip \in Nat /\ ip >= 1 /\ ip <= Len(in) + 2 /\ run \in Int
    BY <1>1, Limits DEF TypeOK
  <1>3. ip <= Len(in) => in[ip] \in Byte
    BY <1>1, <1>2, ElementOfSeq DEF TypeOK
  <1>4. t \in [Byte -> Int]
    <2>1. -Int32Max - 1..Int32Max \in SUBSET Int
      BY Limits
    <2> QED  BY <2>1 DEF TypeOK
  <1> QED  BY <1>1, <1>2, <1>3, <1>4

LEMMA CountInv == ASSUME IInv, Count PROVE IInv'
  <1>1. /\ pc = "count" /\ ip <= Len(in) /\ ip' = ip + 1
        /\ run' = (IF in[ip] = prev THEN run + 1 ELSE 0)
        /\ t' = [t EXCEPT ![in[ip]] = @ + Gain(in[ip], run')] /\ prev' = in[ip]
        /\ UNCHANGED <<in, original, foreign, c, out, pc, result>>
    BY DEF Count
  <1>2. /\ Len(in) \in Nat /\ in[ip] \in Byte /\ ip \in Nat /\ Len(in) <= Int32Max
        /\ Len(in) <= MaxLen /\ run \in 0..ip - 1
        /\ t \in [Byte -> Int] /\ \A b \in Byte : t[b] \in 1 - ip..ip - 1
    BY <1>1, Lengths, Limits, SMTT(40) DEF IInv, Inv, Counting
  <1>3. run' \in 0..ip' - 1 /\ run' \in -Int32Max - 1..Int32Max /\ ip' \in 1..Len(in') + 2
    BY <1>1, <1>2, Limits
  <1>4. /\ t' \in [Byte -> -Int32Max - 1..Int32Max]
        /\ \A b \in Byte : t'[b] \in 1 - ip'..ip' - 1
    <2> DEFINE u == t[in[ip]] + Gain(in[ip], run')
    <2>1. u \in -ip..ip
      BY <1>2, SMTT(40) DEF Gain
    <2>2. ip \in 1..Int32Max /\ ip' - 1 = ip /\ 1 - ip' = -ip
      <3>1. ip >= 1
        BY Lengths DEF IInv, Inv
      <3>2. Int32Max \in Int /\ ip <= Int32Max
        BY <1>1, <1>2, Limits
      <3> HIDE DEF u
      <3> QED  BY <1>1, <1>2, <3>1, <3>2
    <2> HIDE DEF u
    <2>3. t' = [t EXCEPT ![in[ip]] = u]
      BY <1>1 DEF u
    <2>4. \A b \in Byte : t'[b] \in -ip..ip
      BY <1>2, <2>1, <2>2, <2>3
    <2>5. DOMAIN t' = Byte /\ t' = [b \in Byte |-> t'[b]]
      BY <1>2, <2>3
    <2>6. \A b \in Byte : t'[b] \in -Int32Max - 1..Int32Max
      BY <2>2, <2>4, Limits
    <2> QED  BY <2>2, <2>4, <2>5, <2>6
  <1>5. TypeOK'
    BY <1>1, <1>2, <1>3, <1>4 DEF IInv, Inv, TypeOK
  <1>6. Counting'
    BY <1>1, <1>2, <1>3, <1>4 DEF Counting
  <1> QED  BY <1>1, <1>5, <1>6 DEF IInv, Inv, DecodeStaysInside, Encoding, NoVerdictYet

LEMMA CountEndsInv == ASSUME IInv, CountEnds PROVE IInv'
  <1>1. /\ pc = "count" /\ ip' = 1 /\ run' = 0 /\ prev' = -1 /\ pc' = "encode"
        /\ UNCHANGED <<in, original, foreign, t, c, out, result>>
    BY DEF CountEnds
  <1>2. Len(in) \in Nat /\ Len(in) <= MaxLen
    BY <1>1, Lengths DEF IInv, Inv, Counting
  <1>3. TypeOK'
    <2>1. ip' \in 1..Len(in') + 2 /\ run' \in -Int32Max - 1..Int32Max
      BY <1>1, <1>2, Limits
    <2> QED  BY <1>1, <2>1 DEF IInv, Inv, TypeOK
  <1>4. Encoding'
    BY <1>1, <1>2 DEF Encoding
  <1> QED  BY <1>1, <1>3, <1>4 DEF IInv, Inv, DecodeStaysInside, Counting, NoVerdictYet

LEMMA EncodeInv == ASSUME IInv, Encode PROVE IInv'
  <1> DEFINE b == IF ip <= Len(in) THEN in[ip] ELSE -1
             w == IF run = 0 THEN <<>>
                  ELSE IF t[prev] > 0 THEN Collapsed(prev, run)
                  ELSE [k \in 1..run |-> prev]
  <1>1. /\ pc = "encode" /\ ip <= Len(in) + 1 /\ ip' = ip + 1 /\ prev' = b
        /\ IF b = prev THEN run' = run + 1 /\ out' = out ELSE run' = 1 /\ out' = out \o w
        /\ UNCHANGED <<in, original, foreign, t, c, pc, result>>
    BY DEF Encode
  <1>2. /\ Len(in) \in Nat /\ ip \in Nat /\ ip >= 1 /\ Len(in) <= MaxLen
        /\ MaxLen <= Int32Max /\ MaxLen \in Nat
        /\ ip = 1 => prev = -1 /\ run = 0
        /\ ip # 1 => prev \in Byte /\ run \in 1..ip - 1
    BY <1>1, Lengths, Limits DEF IInv, Inv, Encoding
  <1>3. b \in Byte \cup {-1} /\ (ip <= Len(in) => b \in Byte)
    BY <1>2, Lengths DEF IInv, Inv
  <1>4. -1 \notin Byte
    BY Limits DEF Byte
  <1>5. /\ ip' \in 1..Len(in) + 2 /\ run' \in 1..ip /\ run' \in 1..MaxLen + 1
        /\ ip' = Len(in) + 2 => run' = 1
    <2>1. CASE b = prev /\ ip # 1
      <3>1. ip <= Len(in)
        BY <1>1, <1>2, <1>4, <2>1
      <3> QED  BY <1>1, <1>2, <2>1, <3>1
    <2>2. CASE b = prev /\ ip = 1
      BY <1>1, <1>2, <2>2
    <2>3. CASE b # prev
      BY <1>1, <1>2, <2>3
    <2> QED  BY <2>1, <2>2, <2>3
  <1>6. run' \in -Int32Max - 1..Int32Max
    <2>1. run' <= MaxLen \/ run' = 1
      BY <1>1, <1>2, <1>5
    <2> QED  BY <1>5, <2>1, Limits
  <1>7. out' \in Seq(Byte)
    <2>1. w \in Seq(Byte)
      <3>1. CASE run = 0
        BY <3>1, EmptySeq
      <3>2. CASE run # 0
        <4>1. prev \in Byte /\ run \in Nat \ {0}
          BY <1>2, <3>2
        <4> QED  BY <3>2, <4>1, CollapsedIsBytes, RepeatedByte
      <3> QED  BY <3>1, <3>2
    <2>2. out \in Seq(Byte)
      BY DEF IInv, Inv, TypeOK
    <2> HIDE DEF w
    <2> QED  BY <1>1, <2>1, <2>2, ConcatProperties
  <1> HIDE DEF w
  <1>8. TypeOK'
    BY <1>1, <1>3, <1>5, <1>6, <1>7 DEF IInv, Inv, TypeOK
  <1>9. Encoding'
    <2>1. ip' # 1 /\ (ip' \in 2..Len(in) + 1 => prev' \in Byte)
      BY <1>1, <1>2, <1>3
    <2> QED  BY <1>1, <1>2, <1>5, <2>1 DEF Encoding
  <1> QED  BY <1>1, <1>8, <1>9 DEF IInv, Inv, DecodeStaysInside, Counting, NoVerdictYet

LEMMA EncodeEndsInv == ASSUME IInv, EncodeEnds PROVE IInv'
  <1>1. /\ pc = "encode" /\ pc' = "decode" /\ in' = out /\ out' = <<>>
        /\ ip' = 1 /\ run' = 0 /\ prev' = -1
        /\ t' = [b \in Byte |-> IF t[b] > 0 THEN 1 ELSE 0]
        /\ UNCHANGED <<original, foreign, c, result>>
    BY DEF EncodeEnds
  <1>2. /\ Len(out) \in Nat /\ OutLen \in Nat /\ out \in Seq(Byte)
        /\ <<>> \in Seq(Byte) /\ Len(<<>>) = 0
    BY Lengths, EmptySeq DEF IInv, Inv, TypeOK
  <1>3. TypeOK'
    <2>1. /\ ip' \in 1..Len(in') + 2 /\ run' \in -Int32Max - 1..Int32Max
          /\ t' \in [Byte -> -Int32Max - 1..Int32Max]
      BY <1>1, <1>2, Limits
    <2> QED  BY <1>1, <1>2, <2>1 DEF IInv, Inv, TypeOK
  <1>4. DecodeStaysInside'
    <2>1. OutLen' = OutLen /\ Len(out') <= OutLen' /\ result' = "none"
      BY <1>1, <1>2 DEF OutLen, IInv, NoVerdictYet
    <2> QED  BY <2>1 DEF DecodeStaysInside
  <1> QED  BY <1>1, <1>3, <1>4 DEF IInv, Inv, Counting, Encoding, NoVerdictYet

-----------------------------------------------------------------------------
(* While Decode runs, the two passes have nothing to say. *)
LEMMA DecodingInv ==
  ASSUME IInv, TypeOK', Len(out') <= OutLen', pc' \in {"decode", "runByte", "expand"},
         UNCHANGED result, pc # "returned"
  PROVE  IInv'
  BY DEF IInv, Inv, DecodeStaysInside, Counting, Encoding, NoVerdictYet

LEMMA DecodeInv == ASSUME IInv, Decode PROVE IInv'
  <1>1. /\ pc = "decode" /\ Len(out) < OutLen /\ ip <= Len(in) /\ ip' = ip + 1
        /\ \/ c' = in[ip] /\ run' = 0 /\ pc' = "runByte" /\ out' = out
           \/ out' = Append(out, in[ip]) /\ UNCHANGED <<c, run, pc>>
        /\ UNCHANGED <<in, original, foreign, t, prev, result>>
    BY DEF Decode
  <1>2. /\ Len(in) \in Nat /\ Len(out) \in Nat /\ OutLen \in Nat /\ in[ip] \in Byte /\ ip \in Nat
        /\ out \in Seq(Byte) /\ OutLen' = OutLen
    BY <1>1, Lengths DEF IInv, Inv, TypeOK, OutLen
  <1>3. out' \in Seq(Byte) /\ Len(out') <= OutLen
    BY <1>1, <1>2, AppendProperties, SMTT(40)
  <1>4. TypeOK'
    <2>1. ip' \in 1..Len(in) + 2 /\ run' \in -Int32Max - 1..Int32Max /\ c' \in Byte
      BY <1>1, <1>2, Limits, SMTT(40) DEF IInv, Inv, TypeOK
    <2> QED  BY <1>1, <1>3, <2>1 DEF IInv, Inv, TypeOK
  <1> QED  BY <1>1, <1>2, <1>3, <1>4, DecodingInv

(* However long the code makes a run, its length stays an int32. *)
LEMMA RunByteInv == ASSUME IInv, RunByte PROVE IInv'
  <1>1. /\ pc = "runByte" /\ ip <= Len(in) /\ ip' = ip + 1 /\ prev' = in[ip]
        /\ \/ pc' = "expand" /\ run' = run
           \/ run' = Int32(run + MaxByte) /\ pc' = pc
        /\ UNCHANGED <<in, original, foreign, t, c, out, result>>
    BY DEF RunByte
  <1>2. /\ Len(in) \in Nat /\ Len(out) \in Nat /\ in[ip] \in Byte /\ ip \in Nat /\ run \in Int
        /\ OutLen' = OutLen /\ Len(out) <= OutLen
    BY <1>1, Lengths DEF IInv, Inv, DecodeStaysInside, OutLen
  <1>3. TypeOK'
    <2>1. run + MaxByte \in Int /\ ip' \in 1..Len(in) + 2
      BY <1>1, <1>2, Limits
    <2>2. run' \in -Int32Max - 1..Int32Max
      BY <1>1, <2>1, Int32Range DEF IInv, Inv, TypeOK
    <2> QED  BY <1>1, <1>2, <2>1, <2>2 DEF IInv, Inv, TypeOK
  <1> QED  BY <1>1, <1>2, <1>3, DecodingInv

LEMMA RunCutInv == ASSUME IInv, RunCut PROVE IInv'
  <1>1. /\ pc = "runByte" /\ pc' = "expand"
        /\ UNCHANGED <<in, original, foreign, ip, t, run, prev, c, out, result>>
    BY DEF RunCut
  <1>2. TypeOK' /\ Len(out') <= OutLen'
    BY <1>1 DEF IInv, Inv, TypeOK, DecodeStaysInside, OutLen
  <1> QED  BY <1>1, <1>2, DecodingInv

LEMMA ExpandInv == ASSUME IInv, Expand PROVE IInv'
  <1> DEFINE full == Int32(run + prev + 1)
             room == OutLen - Len(out)
             len  == Clipped(full, room)
  <1>1. /\ pc = "expand" /\ pc' = "decode"
        /\ out' = out \o [k \in 1..len |-> c] /\ run' = full - len
        /\ UNCHANGED <<in, original, foreign, ip, t, prev, c, result>>
    BY DEF Expand
  <1>2. /\ Len(out) \in Nat /\ OutLen \in Nat /\ Len(out) <= OutLen /\ OutLen' = OutLen
        /\ out \in Seq(Byte) /\ c \in Byte
    BY <1>1, Lengths DEF IInv, Inv, TypeOK, DecodeStaysInside, OutLen
  <1>3. full \in -Int32Max - 1..Int32Max
    <2>1. run \in Int /\ prev \in Int
      BY Limits DEF IInv, Inv, TypeOK, Byte
    <2> QED  BY <2>1, Int32Range
  <1> HIDE DEF full
  <1>4. room \in Nat
    BY <1>2
  <1>5. len \in Nat /\ len <= room /\ run' \in -Int32Max - 1..Int32Max
    BY <1>1, <1>3, <1>4, ClippedRange
  <1> HIDE DEF len
  <1>6. out' \in Seq(Byte) /\ Len(out') = Len(out) + len
    <2>1. [k \in 1..len |-> c] \in Seq(Byte) /\ Len([k \in 1..len |-> c]) = len
      BY <1>2, <1>5, RepeatedByte
    <2> DEFINE w == [k \in 1..len |-> c]
    <2>2. w \in Seq(Byte) /\ Len(w) = len /\ out' = out \o w
      BY <1>1, <2>1
    <2> HIDE DEF w
    <2> QED  BY <1>2, <2>2, ConcatProperties
  <1>7. TypeOK'
    BY <1>1, <1>5, <1>6 DEF IInv, Inv, TypeOK
  <1>8. Len(out') <= OutLen'
    BY <1>2, <1>5, <1>6
  <1> QED  BY <1>1, <1>7, <1>8, DecodingInv

LEMMA DecodeReturnsInv == ASSUME IInv, DecodeReturns PROVE IInv'
  <1>1. /\ pc = "decode" /\ pc' = "returned"
        /\ result' = (IF Len(out) # OutLen THEN "corrupt" ELSE "nil")
        /\ UNCHANGED <<in, original, foreign, ip, t, run, prev, c, out>>
    BY DEF DecodeReturns
  <1>2. TypeOK'
    BY <1>1 DEF IInv, Inv, TypeOK
  <1>3. DecodeStaysInside'
    BY <1>1 DEF IInv, Inv, DecodeStaysInside, OutLen
  <1> QED  BY <1>1, <1>2, <1>3 DEF IInv, Inv, Counting, Encoding, NoVerdictYet

LEMMA TooShortInv == ASSUME IInv, TooShort PROVE IInv'
  <1>1. /\ pc = "short" /\ pc' = "returned" /\ result' = "corrupt"
        /\ UNCHANGED <<in, original, foreign, ip, t, run, prev, c, out>>
    BY DEF TooShort
  <1>2. TypeOK'
    BY <1>1 DEF IInv, Inv, TypeOK
  <1>3. DecodeStaysInside'
    BY <1>1 DEF IInv, Inv, DecodeStaysInside, OutLen
  <1> QED  BY <1>1, <1>2, <1>3 DEF IInv, Inv, Counting, Encoding, NoVerdictYet

-----------------------------------------------------------------------------
(* The counters, the run lengths and the verdict agree with the position.    *)
THEOREM RunLengthInvariant == Spec => []IInv
  <1>1. Init => IInv
    BY InitInv
  <1>2. IInv /\ [Next]_vars => IInv'
    <2> SUFFICES ASSUME IInv, [Next]_vars PROVE IInv'
      OBVIOUS
    <2>1. CASE Count
      BY <2>1, CountInv
    <2>2. CASE CountEnds
      BY <2>2, CountEndsInv
    <2>3. CASE Encode
      BY <2>3, EncodeInv
    <2>4. CASE EncodeEnds
      BY <2>4, EncodeEndsInv
    <2>5. CASE Decode
      BY <2>5, DecodeInv
    <2>6. CASE RunByte
      BY <2>6, RunByteInv
    <2>7. CASE RunCut
      BY <2>7, RunCutInv
    <2>8. CASE Expand
      BY <2>8, ExpandInv
    <2>9. CASE DecodeReturns
      BY <2>9, DecodeReturnsInv
    <2>11. CASE TooShort
      BY <2>11, TooShortInv
    <2>10. CASE UNCHANGED vars
      BY <2>10 DEF IInv, Inv, TypeOK, DecodeStaysInside, OutLen, Counting, Encoding,
                   NoVerdictYet, vars
    <2> QED  BY <2>1, <2>2, <2>3, <2>4, <2>5, <2>6, <2>7, <2>8, <2>9, <2>10,
                 <2>11 DEF Next
  <1> QED  BY <1>1, <1>2, PTL DEF Spec

(***************************************************************************)
(* Whatever the input of Encode or the code given to Decode, also one too  *)
(* short for its bitmap, gains and run lengths keep to an int32, only      *)
(* bytes are written, and Decode fills its output exactly or reports       *)
(* corrupt data (internal/rle/rle.go).                                     *)
(***************************************************************************)
THEOREM RunLengthStaysInRange == Spec => []Inv
  <1>1. IInv => Inv
    BY DEF IInv
  <1> QED  BY <1>1, RunLengthInvariant, PTL

-----------------------------------------------------------------------------
(* The bytes of w after position a are a run of byte w[a + 1] as Collapsed   *)
(* writes it, full * MaxByte + rest + 1 bytes long, and so are those of s    *)
(* after b, none beyond d.                                                   *)
RunOf(full, rest) == full * MaxByte + rest + 1

RunAt(w, s, d, a, b, full, rest) ==
  /\ a + 2 + full <= Len(w)
  /\ b + RunOf(full, rest) <= d
  /\ \A j \in 1..full : w[a + 1 + j] = MaxByte
  /\ w[a + 2 + full] = rest
  /\ \A j \in 1..RunOf(full, rest) : s[b + j] = w[a + 1]

(* Where code w and the first d bytes of s can be cut in pieces that stand   *)
(* for each other, if the values in marked are collapsed.                    *)
PlainAt(w, s, d, marked, cuts, a, b) ==
  /\ a < Len(w) /\ b < d
  /\ w[a + 1] \notin marked
  /\ s[b + 1] = w[a + 1]
  /\ <<a + 1, b + 1>> \in cuts

CollapsedAt(w, s, d, marked, cuts, a, b) ==
  /\ w[a + 1] \in marked
  /\ \E full \in Nat, rest \in 0..MaxByte - 1 :
       /\ RunAt(w, s, d, a, b, full, rest)
       /\ <<a + 2 + full, b + RunOf(full, rest)>> \in cuts

Cuts(w, s, d, marked, cuts) ==
  /\ <<0, 0>> \in cuts
  /\ \A a, b \in Nat : <<a, b>> \in cuts =>
       /\ a <= Len(w) /\ b <= d
       /\ \/ a = Len(w) /\ b = d
          \/ PlainAt(w, s, d, marked, cuts, a, b)
          \/ CollapsedAt(w, s, d, marked, cuts, a, b)

Marked == {b \in Byte : t[b] > 0}

(* What has been written so far stands for the input up to the run in hand.  *)
Matching ==
  ~foreign /\ pc = "encode" =>
    /\ in = original /\ Len(in) <= MaxLen
    /\ \E cuts : Cuts(out, in, ip - 1 - run, Marked, cuts)
    /\ ip <= Len(in) + 1 => \A j \in 1..run : in[ip - 1 - run + j] = prev

(* Decode goes from cut to cut.                                              *)
InRunByte(cuts) ==
  \E full \in Nat, rest \in 0..MaxByte - 1, k \in Nat :
    /\ k <= full /\ ip >= k + 2
    /\ run = k * MaxByte
    /\ RunAt(in, original, OutLen, ip - 2 - k, Len(out), full, rest)
    /\ c = in[ip - 2 - k + 1]
    /\ <<ip - 2 - k + 2 + full, Len(out) + RunOf(full, rest)>> \in cuts

InExpand(cuts) ==
  \E full \in Nat, rest \in 0..MaxByte - 1 :
    /\ run = full * MaxByte /\ prev = rest
    /\ Len(out) + RunOf(full, rest) <= OutLen
    /\ \A j \in 1..RunOf(full, rest) : original[Len(out) + j] = c
    /\ <<ip - 1, Len(out) + RunOf(full, rest)>> \in cuts

Retracing ==
  ~foreign /\ pc \in {"decode", "runByte", "expand"} =>
    /\ OutLen <= MaxLen
    /\ \A b \in Byte : t[b] \in {0, 1}
    /\ \A j \in 1..Len(out) : out[j] = original[j]
    /\ \E cuts : /\ Cuts(in, original, OutLen, Marked, cuts)
                 /\ pc = "decode" => <<ip - 1, Len(out)>> \in cuts
                 /\ pc = "runByte" => InRunByte(cuts)
                 /\ pc = "expand" => InExpand(cuts)

CountsInput == ~foreign /\ pc = "count" => in = original /\ out = <<>>

RoundTrip == CountsInput /\ Matching /\ Retracing /\ RunLengthRoundTrips

-----------------------------------------------------------------------------
LEMMA ProductOf == ASSUME NEW x \in Nat PROVE x * MaxByte \in Nat
  BY Limits

LEMMA RunOfPositive ==
  ASSUME NEW full \in Nat, NEW rest \in 0..MaxByte - 1
  PROVE  RunOf(full, rest) \in Nat \ {0}
  <1>1. full * MaxByte \in Nat
    BY ProductOf
  <1>2. rest \in Nat
    BY Limits
  <1> QED  BY <1>1, <1>2 DEF RunOf

(* A longer code, for more bytes, has the cuts of the shorter one, too.      *)
LEMMA CutsStay ==
  ASSUME NEW w, NEW v, NEW s, NEW d \in Nat, NEW e \in Nat, NEW marked, NEW cuts, NEW more,
         Len(w) \in Nat, Len(v) \in Nat, Len(w) <= Len(v), d <= e,
         \A j \in 1..Len(w) : v[j] = w[j],
         Cuts(w, s, d, marked, cuts), cuts \subseteq more,
         NEW a \in Nat, NEW b \in Nat, <<a, b>> \in cuts, ~(a = Len(w) /\ b = d)
  PROVE  /\ a <= Len(v) /\ b <= e
         /\ \/ PlainAt(v, s, e, marked, more, a, b)
            \/ CollapsedAt(v, s, e, marked, more, a, b)
  <1>1. a <= Len(w) /\ b <= d
    BY DEF Cuts
  <1>2. CASE PlainAt(w, s, d, marked, cuts, a, b)
    <2>1. a + 1 \in 1..Len(w)
      BY <1>2 DEF PlainAt
    <2>2. v[a + 1] = w[a + 1]
      BY <2>1
    <2> QED  BY <1>1, <1>2, <2>2 DEF PlainAt
  <1>3. CASE CollapsedAt(w, s, d, marked, cuts, a, b)
    <2>1. PICK full \in Nat, rest \in 0..MaxByte - 1 :
            /\ RunAt(w, s, d, a, b, full, rest)
            /\ <<a + 2 + full, b + RunOf(full, rest)>> \in cuts
      BY <1>3 DEF CollapsedAt
    <2>2. a + 2 + full <= Len(w) /\ b + RunOf(full, rest) <= d /\ RunOf(full, rest) \in Nat
      BY <2>1, RunOfPositive DEF RunAt
    <2>3. /\ a + 1 \in 1..Len(w) /\ a + 2 + full \in 1..Len(w)
          /\ \A j \in 1..full : a + 1 + j \in 1..Len(w)
      BY <2>2
    <2>4. /\ v[a + 1] = w[a + 1] /\ v[a + 2 + full] = w[a + 2 + full]
          /\ \A j \in 1..full : v[a + 1 + j] = w[a + 1 + j]
      BY <2>3
    <2>5. a + 2 + full <= Len(v) /\ b + RunOf(full, rest) <= e
      BY <2>2
    <2>6. RunAt(v, s, e, a, b, full, rest)
      BY <2>1, <2>4, <2>5 DEF RunAt
    <2>7. v[a + 1] \in marked
      BY <1>3, <2>4 DEF CollapsedAt
    <2>8. <<a + 2 + full, b + RunOf(full, rest)>> \in more
      BY <2>1
    <2>9. CollapsedAt(v, s, e, marked, more, a, b)
      BY <2>6, <2>7, <2>8 DEF CollapsedAt
    <2> QED  BY <1>1, <2>9
  <1> QED  BY <1>2, <1>3 DEF Cuts

LEMMA NoCuts == ASSUME NEW s, NEW marked PROVE \E cuts : Cuts(<<>>, s, 0, marked, cuts)
  <1>1. Cuts(<<>>, s, 0, marked, {<<0, 0>>})
    BY EmptySeq DEF Cuts
  <1> QED  BY <1>1

(* A byte that is written as it is.                                          *)
LEMMA CutsPlain ==
  ASSUME NEW w \in Seq(Byte), NEW s, NEW d \in Nat, NEW marked, NEW cuts,
         Cuts(w, s, d, marked, cuts),
         NEW x \in Byte, x \notin marked, NEW n \in Nat, \A j \in 1..n : s[d + j] = x
  PROVE  \E more : Cuts(w \o [k \in 1..n |-> x], s, d + n, marked, more)
  <1> DEFINE u    == [k \in 1..n |-> x]
             v    == w \o u
             more == cuts \cup {<<Len(w) + j, d + j>> : j \in 0..n}
  <1>1. /\ Len(w) \in Nat /\ Len(v) = Len(w) + n /\ \A j \in 1..Len(w) : v[j] = w[j]
        /\ \A j \in 1..n : v[Len(w) + j] = x
    <2>1. u \in Seq(Byte) /\ Len(u) = n /\ \A j \in 1..n : u[j] = x
      BY RepeatedByte
    <2> HIDE DEF u
    <2>2. Len(w) \in Nat /\ Len(v) = Len(w) + n /\ \A j \in 1..Len(w) : v[j] = w[j]
      BY <2>1, LenProperties, ConcatProperties, SMTT(90)
    <2>3. ASSUME NEW j \in 1..n PROVE v[Len(w) + j] = x
      <3>1. Len(w) + j \in 1..Len(w) + Len(u) /\ ~(Len(w) + j <= Len(w)) /\ Len(w) + j - Len(w) = j
        BY <2>1, <2>2
      <3> QED  BY <2>1, <3>1, ConcatProperties
    <2> QED  BY <2>2, <2>3
  <1> HIDE DEF v
  <1>2. <<0, 0>> \in more
    BY DEF Cuts
  <1>3. ASSUME NEW a \in Nat, NEW b \in Nat, <<a, b>> \in more
        PROVE  /\ a <= Len(v) /\ b <= d + n
               /\ \/ a = Len(v) /\ b = d + n
                  \/ PlainAt(v, s, d + n, marked, more, a, b)
                  \/ CollapsedAt(v, s, d + n, marked, more, a, b)
    <2>1. CASE <<a, b>> \in cuts /\ ~(a = Len(w) /\ b = d)
      <3>1. cuts \subseteq more /\ Len(v) \in Nat /\ Len(w) <= Len(v) /\ d + n \in Nat /\ d <= d + n
        BY <1>1
      <3> HIDE DEF more
      <3> QED  BY <1>1, <2>1, <3>1, CutsStay
    <2>2. CASE \E j \in 0..n : a = Len(w) + j /\ b = d + j
      <3>1. PICK j \in 0..n : a = Len(w) + j /\ b = d + j
        BY <2>2
      <3>2. CASE j = n
        BY <1>1, <3>1, <3>2
      <3>3. CASE j # n
        <4>1. /\ j + 1 \in 1..n /\ j + 1 \in 0..n /\ a + 1 = Len(w) + (j + 1) /\ b + 1 = d + (j + 1)
              /\ a < Len(v) /\ b < d + n
          BY <1>1, <3>1, <3>3
        <4>2. v[a + 1] = x /\ s[b + 1] = x /\ <<a + 1, b + 1>> \in more
          BY <1>1, <4>1
        <4> QED  BY <4>1, <4>2 DEF PlainAt
      <3> QED  BY <3>2, <3>3
    <2>3. \/ <<a, b>> \in cuts /\ ~(a = Len(w) /\ b = d)
          \/ \E j \in 0..n : a = Len(w) + j /\ b = d + j
      <3>1. CASE a = Len(w) /\ b = d
        <4>1. 0 \in 0..n /\ a = Len(w) + 0 /\ b = d + 0
          BY <1>1, <3>1
        <4> QED  BY <4>1
      <3>2. CASE ~(a = Len(w) /\ b = d)
        BY <1>3, <3>2
      <3> QED  BY <3>1, <3>2
    <2> QED  BY <2>1, <2>2, <2>3
  <1>4. Cuts(v, s, d + n, marked, more)
    <2> HIDE DEF more
    <2> QED  BY <1>2, <1>3 DEF Cuts
  <1> QED  BY <1>4 DEF v

(* What Collapsed writes.                                                    *)
LEMMA CollapsedForm ==
  ASSUME NEW x \in Byte, NEW r \in Nat \ {0}
  PROVE  \E full \in Nat, rest \in 0..MaxByte - 1 :
           /\ r = RunOf(full, rest) /\ full = (r - 1) \div MaxByte
           /\ Len(Collapsed(x, r)) = full + 2
           /\ Collapsed(x, r)[1] = x
           /\ \A j \in 1..full : Collapsed(x, r)[1 + j] = MaxByte
           /\ Collapsed(x, r)[2 + full] = rest
  <1> DEFINE full == (r - 1) \div MaxByte
             rest == r - full * MaxByte - 1
             u    == [k \in 1..full |-> MaxByte]
  <1>1. full \in Nat /\ rest \in 0..MaxByte - 1 /\ r = RunOf(full, rest)
    <2>1. r - 1 \in Nat /\ MaxByte \in Nat \ {0}
      BY Limits
    <2>2. \A y \in Nat, z \in Nat \ {0} :
            y \div z \in Nat /\ y - (y \div z) * z \in 0..z - 1
      OBVIOUS
    <2>3. full \in Nat /\ (r - 1) - full * MaxByte \in 0..MaxByte - 1
      BY <2>1, <2>2
    <2>4. full * MaxByte \in Int
      BY <2>3, Limits
    <2> HIDE DEF full
    <2> QED  BY <2>3, <2>4 DEF RunOf
  <1>2. MaxByte \in Byte /\ rest \in Byte /\ full = (r - 1) \div MaxByte
    BY <1>1, Limits DEF Byte
  <1>3. Collapsed(x, r) = <<x>> \o u \o <<rest>>
    BY DEF Collapsed
  <1>4. u \in Seq(Byte) /\ Len(u) = full /\ \A j \in 1..full : u[j] = MaxByte
    BY <1>1, <1>2, RepeatedByte
  <1> HIDE DEF full, rest, u
  <1> DEFINE h == <<x>> \o u
  <1>5. h \in Seq(Byte) /\ Len(h) = 1 + full /\ h[1] = x /\ \A j \in 1..full : h[1 + j] = MaxByte
    <2> DEFINE y == <<x>>
    <2>1. y \in Seq(Byte) /\ Len(y) = 1 /\ y[1] = x
      OBVIOUS
    <2> HIDE DEF y
    <2>2. h \in Seq(Byte) /\ Len(h) = 1 + full /\ h[1] = x
      BY <1>1, <1>4, <2>1, ConcatProperties DEF y
    <2>3. ASSUME NEW j \in 1..full PROVE h[1 + j] = MaxByte
      <3>1. 1 + j \in 1..Len(y) + Len(u) /\ ~(1 + j <= Len(y)) /\ 1 + j - Len(y) = j
        BY <1>1, <1>4, <2>1
      <3> QED  BY <1>4, <2>1, <3>1, ConcatProperties DEF y
    <2> QED  BY <2>2, <2>3
  <1> HIDE DEF h
  <1> DEFINE g == Append(h, rest)
  <1>6. Collapsed(x, r) = g
    BY <1>2, <1>3, <1>5 DEF h
  <1>7. Len(g) = full + 2 /\ g[2 + full] = rest /\ \A j \in 1..1 + full : g[j] = h[j]
    BY <1>1, <1>2, <1>5, AppendProperties, SMTT(40)
  <1>8. 1 \in 1..1 + full /\ \A j \in 1..full : 1 + j \in 1..1 + full
    BY <1>1
  <1> HIDE DEF g
  <1>9. g[1] = x /\ \A j \in 1..full : g[1 + j] = MaxByte
    BY <1>5, <1>7, <1>8
  <1> QED  BY <1>1, <1>2, <1>6, <1>7, <1>9

(* A run that is collapsed.                                                  *)
LEMMA CutsCollapsed ==
  ASSUME NEW w \in Seq(Byte), NEW s, NEW d \in Nat, NEW marked, NEW cuts,
         Cuts(w, s, d, marked, cuts),
         NEW x \in Byte, x \in marked, NEW r \in Nat \ {0}, \A j \in 1..r : s[d + j] = x
  PROVE  \E more : Cuts(w \o Collapsed(x, r), s, d + r, marked, more)
  <1> DEFINE u == Collapsed(x, r)
  <1>1. u \in Seq(Byte)
    BY CollapsedIsBytes
  <1>2. PICK full \in Nat, rest \in 0..MaxByte - 1 :
          /\ r = RunOf(full, rest) /\ full = (r - 1) \div MaxByte
          /\ Len(u) = full + 2
          /\ u[1] = x
          /\ \A j \in 1..full : u[1 + j] = MaxByte
          /\ u[2 + full] = rest
    BY CollapsedForm
  <1> HIDE DEF u
  <1> DEFINE v    == w \o u
             more == cuts \cup {<<Len(w), d>>, <<Len(w) + full + 2, d + r>>}
  <1>3. /\ Len(w) \in Nat /\ Len(v) = Len(w) + full + 2 /\ \A j \in 1..Len(w) : v[j] = w[j]
    <2>1. Len(w) \in Nat /\ Len(v) = Len(w) + Len(u)
      BY <1>1, LenProperties, ConcatProperties
    <2>2. \A j \in 1..Len(w) : v[j] = w[j]
      BY <1>1, <1>2, <2>1, ConcatProperties
    <2> QED  BY <1>2, <2>1, <2>2, SMTT(40)
  <1>4. ASSUME NEW j \in 1..full + 2 PROVE v[Len(w) + j] = u[j]
    <2>1. Len(w) \in Nat /\ Len(u) = full + 2
      BY <1>2, <1>3
    <2> DEFINE l == Len(w)
               k == Len(u)
    <2>2. l \in Nat /\ k = full + 2
      BY <2>1
    <2> HIDE DEF l, k
    <2>3. l + j \in 1..l + k /\ ~(l + j <= l) /\ l + j - l = j
      BY <2>2
    <2>4. Len(w) + j \in 1..Len(w) + Len(u) /\ ~(Len(w) + j <= Len(w)) /\ Len(w) + j - Len(w) = j
      BY <2>3 DEF l, k
    <2> QED  BY <1>1, <2>4, ConcatProperties, SMTT(40)
  <1> HIDE DEF v
  <1>5. <<0, 0>> \in more
    BY DEF Cuts
  <1>6. ASSUME NEW a \in Nat, NEW b \in Nat, <<a, b>> \in more
        PROVE  /\ a <= Len(v) /\ b <= d + r
               /\ \/ a = Len(v) /\ b = d + r
                  \/ PlainAt(v, s, d + r, marked, more, a, b)
                  \/ CollapsedAt(v, s, d + r, marked, more, a, b)
    <2>1. CASE <<a, b>> \in cuts /\ ~(a = Len(w) /\ b = d)
      <3>1. cuts \subseteq more /\ Len(v) \in Nat /\ Len(w) <= Len(v) /\ d + r \in Nat /\ d <= d + r
        BY <1>3
      <3> HIDE DEF more
      <3> QED  BY <1>3, <2>1, <3>1, CutsStay, ZenonT(60)
    <2>2. CASE a = Len(w) /\ b = d
      <3>1. /\ v[a + 1] = x /\ v[a + 2 + full] = rest
            /\ \A j \in 1..full : v[a + 1 + j] = MaxByte
        <4>1. /\ 1 \in 1..full + 2 /\ 2 + full \in 1..full + 2
              /\ \A j \in 1..full : 1 + j \in 1..full + 2
              /\ a + 2 + full = Len(w) + (2 + full)
              /\ \A j \in 1..full : a + 1 + j = Len(w) + (1 + j)
          BY <1>3, <2>2, SMTT(40)
        <4> QED  BY <1>2, <1>4, <2>2, <4>1
      <3>2. a + 2 + full <= Len(v) /\ b + r <= d + r
        BY <1>3, <2>2
      <3>3. RunAt(v, s, d + r, a, b, full, rest)
        BY <1>2, <2>2, <3>1, <3>2 DEF RunAt
      <3>4. <<a + 2 + full, b + RunOf(full, rest)>> \in more
        <4>1. a + 2 + full = Len(w) + full + 2
          BY <1>3, <2>2
        <4> QED  BY <1>2, <2>2, <4>1
      <3>5. a <= Len(v) /\ b <= d + r
        BY <1>3, <2>2
      <3> QED  BY <3>1, <3>3, <3>4, <3>5 DEF CollapsedAt
    <2>3. CASE a = Len(w) + full + 2 /\ b = d + r
      BY <1>3, <2>3
    <2> QED  BY <1>6, <2>1, <2>2, <2>3
  <1>7. Cuts(v, s, d + r, marked, more)
    <2> HIDE DEF more
    <2> QED  BY <1>5, <1>6 DEF Cuts
  <1> QED  BY <1>7 DEF v, u

-----------------------------------------------------------------------------
(* A number that an int32 can hold is not changed by the conversion. *)
LEMMA Int32Keeps == ASSUME NEW x \in 0..Int32Max PROVE Int32(x) = x
  <1> DEFINE y == x + Int32Max + 1
             z == 2 * (Int32Max + 1)
  <1>1. y \in Nat /\ z \in Nat /\ y < z
    BY Limits
  <1>2. y % z = y
    <2> HIDE DEF y, z
    <2> QED  BY <1>1
  <1> QED  BY <1>1, <1>2, Limits DEF Int32

LEMMA InitRoundTrip == Init => RoundTrip
  BY DEF Init, RoundTrip, CountsInput, Matching, Retracing, RunLengthRoundTrips

LEMMA CountRoundTrip == ASSUME IInv, RoundTrip, Count PROVE RoundTrip'
  BY DEF Count, RoundTrip, CountsInput, Matching, Retracing, RunLengthRoundTrips

LEMMA CountEndsRoundTrip == ASSUME IInv, RoundTrip, CountEnds PROVE RoundTrip'
  <1>1. /\ pc = "count" /\ pc' = "encode" /\ ip' = 1 /\ run' = 0
        /\ UNCHANGED <<in, original, foreign, t, out>>
    BY DEF CountEnds
  <1>2. Matching'
    <2> SUFFICES ASSUME ~foreign PROVE Matching'
      BY <1>1 DEF Matching
    <2>1. in' = original' /\ Len(in') <= MaxLen /\ out' = <<>>
      BY <1>1 DEF RoundTrip, CountsInput, IInv, Counting
    <2>2. ip' - 1 - run' = 0
      BY <1>1
    <2>3. \E cuts : Cuts(out', in', ip' - 1 - run', Marked', cuts)
      BY <2>1, <2>2, NoCuts
    <2>4. \A j \in 1..run' : in'[ip' - 1 - run' + j] = prev'
      BY <1>1
    <2> QED  BY <2>1, <2>3, <2>4 DEF Matching
  <1> QED  BY <1>1, <1>2 DEF RoundTrip, CountsInput, Retracing, RunLengthRoundTrips

(* The run in hand grows, or it is written and another begins.               *)
LEMMA EncodeRoundTrip == ASSUME IInv, RoundTrip, Encode PROVE RoundTrip'
  <1> DEFINE b == IF ip <= Len(in) THEN in[ip] ELSE -1
             d == ip - 1 - run
  <1>1. /\ pc = "encode" /\ pc' = pc /\ ip <= Len(in) + 1 /\ ip' = ip + 1 /\ prev' = b
        /\ IF b = prev THEN run' = run + 1 /\ out' = out
           ELSE /\ run' = 1
                /\ out' = out \o (IF run = 0 THEN <<>>
                                  ELSE IF t[prev] > 0 THEN Collapsed(prev, run)
                                  ELSE [k \in 1..run |-> prev])
        /\ UNCHANGED <<in, original, foreign, t, result>>
    BY DEF Encode
  <1>2. /\ Len(in) \in Nat /\ ip \in Nat /\ ip >= 1 /\ out \in Seq(Byte)
        /\ ip = 1 => prev = -1 /\ run = 0
        /\ ip # 1 => prev \in Byte /\ run \in 1..ip - 1
        /\ ip <= Len(in) => in[ip] \in Byte
    BY <1>1, Lengths, Limits DEF IInv, Inv, TypeOK, Encoding
  <1>3. run \in Nat /\ d \in Nat /\ d + run = ip - 1 /\ -1 \notin Byte
    BY <1>2, Limits DEF Byte
  <1>4. Matching'
    <2> SUFFICES ASSUME ~foreign PROVE Matching'
      BY <1>1 DEF Matching
    <2>1. /\ in = original /\ Len(in) <= MaxLen
          /\ \A j \in 1..run : in[d + j] = prev
      BY <1>1 DEF RoundTrip, Matching
    <2>2. PICK cuts : Cuts(out, in, d, Marked, cuts)
      BY <1>1 DEF RoundTrip, Matching
    <2>3. Marked' = Marked
      BY <1>1 DEF Marked
    <2>4. CASE b = prev
      <3>1. ip' - 1 - run' = d /\ out' = out /\ in' = in
        <4>1. run' = run + 1 /\ out' = out /\ in' = in /\ ip' = ip + 1
          BY <1>1, <2>4
        <4> QED  BY <1>2, <1>3, <4>1
      <3>2. ip' <= Len(in') + 1 => \A j \in 1..run' : in'[d + j] = prev'
        <4> SUFFICES ASSUME ip' <= Len(in') + 1, NEW j \in 1..run' PROVE in[d + j] = b
          BY <1>1
        <4>1. b = in[ip] /\ run' = run + 1
          BY <1>1, <1>2, <2>4
        <4>2. CASE j = run + 1
          <5>1. d + j = ip
            BY <1>2, <1>3, <4>2
          <5> QED  BY <4>1, <5>1
        <4>3. CASE j # run + 1
          <5>1. j \in 1..run
            BY <1>3, <4>1, <4>3
          <5> QED  BY <2>1, <2>4, <5>1
        <4> QED  BY <4>2, <4>3
      <3> HIDE DEF d
      <3> QED  BY <1>1, <2>1, <2>2, <2>3, <3>1, <3>2 DEF Matching
    <2>5. CASE b # prev
      <3>1. ip' - 1 - run' = d + run /\ run' = 1 /\ in' = in
        BY <1>1, <1>2, <1>3, <2>5
      <3>2. \E more : Cuts(out', in', d + run, Marked', more)
        <4>1. CASE run = 0
          <5>1. out' = out \o <<>> /\ d + run = d
            BY <1>1, <1>3, <2>5, <4>1
          <5>2. out' = out
            BY <1>2, <5>1, ConcatEmptySeq
          <5> HIDE DEF d
          <5> QED  BY <2>2, <2>3, <3>1, <5>1, <5>2
        <4>2. CASE run # 0
          <5>1. prev \in Byte /\ run \in Nat \ {0}
            BY <1>2, <1>3, <4>2
          <5>2. CASE t[prev] > 0
            <6>1. prev \in Marked /\ out' = out \o Collapsed(prev, run)
              BY <1>1, <2>5, <4>2, <5>1, <5>2 DEF Marked
            <6> HIDE DEF d
            <6>2. \E more : Cuts(out \o Collapsed(prev, run), in, d + run, Marked, more)
              BY <1>2, <1>3, <2>1, <2>2, <5>1, <6>1, CutsCollapsed
            <6> QED  BY <2>3, <3>1, <6>1, <6>2
          <5>3. CASE ~(t[prev] > 0)
            <6>1. prev \notin Marked /\ out' = out \o [k \in 1..run |-> prev]
              BY <1>1, <2>5, <4>2, <5>1, <5>3 DEF Marked
            <6> HIDE DEF d
            <6>2. \E more : Cuts(out \o [k \in 1..run |-> prev], in, d + run, Marked, more)
              <7> DEFINE x == prev
                         n == run
              <7>1. x \in Byte /\ x \notin Marked /\ n \in Nat /\ \A j \in 1..n : in[d + j] = x
                BY <1>3, <2>1, <5>1, <6>1
              <7> HIDE DEF x, n
              <7>2. \E more : Cuts(out \o [k \in 1..n |-> x], in, d + n, Marked, more)
                BY <1>2, <1>3, <2>2, <7>1, CutsPlain, ZenonT(60)
              <7> QED  BY <7>2 DEF x, n
            <6> QED  BY <2>3, <3>1, <6>1, <6>2
          <5> QED  BY <5>2, <5>3
        <4> QED  BY <4>1, <4>2
      <3>3. ip' <= Len(in') + 1 => \A j \in 1..run' : in'[d + run + j] = prev'
        <4> SUFFICES ASSUME ip' <= Len(in') + 1, NEW j \in 1..run' PROVE in[d + run + j] = b
          BY <1>1
        <4>1. b = in[ip] /\ d + run + j = ip
          BY <1>1, <1>2, <1>3, <3>1
        <4> QED  BY <4>1
      <3> HIDE DEF d
      <3> QED  BY <1>1, <2>1, <3>1, <3>2, <3>3 DEF Matching
    <2> QED  BY <2>4, <2>5
  <1> QED  BY <1>1, <1>4 DEF RoundTrip, CountsInput, Retracing, RunLengthRoundTrips

LEMMA EncodeEndsRoundTrip == ASSUME IInv, RoundTrip, EncodeEnds PROVE RoundTrip'
  <1>1. /\ pc = "encode" /\ pc' = "decode" /\ in' = out /\ out' = <<>> /\ ip' = 1
        /\ ip > Len(in) + 1
        /\ t' = [b \in Byte |-> IF t[b] > 0 THEN 1 ELSE 0]
        /\ UNCHANGED <<original, foreign, result>>
    BY DEF EncodeEnds
  <1>2. /\ Len(in) \in Nat /\ ip \in Nat /\ ip <= Len(in) + 2 /\ (ip = Len(in) + 2 => run = 1)
    BY <1>1, Lengths DEF IInv, Inv, Encoding
  <1>3. ip - 1 - run = Len(in)
    BY <1>1, <1>2
  <1>4. Retracing'
    <2> SUFFICES ASSUME ~foreign PROVE Retracing'
      BY <1>1 DEF Retracing
    <2>1. in = original /\ Len(in) <= MaxLen
      BY <1>1 DEF RoundTrip, Matching
    <2>2. PICK cuts : Cuts(out, in, Len(in), Marked, cuts)
      BY <1>1, <1>3 DEF RoundTrip, Matching
    <2>3. Marked' = Marked /\ \A b \in Byte : t'[b] \in {0, 1}
      BY <1>1 DEF Marked
    <2>4. OutLen' = Len(in) /\ Len(out') = 0 /\ ip' - 1 = 0
      BY <1>1, <2>1, EmptySeq DEF OutLen
    <2>5. Cuts(in', original', OutLen', Marked', cuts) /\ <<ip' - 1, Len(out')>> \in cuts
      BY <1>1, <2>1, <2>2, <2>3, <2>4 DEF Cuts
    <2> QED  BY <1>1, <2>1, <2>3, <2>4, <2>5 DEF Retracing
  <1> QED  BY <1>1, <1>4 DEF RoundTrip, CountsInput, Matching, RunLengthRoundTrips

(* Decode starts on a piece. *)
LEMMA DecodeRoundTrip == ASSUME IInv, RoundTrip, Decode PROVE RoundTrip'
  <1>1. /\ pc = "decode" /\ Len(out) < OutLen /\ ip <= Len(in) /\ ip' = ip + 1
        /\ IF t[in[ip]] # 0
             THEN c' = in[ip] /\ run' = 0 /\ pc' = "runByte" /\ out' = out
             ELSE out' = Append(out, in[ip]) /\ UNCHANGED <<c, run, pc>>
        /\ UNCHANGED <<in, original, foreign, t, prev, result>>
    BY DEF Decode
  <1>2. /\ Len(in) \in Nat /\ Len(out) \in Nat /\ OutLen \in Nat /\ ip \in Nat /\ ip >= 1
        /\ in[ip] \in Byte /\ out \in Seq(Byte) /\ OutLen' = OutLen
    BY <1>1, Lengths DEF IInv, Inv, TypeOK, OutLen
  <1>3. Retracing'
    <2> SUFFICES ASSUME ~foreign PROVE Retracing'
      BY <1>1 DEF Retracing
    <2>1. /\ OutLen <= MaxLen
          /\ \A b \in Byte : t[b] \in {0, 1}
          /\ \A j \in 1..Len(out) : out[j] = original[j]
      BY <1>1 DEF RoundTrip, Retracing
    <2>2. PICK cuts : Cuts(in, original, OutLen, Marked, cuts) /\ <<ip - 1, Len(out)>> \in cuts
      BY <1>1 DEF RoundTrip, Retracing
    <2>3. Marked' = Marked
      BY <1>1 DEF Marked
    <2>4. Cuts(in', original', OutLen', Marked', cuts)
      BY <1>1, <1>2, <2>2, <2>3
    <2>5. /\ ip - 1 \in Nat /\ ip - 1 + 1 = ip
          /\ \/ PlainAt(in, original, OutLen, Marked, cuts, ip - 1, Len(out))
             \/ CollapsedAt(in, original, OutLen, Marked, cuts, ip - 1, Len(out))
      <3>1. ip - 1 \in Nat /\ ip - 1 + 1 = ip /\ ~(Len(out) = OutLen)
        BY <1>1, <1>2
      <3> QED  BY <1>2, <2>2, <3>1 DEF Cuts
    <2>6. CASE PlainAt(in, original, OutLen, Marked, cuts, ip - 1, Len(out))
      <3>1. in[ip] \notin Marked /\ original[Len(out) + 1] = in[ip] /\ <<ip, Len(out) + 1>> \in cuts
        BY <2>5, <2>6 DEF PlainAt
      <3>2. t[in[ip]] = 0
        BY <1>2, <2>1, <3>1 DEF Marked
      <3>3. out' = Append(out, in[ip]) /\ pc' = "decode" /\ ip' - 1 = ip
        BY <1>1, <1>2, <3>2
      <3>4. /\ Len(out') = Len(out) + 1 /\ out'[Len(out) + 1] = in[ip]
            /\ \A j \in 1..Len(out) : out'[j] = out[j]
        BY <1>2, <3>3, AppendProperties
      <3>5. ASSUME NEW j \in 1..Len(out') PROVE out'[j] = original'[j]
        <4>1. CASE j = Len(out) + 1
          BY <1>1, <3>1, <3>4, <4>1
        <4>2. CASE j # Len(out) + 1
          <5>1. j \in 1..Len(out)
            BY <1>2, <3>4, <4>2
          <5> QED  BY <1>1, <2>1, <3>4, <5>1
        <4> QED  BY <4>1, <4>2
      <3> QED  BY <1>1, <1>2, <2>1, <2>4, <3>1, <3>3, <3>4, <3>5 DEF Retracing
    <2>7. CASE CollapsedAt(in, original, OutLen, Marked, cuts, ip - 1, Len(out))
      <3>1. in[ip] \in Marked
        BY <2>5, <2>7 DEF CollapsedAt
      <3>2. t[in[ip]] # 0
        BY <1>2, <2>1, <3>1 DEF Marked
      <3>3. c' = in[ip] /\ run' = 0 /\ pc' = "runByte" /\ out' = out
        BY <1>1, <3>2
      <3>4. PICK full \in Nat, rest \in 0..MaxByte - 1 :
              /\ RunAt(in, original, OutLen, ip - 1, Len(out), full, rest)
              /\ <<ip - 1 + 2 + full, Len(out) + RunOf(full, rest)>> \in cuts
        BY <2>7 DEF CollapsedAt
      <3>5. ip' - 2 - 0 = ip - 1 /\ 0 <= full /\ ip' >= 0 + 2 /\ run' = 0 * MaxByte /\ 0 \in Nat
        BY <1>1, <1>2, <3>3, Limits
      <3>6. InRunByte(cuts)'
        BY <1>1, <1>2, <2>5, <3>3, <3>4, <3>5 DEF InRunByte
      <3> QED  BY <1>1, <1>2, <2>1, <2>4, <3>3, <3>6 DEF Retracing
    <2> QED  BY <2>5, <2>6, <2>7
  <1> QED  BY <1>1, <1>3 DEF RoundTrip, CountsInput, Matching, RunLengthRoundTrips

LEMMA MultiplesGrow ==
  ASSUME NEW k \in Nat, NEW m \in Nat, k < m
  PROVE  (k + 1) * MaxByte = k * MaxByte + MaxByte /\ (k + 1) * MaxByte <= m * MaxByte
  BY Limits

LEMMA RunByteRoundTrip == ASSUME IInv, RoundTrip, RunByte PROVE RoundTrip'
  <1>1. /\ pc = "runByte" /\ ip <= Len(in) /\ ip' = ip + 1 /\ prev' = in[ip]
        /\ IF in[ip] # MaxByte THEN pc' = "expand" /\ run' = run
           ELSE run' = Int32(run + MaxByte) /\ pc' = pc
        /\ UNCHANGED <<in, original, foreign, t, c, out, result>>
    BY DEF RunByte
  <1>2. /\ Len(in) \in Nat /\ Len(out) \in Nat /\ OutLen \in Nat /\ ip \in Nat /\ OutLen' = OutLen
    BY <1>1, Lengths DEF IInv, Inv, OutLen
  <1>3. Retracing'
    <2> SUFFICES ASSUME ~foreign PROVE Retracing'
      BY <1>1 DEF Retracing
    <2>1. /\ OutLen <= MaxLen
          /\ \A b \in Byte : t[b] \in {0, 1}
          /\ \A j \in 1..Len(out) : out[j] = original[j]
      BY <1>1 DEF RoundTrip, Retracing
    <2>2. PICK cuts : Cuts(in, original, OutLen, Marked, cuts) /\ InRunByte(cuts)
      BY <1>1 DEF RoundTrip, Retracing
    <2>3. Marked' = Marked
      BY <1>1 DEF Marked
    <2>4. Cuts(in', original', OutLen', Marked', cuts)
      BY <1>1, <1>2, <2>2, <2>3
    <2>5. PICK full \in Nat, rest \in 0..MaxByte - 1, k \in Nat :
            /\ k <= full /\ ip >= k + 2
            /\ run = k * MaxByte
            /\ RunAt(in, original, OutLen, ip - 2 - k, Len(out), full, rest)
            /\ c = in[ip - 2 - k + 1]
            /\ <<ip - 2 - k + 2 + full, Len(out) + RunOf(full, rest)>> \in cuts
      BY <2>2 DEF InRunByte
    <2> DEFINE a == ip - 2 - k
    <2>6. a \in Nat /\ ip = a + 2 + k /\ RunOf(full, rest) \in Nat
      BY <1>2, <2>5, RunOfPositive
    <2> HIDE DEF a
    <2>7. RunAt(in, original, OutLen, a, Len(out), full, rest) /\ c = in[a + 1]
          /\ <<a + 2 + full, Len(out) + RunOf(full, rest)>> \in cuts
      BY <2>5 DEF a
    <2>8. CASE k = full
      <3>1. in[ip] = rest /\ ip = a + 2 + full
        BY <2>6, <2>7, <2>8 DEF RunAt
      <3>2. rest # MaxByte
        BY Limits
      <3>3. pc' = "expand" /\ run' = full * MaxByte /\ prev' = rest /\ ip' - 1 = a + 2 + full
        BY <1>1, <1>2, <2>5, <2>8, <3>1, <3>2
      <3>4. /\ Len(out) + RunOf(full, rest) <= OutLen
            /\ \A j \in 1..RunOf(full, rest) : original[Len(out) + j] = c
        BY <2>7 DEF RunAt
      <3>5. InExpand(cuts)'
        BY <1>1, <1>2, <2>7, <3>3, <3>4 DEF InExpand
      <3> QED  BY <1>1, <1>2, <2>1, <2>4, <3>3, <3>5 DEF Retracing
    <2>9. CASE k # full
      <3>1. k + 1 \in 1..full /\ k < full
        BY <2>5, <2>9
      <3>2. in[ip] = MaxByte
        <4>1. a + 1 + (k + 1) = ip
          BY <2>6
        <4> QED  BY <2>7, <3>1, <4>1 DEF RunAt
      <3>3. run + MaxByte \in 0..Int32Max /\ run + MaxByte = (k + 1) * MaxByte
        <4>1. /\ (k + 1) * MaxByte = k * MaxByte + MaxByte /\ (k + 1) * MaxByte <= full * MaxByte
              /\ (k + 1) * MaxByte \in Nat /\ full * MaxByte \in Nat
          BY <3>1, MultiplesGrow, ProductOf, SMTT(40)
        <4>2. Len(out) + RunOf(full, rest) <= OutLen
          BY <2>7 DEF RunAt
        <4>3. full * MaxByte <= OutLen
          <5> DEFINE p == full * MaxByte
          <5>1. Len(out) + (p + rest + 1) <= OutLen
            BY <4>2 DEF RunOf
          <5>2. p \in Nat /\ rest \in Nat
            BY <4>1, Limits
          <5> HIDE DEF p
          <5>3. p <= OutLen
            BY <1>2, <5>1, <5>2
          <5> QED  BY <5>3 DEF p
        <4>4. run + MaxByte = (k + 1) * MaxByte
          BY <2>5, <4>1
        <4> DEFINE q == (k + 1) * MaxByte
                   p == full * MaxByte
        <4> HIDE DEF q, p
        <4>5. q <= p /\ q \in Nat /\ p \in Nat /\ p <= OutLen
          BY <4>1, <4>3 DEF p, q
        <4>6. q \in 0..Int32Max
          BY <1>2, <2>1, <4>5, Limits
        <4> QED  BY <4>4, <4>6 DEF q
      <3>4. pc' = "runByte" /\ run' = (k + 1) * MaxByte
        BY <1>1, <3>2, <3>3, Int32Keeps
      <3>5. /\ k + 1 \in Nat /\ k + 1 <= full /\ ip' >= k + 1 + 2 /\ ip' - 2 - (k + 1) = a
        BY <1>1, <1>2, <2>6, <3>1
      <3>6. InRunByte(cuts)'
        BY <1>1, <1>2, <2>7, <3>4, <3>5 DEF InRunByte
      <3> QED  BY <1>1, <1>2, <2>1, <2>4, <3>4, <3>6 DEF Retracing
    <2> QED  BY <2>8, <2>9
  <1> QED  BY <1>1, <1>3 DEF RoundTrip, CountsInput, Matching, RunLengthRoundTrips

(* The code of an encoder is not cut off. *)
LEMMA RunCutRoundTrip == ASSUME IInv, RoundTrip, RunCut PROVE RoundTrip'
  <1>1. pc = "runByte" /\ ip > Len(in) /\ pc' = "expand" /\ UNCHANGED <<foreign, result>>
    BY DEF RunCut
  <1>2. Len(in) \in Nat /\ ip \in Nat
    BY Lengths DEF IInv, Inv
  <1>3. foreign
    <2> SUFFICES ASSUME ~foreign PROVE FALSE
      OBVIOUS
    <2>1. PICK cuts : InRunByte(cuts)
      BY <1>1 DEF RoundTrip, Retracing
    <2>2. PICK full \in Nat, rest \in 0..MaxByte - 1, k \in Nat :
            /\ k <= full /\ ip >= k + 2
            /\ RunAt(in, original, OutLen, ip - 2 - k, Len(out), full, rest)
      BY <2>1 DEF InRunByte
    <2>3. ip - 2 - k + 2 + full <= Len(in)
      BY <2>2 DEF RunAt
    <2> QED  BY <1>1, <1>2, <2>2, <2>3
  <1> QED  BY <1>1, <1>3 DEF RoundTrip, CountsInput, Matching, Retracing, RunLengthRoundTrips

LEMMA ExpandRoundTrip == ASSUME IInv, RoundTrip, Expand PROVE RoundTrip'
  <1> DEFINE r    == Int32(run + prev + 1)
             room == OutLen - Len(out)
             len  == Clipped(r, room)
             u    == [k \in 1..len |-> c]
  <1>1. /\ pc = "expand" /\ pc' = "decode" /\ out' = out \o u
        /\ UNCHANGED <<in, original, foreign, ip, t, result>>
    BY DEF Expand
  <1>2. /\ Len(in) \in Nat /\ Len(out) \in Nat /\ OutLen \in Nat /\ ip \in Nat /\ OutLen' = OutLen
        /\ out \in Seq(Byte) /\ c \in Byte
    BY <1>1, Lengths DEF IInv, Inv, TypeOK, OutLen
  <1>3. Retracing'
    <2> SUFFICES ASSUME ~foreign PROVE Retracing'
      BY <1>1 DEF Retracing
    <2>1. /\ OutLen <= MaxLen
          /\ \A b \in Byte : t[b] \in {0, 1}
          /\ \A j \in 1..Len(out) : out[j] = original[j]
      BY <1>1 DEF RoundTrip, Retracing
    <2>2. PICK cuts : Cuts(in, original, OutLen, Marked, cuts) /\ InExpand(cuts)
      BY <1>1 DEF RoundTrip, Retracing
    <2>3. Marked' = Marked
      BY <1>1 DEF Marked
    <2>4. Cuts(in', original', OutLen', Marked', cuts)
      BY <1>1, <1>2, <2>2, <2>3
    <2>5. PICK full \in Nat, rest \in 0..MaxByte - 1 :
            /\ run = full * MaxByte /\ prev = rest
            /\ Len(out) + RunOf(full, rest) <= OutLen
            /\ \A j \in 1..RunOf(full, rest) : original[Len(out) + j] = c
            /\ <<ip - 1, Len(out) + RunOf(full, rest)>> \in cuts
      BY <2>2 DEF InExpand
    <2> DEFINE x == RunOf(full, rest)
    <2>6. x \in Nat /\ run + prev + 1 = x
      BY <2>5, RunOfPositive DEF RunOf
    <2> HIDE DEF x
    <2>7. Len(out) + x <= OutLen /\ <<ip - 1, Len(out) + x>> \in cuts
          /\ \A j \in 1..x : original[Len(out) + j] = c
      BY <2>5 DEF x
    <2>8. r = x
      <3>1. x \in 0..Int32Max
        BY <1>2, <2>1, <2>6, <2>7, Limits
      <3> QED  BY <2>6, <3>1, Int32Keeps
    <2>9. len = x
      BY <1>2, <2>6, <2>7, <2>8 DEF Clipped, MinOf
    <2> HIDE DEF len
    <2>10. u \in Seq(Byte) /\ Len(u) = x /\ \A j \in 1..x : u[j] = c
      BY <1>2, <2>6, <2>9, RepeatedByte
    <2> HIDE DEF u
    <2>11. /\ Len(out') = Len(out) + x
           /\ \A j \in 1..Len(out) : out'[j] = out[j]
      <3>1. Len(out') = Len(out) + Len(u)
        BY <1>1, <1>2, <2>10, ConcatProperties
      <3>2. \A j \in 1..Len(out) : j \in 1..Len(out) + Len(u) /\ j <= Len(out)
        BY <1>2, <2>6, <2>10
      <3> QED  BY <1>1, <1>2, <2>10, <3>1, <3>2, ConcatProperties
    <2>12. ASSUME NEW j \in 1..Len(out') PROVE out'[j] = original'[j]
      <3>1. CASE j <= Len(out)
        <4>1. j \in 1..Len(out)
          BY <1>2, <3>1
        <4> QED  BY <1>1, <2>1, <2>11, <4>1
      <3>2. CASE j > Len(out)
        <4> DEFINE i == j - Len(out)
        <4>1. i \in 1..x /\ j = Len(out) + i /\ j \in 1..Len(out) + Len(u) /\ ~(j <= Len(out))
          BY <1>2, <2>6, <2>10, <2>11, <3>2
        <4>2. out'[j] = u[i]
          BY <1>1, <1>2, <2>10, <4>1, ConcatProperties
        <4> HIDE DEF i
        <4> QED  BY <1>1, <2>7, <2>10, <4>1, <4>2
      <3> QED  BY <1>2, <2>6, <2>11, <3>1, <3>2
    <2>13. <<ip' - 1, Len(out')>> \in cuts
      BY <1>1, <2>7, <2>11
    <2> QED  BY <1>1, <1>2, <2>1, <2>4, <2>12, <2>13 DEF Retracing
  <1> QED  BY <1>1, <1>3 DEF RoundTrip, CountsInput, Matching, RunLengthRoundTrips

(* A cut at the end of either is at the end of both. *)
LEMMA DecodeReturnsRoundTrip == ASSUME IInv, RoundTrip, DecodeReturns PROVE RoundTrip'
  <1>1. /\ pc = "decode" /\ pc' = "returned"
        /\ Len(out) >= OutLen \/ ip > Len(in)
        /\ result' = (IF Len(out) # OutLen THEN "corrupt" ELSE "nil")
        /\ UNCHANGED <<in, original, foreign, ip, t, run, prev, c, out>>
    BY DEF DecodeReturns
  <1>2. /\ Len(in) \in Nat /\ Len(out) \in Nat /\ OutLen \in Nat /\ ip \in Nat /\ ip >= 1
        /\ out \in Seq(Byte) /\ original \in Seq(Byte)
    BY Lengths DEF IInv, Inv, TypeOK
  <1>3. RunLengthRoundTrips'
    <2> SUFFICES ASSUME ~foreign PROVE result' = "nil" /\ out' = original'
      BY <1>1 DEF RunLengthRoundTrips
    <2>1. \A j \in 1..Len(out) : out[j] = original[j]
      BY <1>1 DEF RoundTrip, Retracing
    <2>2. PICK cuts : Cuts(in, original, OutLen, Marked, cuts) /\ <<ip - 1, Len(out)>> \in cuts
      BY <1>1 DEF RoundTrip, Retracing
    <2>3. ip - 1 \in Nat
      BY <1>2
    <2>4. /\ ip - 1 <= Len(in) /\ Len(out) <= OutLen
          /\ \/ ip - 1 = Len(in) /\ Len(out) = OutLen
             \/ PlainAt(in, original, OutLen, Marked, cuts, ip - 1, Len(out))
             \/ CollapsedAt(in, original, OutLen, Marked, cuts, ip - 1, Len(out))
      BY <1>2, <2>2, <2>3 DEF Cuts
    <2>5. CASE PlainAt(in, original, OutLen, Marked, cuts, ip - 1, Len(out))
      <3>1. ip - 1 < Len(in) /\ Len(out) < OutLen
        BY <2>5 DEF PlainAt
      <3> QED  BY <1>1, <1>2, <3>1
    <2>6. CASE CollapsedAt(in, original, OutLen, Marked, cuts, ip - 1, Len(out))
      <3>1. PICK full \in Nat, rest \in 0..MaxByte - 1 :
              RunAt(in, original, OutLen, ip - 1, Len(out), full, rest)
        BY <2>6 DEF CollapsedAt
      <3>2. /\ ip - 1 + 2 + full <= Len(in) /\ Len(out) + RunOf(full, rest) <= OutLen
            /\ RunOf(full, rest) \in Nat \ {0}
        BY <3>1, RunOfPositive DEF RunAt
      <3> QED  BY <1>1, <1>2, <3>2
    <2>7. CASE ip - 1 = Len(in) /\ Len(out) = OutLen
      <3>1. Len(out) = Len(original)
        BY <2>7 DEF OutLen
      <3>2. out = original
        BY <1>2, <2>1, <3>1, SeqEqual
      <3> QED  BY <1>1, <2>7, <3>2
    <2> QED  BY <2>4, <2>5, <2>6, <2>7
  <1> QED  BY <1>1, <1>3 DEF RoundTrip, CountsInput, Matching, Retracing

LEMMA TooShortRoundTrip == ASSUME IInv, RoundTrip, TooShort PROVE RoundTrip'
  BY DEF TooShort, IInv, NoVerdictYet, RoundTrip, CountsInput, Matching, Retracing,
         RunLengthRoundTrips

LEMMA RoundTripStep == ASSUME IInv, RoundTrip, [Next]_vars PROVE RoundTrip'
  <1>1. CASE UNCHANGED vars
    <2>1. UNCHANGED <<in, original, foreign, ip, t, run, prev, c, out, pc, result>>
      BY <1>1 DEF vars
    <2>2. Marked' = Marked /\ OutLen' = OutLen
      BY <2>1 DEF Marked, OutLen
    <2>3. \A cuts : InRunByte(cuts)' = InRunByte(cuts) /\ InExpand(cuts)' = InExpand(cuts)
      BY <2>1, <2>2 DEF InRunByte, InExpand
    <2>4. Matching'
      BY <2>1, <2>2 DEF RoundTrip, Matching
    <2>5. Retracing'
      <3> SUFFICES ASSUME ~foreign, pc \in {"decode", "runByte", "expand"} PROVE Retracing'
        BY <2>1 DEF Retracing
      <3>1. PICK cuts : /\ Cuts(in, original, OutLen, Marked, cuts)
                        /\ pc = "decode" => <<ip - 1, Len(out)>> \in cuts
                        /\ pc = "runByte" => InRunByte(cuts)
                        /\ pc = "expand" => InExpand(cuts)
        BY DEF RoundTrip, Retracing
      <3>2. /\ Cuts(in, original, OutLen, Marked, cuts)'
            /\ pc' = "decode" => <<ip' - 1, Len(out')>> \in cuts
            /\ pc' = "runByte" => InRunByte(cuts)'
            /\ pc' = "expand" => InExpand(cuts)'
        BY <2>1, <2>2, <2>3, <3>1
      <3>3. /\ OutLen' <= MaxLen
            /\ \A b \in Byte : t'[b] \in {0, 1}
            /\ \A j \in 1..Len(out') : out'[j] = original'[j]
        BY <2>1, <2>2 DEF RoundTrip, Retracing
      <3> QED  BY <3>2, <3>3 DEF Retracing
    <2> QED  BY <2>1, <2>4, <2>5 DEF RoundTrip, CountsInput, RunLengthRoundTrips
  <1> QED  BY <1>1, CountRoundTrip, CountEndsRoundTrip, EncodeRoundTrip, EncodeEndsRoundTrip,
              DecodeRoundTrip, RunByteRoundTrip, RunCutRoundTrip, ExpandRoundTrip,
              DecodeReturnsRoundTrip, TooShortRoundTrip DEF Next

(***************************************************************************)
(* Decode gives back what Encode was given, whatever the input, the width  *)
(* of a byte and the length of the runs (internal/rle/rle.go).             *)
(***************************************************************************)
THEOREM RunLengthIsUndone == Spec => []RunLengthRoundTrips
  <1>1. Init => RoundTrip
    BY InitRoundTrip
  <1>2. IInv /\ RoundTrip /\ [Next]_vars => RoundTrip'
    BY RoundTripStep
  <1>3. RoundTrip => RunLengthRoundTrips
    BY DEF RoundTrip
  <1> QED  BY <1>1, <1>2, <1>3, RunLengthInvariant, PTL DEF Spec

-----------------------------------------------------------------------------
(* Every set of natural numbers that is not empty has a least element.       *)
LEMMA LeastOf ==
  ASSUME NEW T \in SUBSET Nat, T # {}
  PROVE  \E x \in T : \A y \in T : x <= y
  <1> DEFINE R == OpToRel(<, Nat)
  <1>1. IsWellFoundedOn(R, Nat)
    BY NatLessThanWellFounded
  <1>2. PICK x \in T : \A y \in T : ~(<<y, x>> \in R)
    <2> HIDE DEF R
    <2> QED  BY <1>1, WFMin
  <1>3. ASSUME NEW y \in T PROVE x <= y
    <2>1. <<y, x>> \in R <=> y < x
      BY DEF OpToRel
    <2> HIDE DEF R
    <2>2. ~(y < x)
      BY <1>2, <2>1
    <2> QED  BY <2>2
  <1> QED  BY <1>3

(* Induction over the natural numbers, for a set of them.                    *)
LEMMA InductionInSet ==
  ASSUME NEW T \in SUBSET Nat, 0 \in T, \A k \in T : k + 1 \in T
  PROVE  T = Nat
  <1> SUFFICES ASSUME T # Nat PROVE FALSE
    OBVIOUS
  <1>1. PICK x \in Nat \ T : \A y \in Nat \ T : x <= y
    BY LeastOf
  <1>2. x # 0 /\ x - 1 \in Nat
    BY <1>1
  <1>3. x - 1 \in T
    BY <1>1, <1>2
  <1> QED  BY <1>1, <1>2, <1>3

(* One value has grown. *)
Bumped(u, x, v) == [u EXCEPT ![x] = @ + v]

LEMMA BumpedIs ==
  ASSUME NEW u \in [Byte -> Int], NEW x \in Byte, NEW v \in Int
  PROVE  /\ Bumped(u, x, v) \in [Byte -> Int]
         /\ Bumped(u, x, v)[x] = u[x] + v
         /\ \A y \in Byte : y # x => Bumped(u, x, v)[y] = u[y]
  BY DEF Bumped

LEMMA BumpedTwice ==
  ASSUME NEW u \in [Byte -> Int], NEW x \in Byte, NEW v \in Int, NEW w \in Int
  PROVE  Bumped(Bumped(u, x, v), x, w) = Bumped(u, x, v + w)
  <1> DEFINE m == Bumped(u, x, v)
             f == Bumped(m, x, w)
             g == Bumped(u, x, v + w)
  <1>1. /\ m \in [Byte -> Int] /\ v + w \in Int
        /\ m[x] = u[x] + v /\ \A y \in Byte : y # x => m[y] = u[y]
    BY BumpedIs, SMTT(40)
  <1> HIDE DEF m
  <1>2. f \in [Byte -> Int] /\ g \in [Byte -> Int]
    BY <1>1, BumpedIs
  <1>3. \A y \in Byte : f[y] = g[y]
    <2> TAKE y \in Byte
    <2>1. CASE y = x
      <3>1. f[x] = m[x] + w
        BY <1>1, BumpedIs, ZenonT(60)
      <3>2. g[x] = u[x] + (v + w)
        BY <1>1, BumpedIs
      <3>3. u[x] \in Int
        OBVIOUS
      <3> HIDE DEF f, g
      <3> QED  BY <1>1, <2>1, <3>1, <3>2, <3>3
    <2>2. CASE y # x
      <3>1. f[y] = m[y]
        BY <1>1, <2>2, BumpedIs, ZenonT(60)
      <3>2. g[y] = u[y]
        BY <1>1, <2>2, BumpedIs, ZenonT(60)
      <3> HIDE DEF f, g
      <3> QED  BY <1>1, <2>2, <3>1, <3>2
    <2> QED  BY <2>1, <2>2
  <1> HIDE DEF f, g
  <1>4. f = g
    BY <1>2, <1>3
  <1> QED  BY <1>4 DEF f, g, m

(* The gains of the values in M, added up in the order of FoldSet.           *)
SumOver(u, M) == FoldSet(LAMBDA b, sum : sum + u[b], 0, M)

First(s) == CHOOSE x \in s : TRUE

SumUp(u, s, f) == IF s = {} THEN 0 ELSE f[s \ {First(s)}] + u[First(s)]

IsSum(u, M, f) == f = [s \in SUBSET M |-> SumUp(u, s, f)]

LEMMA FirstIn == ASSUME NEW s, s # {} PROVE First(s) \in s
  BY DEF First

LEMMA SmallerSet ==
  ASSUME NEW s, IsFiniteSet(s), s # {}, NEW n \in Nat, Cardinality(s) <= n + 1
  PROVE  IsFiniteSet(s \ {First(s)}) /\ Cardinality(s \ {First(s)}) <= n
  <1>1. First(s) \in s
    BY FirstIn
  <1>2. Cardinality(s) \in Nat
    BY FS_CardinalityType
  <1>3. IsFiniteSet(s \ {First(s)}) /\ Cardinality(s \ {First(s)}) = Cardinality(s) - 1
    BY <1>1, FS_RemoveElement
  <1> QED  BY <1>2, <1>3

(* The function that FoldSet chooses exists.                                 *)
SumUpTo(u, M, n, f) ==
  \A s \in SUBSET M : Cardinality(s) <= n => f[s] = SumUp(u, s, f)

LEMMA SumExists ==
  ASSUME NEW u, NEW M, IsFiniteSet(M)
  PROVE  \E f : IsSum(u, M, f)
  <1> DEFINE T == {n \in Nat : \E f : DOMAIN f = SUBSET M /\ SumUpTo(u, M, n, f)}
  <1>1. \A s \in SUBSET M : IsFiniteSet(s) /\ Cardinality(s) \in Nat
    BY FS_Subset, FS_CardinalityType
  <1>2. 0 \in T
    <2> DEFINE f == [s \in SUBSET M |-> 0]
    <2>1. ASSUME NEW s \in SUBSET M, Cardinality(s) <= 0 PROVE f[s] = SumUp(u, s, f)
      <3>1. s = {}
        BY <1>1, <2>1, FS_EmptySet
      <3> QED  BY <3>1 DEF SumUp
    <2>2. DOMAIN f = SUBSET M
      OBVIOUS
    <2> HIDE DEF f
    <2>3. SumUpTo(u, M, 0, f)
      BY <2>1 DEF SumUpTo
    <2> QED  BY <2>2, <2>3
  <1>3. ASSUME NEW n \in T PROVE n + 1 \in T
    <2>1. PICK f : DOMAIN f = SUBSET M /\ SumUpTo(u, M, n, f)
      OBVIOUS
    <2> DEFINE g == [s \in SUBSET M |-> SumUp(u, s, f)]
    <2>2. ASSUME NEW s \in SUBSET M, Cardinality(s) <= n PROVE g[s] = f[s]
      BY <2>1, <2>2 DEF SumUpTo
    <2>3. ASSUME NEW s \in SUBSET M, Cardinality(s) <= n + 1 PROVE g[s] = SumUp(u, s, g)
      <3>1. CASE s = {}
        BY <3>1 DEF SumUp
      <3>2. CASE s # {}
        <4>1. Cardinality(s \ {First(s)}) <= n /\ s \ {First(s)} \in SUBSET M
          BY <1>1, <2>3, <3>2, SmallerSet
        <4>2. g[s \ {First(s)}] = f[s \ {First(s)}]
          BY <2>2, <4>1
        <4>3. g[s] = SumUp(u, s, f)
          OBVIOUS
        <4> HIDE DEF g
        <4> QED  BY <3>2, <4>2, <4>3 DEF SumUp
      <3> QED  BY <3>1, <3>2
    <2>4. DOMAIN g = SUBSET M
      OBVIOUS
    <2> HIDE DEF g
    <2>5. SumUpTo(u, M, n + 1, g)
      BY <2>3 DEF SumUpTo
    <2> QED  BY <2>4, <2>5
  <1>4. T = Nat
    <2>1. T \in SUBSET Nat
      OBVIOUS
    <2> HIDE DEF T
    <2> QED  BY <1>2, <1>3, <2>1, InductionInSet
  <1>5. Cardinality(M) \in T
    BY <1>4, FS_CardinalityType
  <1>6. PICK f : DOMAIN f = SUBSET M /\ SumUpTo(u, M, Cardinality(M), f)
    BY <1>5
  <1> DEFINE h == [s \in SUBSET M |-> f[s]]
  <1>7. ASSUME NEW s \in SUBSET M PROVE f[s] = SumUp(u, s, f)
    <2>1. Cardinality(s) <= Cardinality(M)
      BY FS_Subset
    <2> QED  BY <1>6, <2>1 DEF SumUpTo
  <1>8. ASSUME NEW s \in SUBSET M PROVE h[s] = SumUp(u, s, h)
    <2>1. CASE s = {}
      BY <1>7, <2>1 DEF SumUp
    <2>2. CASE s # {}
      <3>1. s \ {First(s)} \in SUBSET M
        OBVIOUS
      <3>2. h[s \ {First(s)}] = f[s \ {First(s)}] /\ h[s] = f[s]
        BY <3>1
      <3> HIDE DEF h
      <3> QED  BY <1>7, <2>2, <3>2 DEF SumUp
    <2> QED  BY <2>1, <2>2
  <1>9. h = [s \in SUBSET M |-> SumUp(u, s, h)]
    <2>1. DOMAIN h = SUBSET M /\ h = [s \in DOMAIN h |-> h[s]]
      OBVIOUS
    <2> HIDE DEF h
    <2> QED  BY <1>8, <2>1
  <1> QED  BY <1>9 DEF IsSum

LEMMA SumIs ==
  ASSUME NEW u, NEW M, IsFiniteSet(M)
  PROVE  \E f : IsSum(u, M, f) /\ SumOver(u, M) = f[M]
  <1> DEFINE f == CHOOSE f : IsSum(u, M, f)
  <1>1. IsSum(u, M, f)
    BY SumExists
  <1>2. SumOver(u, M) = f[M]
    BY DEF SumOver, FoldSet, MapThenFoldSet, IsSum, SumUp, First
  <1> HIDE DEF f
  <1> QED  BY <1>1, <1>2

(* A sum in which one value has changed.                                     *)
LEMMA SumChanges ==
  ASSUME NEW M \in SUBSET Byte, NEW u \in [Byte -> Int], NEW x \in Byte, NEW v \in Int
  PROVE  /\ SumOver(u, M) \in Int
         /\ SumOver(Bumped(u, x, v), M) = SumOver(u, M) + (IF x \in M THEN v ELSE 0)
  <1>1. IsFiniteSet(M)
    <2>1. IsFiniteSet(Byte)
      BY Limits, FS_Interval DEF Byte
    <2> QED  BY <2>1, FS_Subset
  <1> DEFINE w == Bumped(u, x, v)
  <1>2. PICK f : IsSum(u, M, f) /\ SumOver(u, M) = f[M]
    BY <1>1, SumIs
  <1>3. PICK h : IsSum(w, M, h) /\ SumOver(w, M) = h[M]
    <2> HIDE DEF w
    <2> QED  BY <1>1, SumIs
  <1> DEFINE Same(s) == f[s] \in Int /\ h[s] = f[s] + (IF x \in s THEN v ELSE 0)
             T == {n \in Nat : \A s \in SUBSET M : Cardinality(s) <= n => Same(s)}
  <1>4. \A s \in SUBSET M : IsFiniteSet(s) /\ Cardinality(s) \in Nat
    BY <1>1, FS_Subset, FS_CardinalityType
  <1>5. \A s \in SUBSET M : f[s] = SumUp(u, s, f) /\ h[s] = SumUp(w, s, h)
    BY <1>2, <1>3 DEF IsSum
  <1>6. ASSUME NEW s \in SUBSET M, s = {} PROVE Same(s)
    <2>1. f[s] = 0 /\ h[s] = 0
      BY <1>5, <1>6 DEF SumUp
    <2>2. x \notin s
      BY <1>6
    <2> QED  BY <2>1, <2>2
  <1>7. ASSUME NEW s \in SUBSET M, s # {}, Same(s \ {First(s)}) PROVE Same(s)
    <2> DEFINE p == First(s)
               r == s \ {p}
    <2>1. p \in s /\ p \in Byte /\ p \notin r
      BY <1>7, FirstIn
    <2>2. f[s] = f[r] + u[p] /\ h[s] = h[r] + w[p] /\ u[p] \in Int
      BY <1>5, <1>7, <2>1 DEF SumUp
    <2>3. f[r] \in Int /\ h[r] = f[r] + (IF x \in r THEN v ELSE 0)
      BY <1>7
    <2>4. CASE p = x
      <3>1. w[p] = u[p] + v
        BY <2>1, <2>4, BumpedIs
      <3> HIDE DEF w, p, r
      <3> QED  BY <2>1, <2>2, <2>3, <2>4, <3>1
    <2>5. CASE p # x
      <3>1. w[p] = u[p] /\ (x \in s <=> x \in r)
        BY <2>1, <2>5, BumpedIs
      <3> HIDE DEF w, p, r
      <3> QED  BY <2>1, <2>2, <2>3, <2>5, <3>1
    <2> QED  BY <2>4, <2>5
  <1> HIDE DEF w
  <1>8. 0 \in T
    <2>1. ASSUME NEW s \in SUBSET M, Cardinality(s) <= 0 PROVE Same(s)
      <3>1. s = {}
        BY <1>4, <2>1, FS_EmptySet
      <3> HIDE DEF Same
      <3> QED  BY <1>6, <3>1
    <2> HIDE DEF Same
    <2> QED  BY <2>1
  <1>9. ASSUME NEW n \in T PROVE n + 1 \in T
    <2>1. ASSUME NEW s \in SUBSET M, Cardinality(s) <= n + 1 PROVE Same(s)
      <3>1. CASE s = {}
        BY <1>6, <3>1
      <3>2. CASE s # {}
        <4>1. Cardinality(s \ {First(s)}) <= n /\ s \ {First(s)} \in SUBSET M
          BY <1>4, <2>1, <3>2, SmallerSet
        <4> HIDE DEF Same
        <4> QED  BY <1>7, <3>2, <4>1
      <3> QED  BY <3>1, <3>2
    <2> HIDE DEF Same
    <2> QED  BY <2>1
  <1>10. T = Nat
    <2>1. T \in SUBSET Nat
      OBVIOUS
    <2> HIDE DEF T
    <2> QED  BY <1>8, <1>9, <2>1, InductionInSet
  <1>11. Same(M)
    <2>1. Cardinality(M) \in T /\ Cardinality(M) \in Nat
      BY <1>1, <1>10, FS_CardinalityType
    <2> QED  BY <2>1
  <1> QED  BY <1>2, <1>3, <1>11 DEF w

LEMMA SumOfZeros == ASSUME NEW M \in SUBSET Byte PROVE SumOver([b \in Byte |-> 0], M) = 0
  <1> DEFINE u == [b \in Byte |-> 0]
  <1>1. IsFiniteSet(M)
    <2>1. IsFiniteSet(Byte)
      BY Limits, FS_Interval DEF Byte
    <2> QED  BY <2>1, FS_Subset
  <1>2. PICK f : IsSum(u, M, f) /\ SumOver(u, M) = f[M]
    <2> HIDE DEF u
    <2> QED  BY <1>1, SumIs
  <1> DEFINE T == {n \in Nat : \A s \in SUBSET M : Cardinality(s) <= n => f[s] = 0}
  <1>3. \A s \in SUBSET M : /\ IsFiniteSet(s) /\ Cardinality(s) \in Nat
                            /\ f[s] = SumUp(u, s, f)
    BY <1>1, <1>2, FS_Subset, FS_CardinalityType DEF IsSum
  <1>4. 0 \in T
    <2>1. ASSUME NEW s \in SUBSET M, Cardinality(s) <= 0 PROVE f[s] = 0
      <3>1. s = {}
        BY <1>3, <2>1, FS_EmptySet
      <3> QED  BY <1>3, <3>1 DEF SumUp
    <2> QED  BY <2>1
  <1>5. ASSUME NEW n \in T PROVE n + 1 \in T
    <2>1. ASSUME NEW s \in SUBSET M, Cardinality(s) <= n + 1 PROVE f[s] = 0
      <3>1. CASE s = {}
        BY <1>3, <3>1 DEF SumUp
      <3>2. CASE s # {}
        <4>1. Cardinality(s \ {First(s)}) <= n /\ s \ {First(s)} \in SUBSET M
          BY <1>3, <2>1, <3>2, SmallerSet
        <4>2. f[s \ {First(s)}] = 0
          BY <4>1
        <4>3. u[First(s)] = 0
          BY <3>2, FirstIn
        <4>4. f[s] = f[s \ {First(s)}] + u[First(s)]
          BY <1>3, <3>2 DEF SumUp
        <4> HIDE DEF u
        <4> QED  BY <4>2, <4>3, <4>4
      <3> QED  BY <3>1, <3>2
    <2> QED  BY <2>1
  <1>6. T = Nat
    <2>1. T \in SUBSET Nat
      OBVIOUS
    <2> HIDE DEF T
    <2> QED  BY <1>4, <1>5, <2>1, InductionInSet
  <1>7. Cardinality(M) \in T
    BY <1>1, <1>6, FS_CardinalityType
  <1>8. f[M] = 0
    <2>1. Cardinality(M) <= Cardinality(M) /\ M \in SUBSET M
      BY <1>3
    <2> QED  BY <1>7, <2>1
  <1> QED  BY <1>2, <1>8

-----------------------------------------------------------------------------
(* The runs and gains that the first pass has counted after each of the      *)
(* first n bytes of s: r[p] more bytes like the last one, g[p] for each value.*)
Gained(k) == IF k = 0 THEN -1 ELSE IF k % MaxByte # 0 THEN 1 ELSE 0

Counted(s, n, r, g) ==
  /\ g[0] = [b \in Byte |-> 0]
  /\ \A p \in 0..n : g[p] \in [Byte -> Int]
  /\ \A p \in 1..n :
       /\ r[p] \in Nat
       /\ r[p] = IF p > 1 /\ s[p] = s[p - 1] THEN r[p - 1] + 1 ELSE 0
       /\ g[p] = Bumped(g[p - 1], s[p], Gained(r[p]))

GainsTo(n, r, g) ==
  /\ Counted(in, n, r, g)
  /\ t = g[n]
  /\ n > 0 => prev = in[n] /\ run = r[n]

CountingGains ==
  pc = "count" =>
    /\ out = <<>>
    /\ ip = 1 => prev = -1
    /\ \E r, g : GainsTo(ip - 1, r, g)

(* The bytes that collapsing a run of r bytes saves.                         *)
Saved(r) == r - 2 - ((r - 1) \div MaxByte)

(* What has been written is shorter than what it stands for by the gains     *)
(* counted there, and the run in hand will save what was counted for it.     *)
InRun(d, r, g) ==
  /\ prev = in[ip - 1] /\ r[ip - 1] = run - 1
  /\ g[ip - 1] = Bumped(g[d], prev, Saved(run))

GainsFrom(d, r, g) ==
  /\ Counted(in, Len(in), r, g)
  /\ t = g[Len(in)]
  /\ Len(out) + SumOver(g[d], Marked) = d
  /\ ip \in 2..Len(in) + 1 => InRun(d, r, g)

EncodingGains == pc = "encode" => \E r, g : GainsFrom(ip - 1 - run, r, g)

Gains == CountingGains /\ EncodingGains

LEMMA GainedIs == ASSUME NEW k \in Nat PROVE Gained(k) \in Int
  BY Limits DEF Gained

(* A byte more of a run saves what Count has counted for it.                 *)
LEMMA SavedGrows ==
  ASSUME NEW r \in Nat \ {0}
  PROVE  Saved(r) \in Int /\ Saved(r + 1) = Saved(r) + Gained(r)
  <1>1. MaxByte \in Nat \ {0}
    BY Limits
  <1>2. \A y \in Nat, z \in Nat \ {0} :
          y \div z \in Nat /\ y = (y \div z) * z + (y % z) /\ y % z \in 0..z - 1
    OBVIOUS
  <1> DEFINE a == (r - 1) \div MaxByte
             b == r \div MaxByte
             c0 == (r - 1) % MaxByte
             c1 == r % MaxByte
  <1>3. /\ a \in Nat /\ b \in Nat /\ c0 \in 0..MaxByte - 1 /\ c1 \in 0..MaxByte - 1
        /\ r - 1 = a * MaxByte + c0 /\ r = b * MaxByte + c1
    <2>1. r \in Nat /\ r - 1 \in Nat
      OBVIOUS
    <2> QED  BY <1>1, <1>2, <2>1
  <1>4. Saved(r) = r - 2 - a /\ Saved(r + 1) = r - 1 - b
    BY DEF Saved
  <1>5. Gained(r) = IF c1 # 0 THEN 1 ELSE 0
    BY DEF Gained
  <1> HIDE DEF a, b, c0, c1
  <1>6. (b - a) * MaxByte = 1 + c0 - c1
    BY <1>1, <1>3
  <1>7. CASE c1 = 0
    <2>1. (b - a) * MaxByte \in 1..MaxByte
      BY <1>1, <1>3, <1>6, <1>7
    <2>2. \A x \in Int, y \in Nat \ {0} : x * y \in 1..y => x = 1
      OBVIOUS
    <2>3. b - a = 1
      BY <1>1, <1>3, <2>1, <2>2
    <2> QED  BY <1>3, <1>4, <1>5, <1>7, <2>3
  <1>8. CASE c1 # 0
    <2>1. (b - a) * MaxByte \in 2 - MaxByte..MaxByte - 1
      BY <1>1, <1>3, <1>6, <1>8
    <2>2. \A x \in Int, y \in Nat \ {0} : x * y \in 2 - y..y - 1 => x = 0
      OBVIOUS
    <2>3. b - a = 0
      BY <1>1, <1>3, <2>1, <2>2
    <2> QED  BY <1>3, <1>4, <1>5, <1>8, <2>3
  <1> QED  BY <1>7, <1>8

LEMMA InitGains == Init => Gains
  <1> SUFFICES ASSUME Init PROVE Gains
    OBVIOUS
  <1>1. ip = 1 /\ prev = -1 /\ out = <<>> /\ pc # "encode"
    BY DEF Init
  <1>2. ASSUME pc = "count" PROVE \E r, g : GainsTo(ip - 1, r, g)
    <2> DEFINE g == [p \in {0} |-> t]
    <2>1. t = [b \in Byte |-> 0]
      BY <1>2 DEF Init
    <2>2. Counted(in, 0, g, g)
      BY <2>1 DEF Counted
    <2>3. t = g[0] /\ ip - 1 = 0
      BY <1>1
    <2> HIDE DEF g
    <2>4. GainsTo(ip - 1, g, g)
      BY <2>2, <2>3 DEF GainsTo
    <2> QED  BY <2>4
  <1> QED  BY <1>1, <1>2 DEF Gains, CountingGains, EncodingGains

(* The tables, a byte longer.                                                *)
LEMMA CountedMore ==
  ASSUME NEW s, NEW n \in Nat, NEW r, NEW g, Counted(s, n, r, g), s[n + 1] \in Byte,
         NEW k \in Nat, k = IF n > 0 /\ s[n + 1] = s[n] THEN r[n] + 1 ELSE 0
  PROVE  \E q, h : /\ Counted(s, n + 1, q, h)
                  /\ q[n + 1] = k
                  /\ h[n + 1] = Bumped(g[n], s[n + 1], Gained(k))
  <1> DEFINE w == Bumped(g[n], s[n + 1], Gained(k))
             q == [p \in 1..n + 1 |-> IF p = n + 1 THEN k ELSE r[p]]
             h == [p \in 0..n + 1 |-> IF p = n + 1 THEN w ELSE g[p]]
  <1>1. g[n] \in [Byte -> Int] /\ Gained(k) \in Int
    BY GainedIs DEF Counted
  <1>2. w \in [Byte -> Int]
    BY <1>1, BumpedIs
  <1>3. /\ \A p \in 0..n : h[p] = g[p]
        /\ \A p \in 1..n : q[p] = r[p]
        /\ h[n + 1] = w /\ q[n + 1] = k
    OBVIOUS
  <1> HIDE DEF q, h, w
  <1>4. h[0] = [b \in Byte |-> 0]
    BY <1>3 DEF Counted
  <1>5. ASSUME NEW p \in 0..n + 1 PROVE h[p] \in [Byte -> Int]
    BY <1>2, <1>3 DEF Counted
  <1>6. ASSUME NEW p \in 1..n + 1
        PROVE  /\ q[p] \in Nat
               /\ q[p] = IF p > 1 /\ s[p] = s[p - 1] THEN q[p - 1] + 1 ELSE 0
               /\ h[p] = Bumped(h[p - 1], s[p], Gained(q[p]))
    <2>1. CASE p = n + 1
      <3>1. p - 1 = n /\ (n > 0 => n \in 1..n) /\ n \in 0..n /\ (p > 1 <=> n > 0)
        BY <2>1
      <3>2. h[p - 1] = g[n] /\ (n > 0 => q[p - 1] = r[n])
        BY <1>3, <3>1
      <3> QED  BY <1>3, <2>1, <3>1, <3>2 DEF w
    <2>2. CASE p # n + 1
      <3>1. p \in 1..n /\ p \in 0..n /\ p - 1 \in 0..n /\ (p > 1 => p - 1 \in 1..n)
        BY <2>2
      <3>2. /\ r[p] \in Nat
            /\ r[p] = IF p > 1 /\ s[p] = s[p - 1] THEN r[p - 1] + 1 ELSE 0
            /\ g[p] = Bumped(g[p - 1], s[p], Gained(r[p]))
        BY <3>1 DEF Counted
      <3>3. q[p] = r[p] /\ h[p] = g[p] /\ h[p - 1] = g[p - 1] /\ (p > 1 => q[p - 1] = r[p - 1])
        BY <1>3, <3>1
      <3> QED  BY <3>2, <3>3
    <2> QED  BY <2>1, <2>2
  <1>7. Counted(s, n + 1, q, h)
    BY <1>4, <1>5, <1>6 DEF Counted
  <1> QED  BY <1>3, <1>7 DEF w

LEMMA CountGains == ASSUME IInv, Gains, Count PROVE Gains'
  <1>1. /\ pc = "count" /\ pc' = "count" /\ ip <= Len(in) /\ ip' = ip + 1
        /\ run' = IF in[ip] = prev THEN run + 1 ELSE 0
        /\ t' = [t EXCEPT ![in[ip]] = @ + Gain(in[ip], run')]
        /\ prev' = in[ip] /\ in' = in /\ out' = out
    BY DEF Count
  <1>2. /\ ip \in Nat /\ ip >= 1 /\ in[ip] \in Byte /\ run \in 0..ip - 1
        /\ -1 \notin Byte
    BY <1>1, Lengths, Limits DEF IInv, Inv, Counting, Byte
  <1>3. PICK r, g : GainsTo(ip - 1, r, g)
    BY <1>1 DEF Gains, CountingGains
  <1> DEFINE n == ip - 1
             k == run'
  <1>4. n \in Nat /\ n + 1 = ip /\ k \in Nat /\ ip' - 1 = n + 1 /\ (n > 0 <=> ip > 1)
    BY <1>1, <1>2
  <1>5. k = IF n > 0 /\ in[n + 1] = in[n] THEN r[n] + 1 ELSE 0
    <2>1. ip = 1 => prev = -1
      BY <1>1 DEF Gains, CountingGains
    <2>2. n > 0 => prev = in[n] /\ run = r[n]
      BY <1>3 DEF GainsTo
    <2> HIDE DEF n
    <2> QED  BY <1>1, <1>2, <1>4, <2>1, <2>2
  <1>6. Gain(in[ip], run') = Gained(k)
    BY <1>1, <1>2 DEF Gain, Gained
  <1>7. Counted(in, n, r, g) /\ t = g[n] /\ in[n + 1] \in Byte
    BY <1>2, <1>3, <1>4 DEF GainsTo
  <1>8. t' = Bumped(g[n], in[n + 1], Gained(k))
    BY <1>1, <1>4, <1>6, <1>7 DEF Bumped
  <1>9. prev' = in[n + 1] /\ ip' # 1 /\ out' = <<>>
    BY <1>1, <1>2, <1>4 DEF Gains, CountingGains
  <1> HIDE DEF n, k
  <1>10. PICK q, h : /\ Counted(in, n + 1, q, h)
                     /\ q[n + 1] = k
                     /\ h[n + 1] = Bumped(g[n], in[n + 1], Gained(k))
    BY <1>4, <1>5, <1>7, CountedMore
  <1>11. GainsTo(ip - 1, q, h)'
    <2>1. Counted(in', ip' - 1, q, h) /\ t' = h[ip' - 1] /\ prev' = in'[ip' - 1] /\ run' = q[ip' - 1]
      BY <1>1, <1>4, <1>8, <1>9, <1>10 DEF k
    <2> QED  BY <2>1 DEF GainsTo
  <1> QED  BY <1>1, <1>9, <1>11 DEF Gains, CountingGains, EncodingGains

LEMMA CountEndsGains == ASSUME IInv, Gains, CountEnds PROVE Gains'
  <1>1. /\ pc = "count" /\ pc' = "encode" /\ ip > Len(in) /\ ip' = 1 /\ run' = 0
        /\ t' = t /\ in' = in /\ out' = out
    BY DEF CountEnds
  <1>2. ip \in Nat /\ Len(in) \in Nat /\ ip = Len(in) + 1
    <2>1. TypeOK /\ ip <= Len(in) + 1
      BY <1>1 DEF IInv, Inv, Counting
    <2>2. ip \in Nat /\ Len(in) \in Nat
      BY <2>1, Lengths
    <2> QED  BY <1>1, <2>1, <2>2
  <1>3. ip - 1 = Len(in) /\ ip' - 1 - run' = 0 /\ ip' \notin 2..Len(in) + 1
    BY <1>1, <1>2
  <1>4. PICK r, g : Counted(in, Len(in), r, g) /\ t = g[Len(in)]
    BY <1>1, <1>3 DEF Gains, CountingGains, GainsTo
  <1>5. out' = <<>> /\ Len(out') = 0 /\ Marked' = Marked /\ Marked \in SUBSET Byte
    BY <1>1, EmptySeq DEF Gains, CountingGains, Marked
  <1>6. SumOver(g[0], Marked) = 0
    BY <1>4, <1>5, SumOfZeros DEF Counted
  <1>7. Len(out') + SumOver(g[ip' - 1 - run'], Marked') = ip' - 1 - run'
    BY <1>3, <1>5, <1>6
  <1>8. GainsFrom(ip - 1 - run, r, g)'
    BY <1>1, <1>3, <1>4, <1>7 DEF GainsFrom
  <1> QED  BY <1>1, <1>8 DEF Gains, CountingGains, EncodingGains

LEMMA EncodeGains == ASSUME IInv, Gains, Encode PROVE Gains'
  <1> DEFINE b == IF ip <= Len(in) THEN in[ip] ELSE -1
             d == ip - 1 - run
  <1>1. /\ pc = "encode" /\ pc' = pc /\ ip <= Len(in) + 1 /\ ip' = ip + 1 /\ prev' = b
        /\ IF b = prev THEN run' = run + 1 /\ out' = out
           ELSE /\ run' = 1
                /\ out' = out \o (IF run = 0 THEN <<>>
                                  ELSE IF t[prev] > 0 THEN Collapsed(prev, run)
                                  ELSE [k \in 1..run |-> prev])
        /\ UNCHANGED <<in, original, foreign, t, result>>
    BY DEF Encode
  <1>2. /\ Len(in) \in Nat /\ ip \in Nat /\ ip >= 1 /\ out \in Seq(Byte) /\ Len(out) \in Nat
        /\ ip = 1 => prev = -1 /\ run = 0
        /\ ip # 1 => prev \in Byte /\ run \in 1..ip - 1
        /\ ip <= Len(in) => in[ip] \in Byte
    BY <1>1, Lengths, Limits DEF IInv, Inv, TypeOK, Encoding
  <1>3. run \in Nat /\ d \in Nat /\ d + run = ip - 1 /\ -1 \notin Byte /\ d <= Len(in)
    BY <1>1, <1>2, Limits, SMTT(40) DEF Byte
  <1>p. PICK r, g : GainsFrom(d, r, g)
    BY <1>1 DEF Gains, EncodingGains
  <1>4. /\ Counted(in, Len(in), r, g)
        /\ t = g[Len(in)]
        /\ Len(out) + SumOver(g[d], Marked) = d
        /\ ip \in 2..Len(in) + 1 =>
             /\ prev = in[ip - 1] /\ r[ip - 1] = run - 1
             /\ g[ip - 1] = Bumped(g[d], prev, Saved(run))
    BY <1>p DEF GainsFrom, InRun
  <1>5. Marked' = Marked /\ Marked \in SUBSET Byte
    BY <1>1 DEF Marked
  <1>6. ip # 1 => ip \in 2..Len(in) + 1
    BY <1>1, <1>2
  <1> DEFINE e == ip' - 1 - run'
  <1>7. Len(out') + SumOver(g[e], Marked) = e
    <2>1. CASE b = prev
      <3>1. e = d /\ out' = out
        BY <1>1, <1>2, <1>3, <2>1
      <3> QED  BY <1>4, <3>1
    <2>2. CASE b # prev /\ run = 0
      <3>1. e = d /\ out' = out
        BY <1>1, <1>2, <1>3, <2>2, ConcatEmptySeq
      <3> QED  BY <1>4, <3>1
    <2>3. CASE b # prev /\ run # 0
      <3>1. e = ip - 1 /\ e = d + run /\ ip # 1 /\ run \in Nat \ {0} /\ prev \in Byte
        BY <1>1, <1>2, <1>3, <2>3
      <3>2. g[e] = Bumped(g[d], prev, Saved(run))
        BY <1>4, <1>6, <3>1
      <3>3. g[d] \in [Byte -> Int] /\ Saved(run) \in Int
        <4>1. d \in 0..Len(in)
          BY <1>2, <1>3
        <4> HIDE DEF d
        <4> QED  BY <1>4, <3>1, <4>1, SavedGrows DEF Counted
      <3> DEFINE y == SumOver(g[d], Marked)
                 z == SumOver(g[e], Marked)
      <3>4. y \in Int /\ z = y + (IF prev \in Marked THEN Saved(run) ELSE 0)
        <4> HIDE DEF d, e
        <4> QED  BY <1>5, <3>1, <3>2, <3>3, SumChanges
      <3>5. CASE t[prev] > 0
        <4>1. out' = out \o Collapsed(prev, run) /\ prev \in Marked
          BY <1>1, <2>3, <3>1, <3>5 DEF Marked
        <4>2. Len(Collapsed(prev, run)) = (run - 1) \div MaxByte + 2 /\ Collapsed(prev, run) \in Seq(Byte)
          BY <3>1, CollapsedForm, CollapsedIsBytes
        <4> DEFINE f == (run - 1) \div MaxByte
        <4>3. f \in Int /\ Saved(run) = run - 2 - f /\ Len(Collapsed(prev, run)) = f + 2
          BY <3>1, <4>2, Limits DEF Saved
        <4> HIDE DEF f
        <4>4. Len(out') = Len(out) + (f + 2)
          <5>1. Len(out \o Collapsed(prev, run)) = Len(out) + Len(Collapsed(prev, run))
            BY <1>2, <4>2, ConcatProperties
          <5> QED  BY <4>1, <4>3, <5>1
        <4>5. Len(out) + y = d /\ z = y + Saved(run) /\ e = d + run /\ run \in Int /\ d \in Int
          BY <1>3, <1>4, <3>1, <3>4, <4>1
        <4> HIDE DEF y, z, d, e
        <4>6. Len(out') + z = e
          BY <1>2, <3>4, <4>3, <4>4, <4>5, SMTT(40)
        <4> QED  BY <4>6 DEF z
      <3>6. CASE ~(t[prev] > 0)
        <4>1. out' = out \o [k \in 1..run |-> prev] /\ prev \notin Marked
          BY <1>1, <2>3, <3>1, <3>6 DEF Marked
        <4> DEFINE u == [k \in 1..run |-> prev]
        <4>2. u \in Seq(Byte) /\ Len(u) = run
          BY <3>1, RepeatedByte
        <4> HIDE DEF u
        <4>3. Len(out') = Len(out) + run
          BY <1>2, <4>1, <4>2, ConcatProperties DEF u
        <4>4. Len(out) + y = d /\ z = y /\ e = d + run /\ run \in Int /\ d \in Int
          BY <1>3, <1>4, <3>1, <3>4, <4>1
        <4> HIDE DEF y, z, d, e
        <4>5. Len(out') + z = e
          BY <1>2, <3>4, <4>3, <4>4
        <4> QED  BY <4>5 DEF z
      <3> QED  BY <3>5, <3>6
    <2> QED  BY <2>1, <2>2, <2>3
  <1>8. ASSUME ip' \in 2..Len(in) + 1
        PROVE  /\ prev' = in[ip' - 1] /\ r[ip' - 1] = run' - 1
               /\ g[ip' - 1] = Bumped(g[e], prev', Saved(run'))
    <2>1. ip \in 1..Len(in) /\ ip' - 1 = ip /\ b = in[ip] /\ in[ip] \in Byte /\ prev' = in[ip]
      BY <1>1, <1>2, <1>8
    <2>2. /\ r[ip] = IF ip > 1 /\ in[ip] = in[ip - 1] THEN r[ip - 1] + 1 ELSE 0
          /\ g[ip] = Bumped(g[ip - 1], in[ip], Gained(r[ip]))
      BY <1>4, <2>1 DEF Counted
    <2>3. CASE b = prev
      <3>1. ip # 1
        BY <1>2, <1>3, <2>1, <2>3
      <3>2. /\ prev = in[ip - 1] /\ r[ip - 1] = run - 1
            /\ g[ip - 1] = Bumped(g[d], prev, Saved(run))
        BY <1>4, <1>6, <3>1
      <3>3. ip > 1 /\ run \in Nat \ {0} /\ prev \in Byte /\ d \in 0..Len(in)
        BY <1>2, <1>3, <3>1
      <3>4. r[ip] = run
        BY <2>1, <2>2, <2>3, <3>2, <3>3
      <3>5. e = d /\ run' = run + 1
        BY <1>1, <1>2, <1>3, <2>3
      <3>6. g[d] \in [Byte -> Int]
        BY <1>4, <3>3 DEF Counted
      <3>7. Saved(run) \in Int /\ Gained(run) \in Int /\ Saved(run + 1) = Saved(run) + Gained(run)
        BY <3>3, SavedGrows, GainedIs
      <3>8. g[ip] = Bumped(g[d], prev, Saved(run + 1))
        <4>1. g[ip] = Bumped(Bumped(g[d], prev, Saved(run)), prev, Gained(run))
          BY <2>1, <2>2, <2>3, <3>2, <3>4
        <4> HIDE DEF d
        <4> QED  BY <3>3, <3>6, <3>7, <4>1, BumpedTwice
      <3>9. run' - 1 = run /\ prev' = prev
        BY <1>1, <2>3, <3>3, <3>5
      <3> HIDE DEF d, e
      <3> QED  BY <1>1, <2>1, <2>3, <3>4, <3>5, <3>8, <3>9
    <2>4. CASE b # prev
      <3>1. run' = 1 /\ e = ip - 1
        BY <1>1, <1>2, <2>4
      <3>2. r[ip] = 0
        <4>1. ip > 1 => prev = in[ip - 1]
          BY <1>4, <1>6
        <4> QED  BY <2>1, <2>2, <2>4, <4>1
      <3>3. Saved(1) = -1 /\ Gained(0) = -1
        <4>1. \A z \in Nat \ {0} : 0 \div z = 0
          OBVIOUS
        <4>2. (1 - 1) \div MaxByte = 0
          BY <4>1, Limits
        <4> QED  BY <4>2 DEF Saved, Gained
      <3> QED  BY <2>1, <2>2, <3>1, <3>2, <3>3
    <2> QED  BY <2>3, <2>4
  <1> HIDE DEF e
  <1>9. GainsFrom(ip - 1 - run, r, g)'
    BY <1>1, <1>4, <1>5, <1>7, <1>8 DEF GainsFrom, InRun, e
  <1>10. EncodingGains'
    BY <1>9 DEF EncodingGains
  <1> QED  BY <1>1, <1>10 DEF Gains, CountingGains

LEMMA GainsStep == ASSUME IInv, Gains, [Next]_vars PROVE Gains'
  <1>1. CASE UNCHANGED vars
    BY <1>1 DEF vars, Gains, CountingGains, EncodingGains, GainsTo, GainsFrom, InRun, Marked
  <1>2. CASE pc' \notin {"count", "encode"}
    BY <1>2 DEF Gains, CountingGains, EncodingGains
  <1>3. CASE Count \/ CountEnds \/ Encode
    BY <1>3, CountGains, CountEndsGains, EncodeGains
  <1>4. EncodeEnds \/ TooShort \/ Decode \/ RunByte \/ RunCut \/ Expand \/ DecodeReturns
          => pc' \notin {"count", "encode"}
    BY DEF EncodeEnds, TooShort, Decode, RunByte, RunCut, Expand, DecodeReturns
  <1> QED  BY <1>1, <1>2, <1>3, <1>4 DEF Next

LEMMA GainsExact == ASSUME IInv, Gains PROVE GainsAreExact
  <1> SUFFICES ASSUME pc = "encode", ip > Len(in) + 1
               PROVE  Len(out) = Len(in) - SumOver(t, Marked)
    BY DEF GainsAreExact, SumOver, Marked
  <1>1. /\ Len(in) \in Nat /\ ip \in Nat /\ ip <= Len(in) + 2 /\ (ip = Len(in) + 2 => run = 1)
        /\ Len(out) \in Nat /\ t \in [Byte -> Int]
    BY Lengths DEF IInv, Inv, Encoding
  <1>2. ip - 1 - run = Len(in)
    BY <1>1
  <1>3. Len(out) + SumOver(t, Marked) = Len(in)
    BY <1>2 DEF Gains, EncodingGains, GainsFrom
  <1>4. SumOver(t, Marked) \in Int
    <2>1. Marked \in SUBSET Byte /\ 0 \in Byte /\ 0 \in Int
      BY Limits DEF Marked, Byte
    <2> QED  BY <1>1, <2>1, SumChanges
  <1> QED  BY <1>1, <1>3, <1>4

(***************************************************************************)
(* GainsAreExact: the gains that the first pass counts are the bytes that  *)
(* the second saves, whatever the input (internal/rle/rle.go).             *)
(***************************************************************************)
THEOREM CountedGainsAreSaved == Spec => []GainsAreExact
  <1>1. Init => Gains
    BY InitGains
  <1>2. IInv /\ Gains /\ [Next]_vars => Gains'
    BY GainsStep
  <1>3. IInv /\ Gains => GainsAreExact
    BY GainsExact
  <1> QED  BY <1>1, <1>2, <1>3, RunLengthInvariant, PTL DEF Spec

-----------------------------------------------------------------------------
(* The LZP stage.                                                           *)
LEMMA LzpConstants ==
  /\ MaxByte \in Nat /\ MaxByte >= 2 /\ Long \in Nat /\ Long >= 1
  /\ Long = MaxByte - 1 /\ Escape = MaxByte
  /\ Long \in Byte /\ Escape \in Byte /\ MatchByte \in Byte
  /\ Word \in Nat /\ Word >= 1 /\ MinMatch \in Nat /\ MinMatch >= Word
  /\ Rest \in Nat /\ MinMatch + Rest >= 2 * Word
  /\ Slack \in Nat /\ Slack >= 2 /\ Int32Max \in Nat
  /\ DictSize \in Nat /\ DictSize >= 1
  BY LzpAssumption DEF Long, Escape, Byte

(* What is appended comes after what was there.                            *)
LEMMA Joined ==
  ASSUME NEW S, NEW w \in Seq(S), NEW u \in Seq(S)
  PROVE  /\ w \o u \in Seq(S)
         /\ Len(w) \in Nat /\ Len(u) \in Nat /\ Len(w \o u) = Len(w) + Len(u)
         /\ \A j \in 1..Len(w) : (w \o u)[j] = w[j]
         /\ \A j \in 1..Len(u) : (w \o u)[Len(w) + j] = u[j]
  <1>1. /\ w \o u \in Seq(S) /\ Len(w) \in Nat /\ Len(u) \in Nat /\ Len(w \o u) = Len(w) + Len(u)
        /\ \A k \in 1..Len(w) + Len(u) :
             (w \o u)[k] = IF k <= Len(w) THEN w[k] ELSE u[k - Len(w)]
    BY LenProperties, ConcatProperties
  <1> DEFINE l == Len(w)
             m == Len(u)
             v == w \o u
  <1>2. l \in Nat /\ m \in Nat /\ \A k \in 1..l + m : v[k] = IF k <= l THEN w[k] ELSE u[k - l]
    BY <1>1
  <1> HIDE DEF l, m, v
  <1>3. \A j \in 1..l : v[j] = w[j]
    BY <1>2
  <1>4. ASSUME NEW j \in 1..m PROVE v[l + j] = u[j]
    <2>1. l + j \in 1..l + m /\ ~(l + j <= l) /\ l + j - l = j
      BY <1>2
    <2> QED  BY <1>2, <2>1
  <1> QED  BY <1>1, <1>3, <1>4 DEF l, m, v

LEMMA OneMore ==
  ASSUME NEW S, NEW w \in Seq(S), NEW x \in S
  PROVE  /\ w \o <<x>> \in Seq(S) /\ Append(w, x) = w \o <<x>>
         /\ Len(w) \in Nat /\ Len(w \o <<x>>) = Len(w) + 1
         /\ \A j \in 1..Len(w) : (w \o <<x>>)[j] = w[j]
         /\ (w \o <<x>>)[Len(w) + 1] = x
  <1>1. Append(w, x) = w \o <<x>> /\ Len(w) \in Nat
    BY AppendIsConcat, LenProperties
  <1>2. /\ Append(w, x) \in Seq(S) /\ Len(Append(w, x)) = Len(w) + 1
        /\ \A j \in 1..Len(w) : Append(w, x)[j] = w[j]
        /\ Append(w, x)[Len(w) + 1] = x
    BY <1>1, AppendProperties
  <1> QED  BY <1>1, <1>2

LEMMA PartOf ==
  ASSUME NEW S, NEW s \in Seq(S), NEW p \in Nat, NEW n \in Nat, p + n <= Len(s)
  PROVE  /\ SubSeq(s, p + 1, p + n) \in Seq(S) /\ Len(SubSeq(s, p + 1, p + n)) = n
         /\ \A k \in 1..n : SubSeq(s, p + 1, p + n)[k] = s[p + k]
  <1> DEFINE u == SubSeq(s, p + 1, p + n)
  <1>1. Len(s) \in Nat
    BY LenProperties
  <1>2. /\ p + 1 \in Int /\ p + n \in Int
        /\ \A k \in p + 1..p + n : s[k] \in S
    BY <1>1, ElementOfSeq
  <1>3. /\ u \in Seq(S)
        /\ Len(u) = IF p + 1 <= p + n THEN p + n - (p + 1) + 1 ELSE 0
        /\ \A k \in 1..(p + n - (p + 1) + 1) : u[k] = s[p + 1 + k - 1]
    BY <1>2, SubSeqProperties
  <1> HIDE DEF u
  <1>4. p + n - (p + 1) + 1 = n /\ \A k \in 1..n : p + 1 + k - 1 = p + k
    OBVIOUS
  <1>5. Len(u) = n
    BY <1>3, <1>4
  <1>6. \A k \in 1..n : u[k] = s[p + k]
    BY <1>3, <1>4
  <1> QED  BY <1>3, <1>5, <1>6 DEF u

(* The bytes that a word holds, and the table entry they select.           *)
LEMMA WordIs ==
  ASSUME NEW s \in Seq(Byte), NEW p \in Nat, p + Word <= Len(s)
  PROVE  /\ WordAt(s, p) \in [1..Word -> Byte]
         /\ \A k \in 1..Word : WordAt(s, p)[k] = s[p + k]
  <1>1. Word \in Nat /\ Word >= 1 /\ Len(s) \in Nat
    BY LzpConstants, LenProperties
  <1> DEFINE u == SubSeq(s, p + 1, p + Word)
  <1>2. /\ u \in Seq(Byte) /\ Len(u) = Word
        /\ \A k \in 1..Word : u[k] = s[p + k]
    BY <1>1, PartOf, SMTT(40)
  <1>3. u \in [1..Word -> Byte]
    <2> HIDE DEF u
    <2> QED  BY <1>2, LenProperties
  <1> QED  BY <1>2, <1>3 DEF WordAt

LEMMA EntryIs ==
  ASSUME NEW s \in Seq(Byte), NEW p \in Nat, p >= Word, p <= Len(s)
  PROVE  Entry(s, p) \in 0..DictSize - 1
  <1>1. p - Word \in Nat /\ p - Word + Word = p
    BY LzpConstants
  <1>2. WordAt(s, p - Word) \in [1..Word -> Byte]
    BY <1>1, WordIs
  <1> QED  BY <1>2, LzpConstants, LzpAssumption DEF Entry

(* Two sequences that agree so far have the same entry there.              *)
LEMMA SameEntry ==
  ASSUME NEW s \in Seq(Byte), NEW u \in Seq(Byte),
         NEW p \in Nat, p >= Word, p <= Len(s), p <= Len(u),
         \A j \in 1..p : s[j] = u[j]
  PROVE  Entry(s, p) = Entry(u, p)
  <1>1. Word \in Nat /\ p - Word \in Nat /\ p - Word + Word = p
    BY LzpConstants
  <1> DEFINE q == p - Word
  <1>2. \A k \in 1..Word : q + k \in 1..p
    BY <1>1, SMTT(40)
  <1> HIDE DEF q
  <1>3. /\ WordAt(s, q) \in [1..Word -> Byte] /\ WordAt(u, q) \in [1..Word -> Byte]
        /\ \A k \in 1..Word : WordAt(s, q)[k] = s[q + k] /\ WordAt(u, q)[k] = u[q + k]
    BY <1>1, WordIs DEF q
  <1>4. \A k \in 1..Word : WordAt(s, q)[k] = WordAt(u, q)[k]
    BY <1>2, <1>3
  <1>5. ASSUME NEW S, NEW f \in [S -> Byte], NEW g \in [S -> Byte], \A k \in S : f[k] = g[k]
        PROVE  f = g
    BY <1>5
  <1>6. WordAt(s, q) = WordAt(u, q)
    BY <1>3, <1>4, <1>5
  <1> QED  BY <1>6 DEF q, Entry

-----------------------------------------------------------------------------
(* The words that Compress finds equal end before the tail of the input.   *)
LEMMA WordsAre ==
  ASSUME src \in Seq(Byte), at \in Nat, at < limit, NEW ref
  PROVE  \E k \in Nat \ {0} :
           /\ Words(ref) = Word * k
           /\ at + Word * k < limit + Word
           /\ \A h \in 1..k - 1 : WordAt(src, at + Word * h) = WordAt(src, ref + Word * h)
  <1> DEFINE same(k) == WordAt(src, at + Word * k) = WordAt(src, ref + Word * k)
             stop(k) == at + Word * k >= limit \/ ~same(k)
             len     == Len(src)
             first(k) == stop(k) /\ \A h \in 1..k - 1 : ~stop(h)
             k0      == CHOOSE k \in 1..len : first(k)
  <1>1. /\ Word \in Nat /\ Word >= 1 /\ len \in Nat /\ limit \in Int /\ limit <= len
        /\ at \in Nat /\ at < limit
    BY LzpConstants, LenProperties DEF limit
  <1>2. Words(ref) = Word * k0
    BY DEF Words
  <1> HIDE DEF same
  <1>3. \E k \in 1..len : first(k)
    <2> DEFINE T == {k \in 1..len : stop(k)}
    <2>1. len \in T
      <3>1. Word * len >= len
        BY <1>1
      <3> HIDE DEF len
      <3> QED  BY <1>1, <3>1
    <2>2. T \in SUBSET Nat
      BY <1>1
    <2> HIDE DEF T
    <2>3. PICK x \in T : \A y \in T : x <= y
      BY <2>1, <2>2, LeastOf
    <2>4. x \in 1..len /\ stop(x)
      BY DEF T
    <2>5. ASSUME NEW h \in 1..x - 1, stop(h) PROVE FALSE
      <3>1. h \in 1..len /\ ~(x <= h)
        BY <1>1, <2>4
      <3>2. h \in T
        BY <2>5, <3>1 DEF T
      <3> QED  BY <2>3, <3>1, <3>2
    <2> QED  BY <2>4, <2>5
  <1>4. k0 \in 1..len /\ first(k0)
    <2> HIDE DEF first
    <2> QED  BY <1>3
  <1> HIDE DEF k0, stop
  <1>5. k0 \in Nat \ {0} /\ stop(k0) /\ \A h \in 1..k0 - 1 : ~stop(h)
    BY <1>1, <1>4
  <1>6. \A h \in 1..k0 - 1 : ~(at + Word * h >= limit) /\ same(h)
    BY <1>5 DEF stop
  <1>7. at + Word * k0 < limit + Word
    <2>1. CASE k0 = 1
      BY <1>1, <2>1
    <2>2. CASE k0 # 1
      <3>1. k0 - 1 \in 1..k0 - 1
        BY <1>5, <2>2
      <3>2. ~(at + Word * (k0 - 1) >= limit)
        BY <1>6, <3>1
      <3>3. Word * (k0 - 1) = Word * k0 - Word /\ Word * k0 \in Nat
        BY <1>1, <1>5
      <3> DEFINE p == Word * k0
      <3>4. Word * (k0 - 1) = p - Word /\ p \in Nat
        BY <3>3
      <3> HIDE DEF p
      <3>5. at + p < limit + Word
        BY <1>1, <3>2, <3>4
      <3> QED  BY <3>5 DEF p
    <2> QED  BY <2>1, <2>2
  <1> QED  BY <1>2, <1>5, <1>6, <1>7 DEF same

Piece(s, p) == SubSeq(s, p + 1, p + Word)

LEMMA PieceIs ==
  ASSUME NEW s \in Seq(Byte), NEW p \in Nat, p + Word <= Len(s)
  PROVE  /\ Piece(s, p) = WordAt(s, p)
         /\ \A k \in 1..Word : Piece(s, p)[k] = s[p + k]
  <1>1. Piece(s, p) = WordAt(s, p)
    BY DEF Piece, WordAt
  <1> QED  BY <1>1, WordIs

Repeating(s, p, ref, k) == \A h \in 0..k - 1 : Piece(s, p + Word * h) = Piece(s, ref + Word * h)

LEMMA MatchedBytes ==
  ASSUME NEW s \in Seq(Byte), NEW p \in Nat, NEW ref \in Nat, ref < p,
         NEW k \in Nat, p + Word * k <= Len(s),
         Repeating(s, p, ref, k)
  PROVE  \A j \in 1..Word * k : s[p + j] = s[ref + j]
  <1>1. Word \in Nat /\ Word >= 1 /\ Len(s) \in Nat
    BY LzpConstants, LenProperties
  <1> SUFFICES ASSUME NEW j \in 1..Word * k PROVE s[p + j] = s[ref + j]
    OBVIOUS
  <1> DEFINE q == (j - 1) \div Word
             r == j - Word * q
  <1>2. j \in Nat /\ j >= 1 /\ j <= Word * k /\ Word * k \in Nat
    BY <1>1
  <1>3. q \in Nat /\ r \in 1..Word
    <2>1. \A x \in Nat, y \in Nat \ {0} :
            x \div y \in Nat /\ y * (x \div y) <= x /\ x < y * (x \div y) + y
      OBVIOUS
    <2>2. j - 1 \in Nat /\ Word \in Nat \ {0}
      BY <1>1, <1>2
    <2>3. q \in Nat /\ Word * q <= j - 1 /\ j - 1 < Word * q + Word
      BY <2>1, <2>2
    <2> DEFINE m == Word * q
    <2>4. m \in Nat
      BY <1>1, <2>3
    <2>5. m <= j - 1 /\ j - 1 < m + Word /\ r = j - m
      BY <2>3
    <2> HIDE DEF m, q
    <2>6. r \in 1..Word
      <3> HIDE DEF r
      <3> QED  BY <1>1, <1>2, <2>4, <2>5
    <2> QED  BY <2>3, <2>6
  <1> HIDE DEF q
  <1>4. q \in 0..k - 1 /\ Word * q + Word <= Word * k
    <2>1. Word * q < Word * k
      BY <1>1, <1>2, <1>3
    <2>2. q < k
      <3> SUFFICES ASSUME q >= k PROVE FALSE
        BY <1>3
      <3>1. Word * q >= Word * k
        BY <1>1, <1>3
      <3> QED  BY <1>1, <1>3, <2>1, <3>1
    <2>3. q + 1 <= k
      BY <1>3, <2>2
    <2>4. Word * (q + 1) <= Word * k /\ Word * (q + 1) = Word * q + Word
      BY <1>1, <1>3, <2>3
    <2> QED  BY <1>3, <2>2, <2>4
  <1> DEFINE m == Word * q
             n == Word * k
  <1>5. m \in Nat /\ n \in Nat /\ m + Word <= n /\ r = j - m /\ p + n <= Len(s)
    BY <1>1, <1>3, <1>4
  <1> HIDE DEF r
  <1>6. Piece(s, p + m) = Piece(s, ref + m)
    BY <1>4 DEF Repeating
  <1> HIDE DEF m, n
  <1>7. /\ p + m \in Nat /\ p + m + Word <= Len(s) /\ ref + m \in Nat /\ ref + m + Word <= Len(s)
        /\ p + m + r = p + j /\ ref + m + r = ref + j
    BY <1>1, <1>2, <1>3, <1>5
  <1>8. Piece(s, p + m)[r] = s[p + m + r] /\ Piece(s, ref + m)[r] = s[ref + m + r]
    BY <1>3, <1>7, PieceIs, ZenonT(60)
  <1> QED  BY <1>6, <1>7, <1>8

(* A match repeats, and ends within the input.                             *)
LEMMA MatchIs ==
  ASSUME src \in Seq(Byte), at \in Nat, at < limit,
         NEW ref \in Nat, ref < at, WordAt(src, at) = WordAt(src, ref)
  PROVE  /\ Words(ref) \in Nat \ {0} /\ at + Words(ref) <= Len(src)
         /\ MatchLen(ref) \in Nat /\ MatchLen(ref) >= Words(ref)
         /\ at + MatchLen(ref) <= Len(src)
         /\ \A j \in 1..MatchLen(ref) : src[at + j] = src[ref + j]
  <1>1. /\ Word \in Nat /\ Word >= 1 /\ Len(src) \in Nat
        /\ MinMatch \in Nat /\ Rest \in Nat /\ MinMatch + Rest >= 2 * Word
        /\ limit = Len(src) - MinMatch - Rest
    BY LzpConstants, LenProperties DEF limit
  <1>2. PICK k \in Nat \ {0} :
           /\ Words(ref) = Word * k
           /\ at + Word * k < limit + Word
           /\ \A h \in 1..k - 1 : WordAt(src, at + Word * h) = WordAt(src, ref + Word * h)
    BY WordsAre
  <1> DEFINE w == Words(ref)
  <1>3. w \in Nat \ {0} /\ at + w < limit + Word
    <2>1. Word * k \in Nat \ {0}
      BY <1>1
    <2> QED  BY <1>2, <2>1
  <1>4. \A j \in 1..w : src[at + j] = src[ref + j]
    <2>1. ASSUME NEW h \in 0..k - 1
          PROVE  WordAt(src, at + Word * h) = WordAt(src, ref + Word * h)
      <3>1. CASE h = 0
        <4>1. at + Word * h = at /\ ref + Word * h = ref
          BY <1>1, <3>1
        <4> QED  BY <4>1
      <3>2. CASE h # 0
        <4>1. h \in 1..k - 1
          BY <3>2
        <4> QED  BY <1>2, <4>1
      <3> QED  BY <3>1, <3>2
    <2>2. at + Word * k <= Len(src) /\ k \in Nat
      BY <1>1, <1>2, <1>3
    <2>3. \A j \in 1..Word * k : src[at + j] = src[ref + j]
      <3>1. Repeating(src, at, ref, k)
        BY <2>1 DEF Repeating, Piece, WordAt
      <3>2. at \in Nat /\ ref \in Nat /\ ref < at /\ src \in Seq(Byte)
        OBVIOUS
      <3> QED  BY <2>2, <3>1, <3>2, MatchedBytes
    <2> QED  BY <1>2, <2>3
  <1> HIDE DEF w
  <1> DEFINE T == {e \in 0..Word - 1 :
                     SubSeq(src, at + w + 1, at + w + e) = SubSeq(src, ref + w + 1, ref + w + e)}
             e0 == Max(T)
  <1>5. MatchLen(ref) = w + e0
    BY DEF MatchLen, w
  <1>6. e0 \in T
    <2>1. 0 \in T
      <3>1. /\ at + w + 1 \in Int /\ at + w + 0 \in Int /\ at + w + 0 < at + w + 1
            /\ ref + w + 1 \in Int /\ ref + w + 0 \in Int /\ ref + w + 0 < ref + w + 1
        BY <1>3
      <3>2. /\ SubSeq(src, at + w + 1, at + w + 0) = <<>>
            /\ SubSeq(src, ref + w + 1, ref + w + 0) = <<>>
        BY <3>1, SubSeqEmpty
      <3>3. 0 \in 0..Word - 1
        BY <1>1
      <3>4. SubSeq(src, at + w + 1, at + w + 0) = SubSeq(src, ref + w + 1, ref + w + 0)
        BY <3>2
      <3> QED  BY <3>3, <3>4, Zenon
    <2> DEFINE U == {Word - 1 - e : e \in T}
    <2>2. T \subseteq 0..Word - 1
      OBVIOUS
    <2> HIDE DEF T
    <2>3. U \in SUBSET Nat /\ U # {}
      BY <1>1, <2>1, <2>2
    <2>4. PICK u \in U : \A y \in U : u <= y
      <3> HIDE DEF U
      <3> QED  BY <2>3, LeastOf
    <2>5. PICK x \in T : u = Word - 1 - x
      BY <2>4
    <2>6. \A y \in T : x >= y
      <3> SUFFICES ASSUME NEW y \in T PROVE x >= y
        OBVIOUS
      <3>1. u <= Word - 1 - y
        BY <2>4
      <3> QED  BY <1>1, <2>2, <2>5, <3>1
    <2> QED  BY <2>6 DEF Max
  <1>7. /\ e0 \in 0..Word - 1
        /\ SubSeq(src, at + w + 1, at + w + e0) = SubSeq(src, ref + w + 1, ref + w + e0)
    BY <1>6
  <1> HIDE DEF e0, T
  <1>8. /\ w + e0 \in Nat /\ w + e0 >= w /\ at + (w + e0) <= Len(src) /\ at + w + e0 <= Len(src)
        /\ at + w \in Nat /\ ref + w \in Nat /\ ref + w + e0 <= Len(src) /\ e0 \in Nat
    BY <1>1, <1>3, <1>7
  <1>9. ASSUME NEW j \in 1..w + e0 PROVE src[at + j] = src[ref + j]
    <2>1. CASE j <= w
      <3>1. j \in 1..w
        BY <1>3, <2>1
      <3> QED  BY <1>4, <3>1
    <2>2. CASE j > w
      <3> DEFINE i == j - w
      <3>1. i \in 1..e0 /\ at + j = at + w + i /\ ref + j = ref + w + i
        BY <1>3, <1>8, <2>2
      <3> HIDE DEF i
      <3> DEFINE p == at + w
                 q == ref + w
      <3>2. p \in Nat /\ q \in Nat /\ e0 \in Nat /\ p + e0 <= Len(src) /\ q + e0 <= Len(src)
        BY <1>8
      <3> HIDE DEF p, q
      <3>3. /\ SubSeq(src, p + 1, p + e0)[i] = src[p + i]
            /\ SubSeq(src, q + 1, q + e0)[i] = src[q + i]
        BY <3>1, <3>2, PartOf
      <3> QED  BY <1>7, <3>1, <3>3 DEF p, q
    <2> QED  BY <1>3, <1>8, <2>1, <2>2
  <1>10. at + w <= Len(src)
    BY <1>8
  <1> QED  BY <1>3, <1>5, <1>8, <1>9, <1>10 DEF w

-----------------------------------------------------------------------------
(* Where each call stands: what it has written covers the first context, and *)
(* every entry of the table was made at an earlier position.               *)
LzpTypes ==
  /\ src \in Seq(Byte) /\ text \in Seq(Byte) /\ dst \in Seq(Byte)
  /\ alien \in BOOLEAN /\ outEnd \in Nat
  /\ at \in 0..Len(src) /\ heur \in 0..Len(src)
  /\ lut \in [0..DictSize - 1 -> Nat]
  /\ stage \in {"tooSmall", "compress", "decompress", "returned"}
  /\ Len(dst) <= MaxOf(outEnd, Len(src))

Compressing ==
  stage = "compress" =>
    /\ ~alien /\ src = text /\ Len(src) >= MinMatch + Rest /\ outEnd = 0
    /\ Word <= at /\ Word <= Len(dst) /\ Len(dst) <= Len(src)
    /\ \A h \in 0..DictSize - 1 : lut[h] < at

Decompressing ==
  stage = "decompress" =>
    /\ Word <= at /\ Word <= Len(dst) /\ Len(dst) <= outEnd
    /\ \A h \in 0..DictSize - 1 : lut[h] <= Len(dst)

Stages == LzpTypes /\ Compressing /\ Decompressing

LEMMA LzpInputs ==
  /\ \A s \in Inputs : s \in Seq(Byte) /\ Len(s) <= Int32Max
  /\ \A s \in ForeignCodes : s \in Seq(Byte)
  /\ \A l \in Rooms : l \in Nat /\ l >= Word
  BY LzpAssumption

LEMMA LzpLengths ==
  ASSUME LzpTypes
  PROVE  /\ Len(src) \in Nat /\ Len(dst) \in Nat /\ Len(text) \in Nat /\ at \in Nat
         /\ limit \in Int /\ outEOB \in Int
         /\ limit = Len(src) - MinMatch - Rest /\ outEOB = Len(src) - Slack
         /\ limit + 2 * Word <= Len(src)
  <1>1. Len(src) \in Nat /\ Len(dst) \in Nat /\ Len(text) \in Nat /\ at \in Nat
    BY LenProperties DEF LzpTypes
  <1> QED  BY <1>1, LzpConstants DEF limit, outEOB

LEMMA TableStays ==
  ASSUME lut \in [0..DictSize - 1 -> Nat], NEW e \in 0..DictSize - 1, NEW p \in Nat,
         NEW n \in Nat, n >= p, \A h \in 0..DictSize - 1 : lut[h] <= n
  PROVE  /\ [lut EXCEPT ![e] = p] \in [0..DictSize - 1 -> Nat]
         /\ \A h \in 0..DictSize - 1 : [lut EXCEPT ![e] = p][h] <= n
  OBVIOUS

(* The first context, with which both calls start.                         *)
LEMMA FirstContext ==
  ASSUME NEW s \in Seq(Byte), Word <= Len(s)
  PROVE  /\ SubSeq(s, 1, Word) \in Seq(Byte) /\ Len(SubSeq(s, 1, Word)) = Word
         /\ \A k \in 1..Word : SubSeq(s, 1, Word)[k] = s[k]
         /\ Clear \in [0..DictSize - 1 -> Nat]
         /\ \A h \in 0..DictSize - 1 : Clear[h] = 0
  <1>1. 0 \in Nat /\ Word \in Nat /\ 0 + 1 = 1 /\ 0 + Word = Word /\ \A k \in 1..Word : 0 + k = k
    BY LzpConstants
  <1>2. /\ SubSeq(s, 0 + 1, 0 + Word) \in Seq(Byte) /\ Len(SubSeq(s, 0 + 1, 0 + Word)) = Word
        /\ \A k \in 1..Word : SubSeq(s, 0 + 1, 0 + Word)[k] = s[0 + k]
    BY <1>1, PartOf
  <1> QED  BY <1>1, <1>2 DEF Clear

LEMMA InitStages == ASSUME LzpInit PROVE Stages
  <1>1. Word \in Nat /\ Word >= 1 /\ MinMatch \in Nat /\ Rest \in Nat /\ MinMatch + Rest >= 2 * Word
    BY LzpConstants
  <1>2. <<>> \in Seq(Byte) /\ Len(<<>>) = 0
    BY EmptySeq
  <1>3. /\ src \in Seq(Byte) /\ text \in Seq(Byte) /\ alien \in BOOLEAN /\ outEnd \in Nat
    <2>1. CASE src \in Inputs /\ text = src /\ alien = FALSE /\ outEnd = 0
      BY <2>1, LzpInputs
    <2>2. CASE src \in ForeignCodes /\ text = <<>> /\ alien = TRUE /\ outEnd \in Rooms
      BY <1>2, <2>2, LzpInputs
    <2> QED  BY <2>1, <2>2 DEF LzpInit
  <1>4. Len(src) \in Nat
    BY <1>3, LenProperties
  <1>5. Clear \in [0..DictSize - 1 -> Nat] /\ \A h \in 0..DictSize - 1 : Clear[h] = 0
    BY DEF Clear
  <1>6. CASE stage = "tooSmall"
    <2>1. at = 0 /\ dst = <<>> /\ lut = Clear /\ heur = 0
      BY <1>6 DEF LzpInit
    <2> QED  BY <1>2, <1>3, <1>4, <1>5, <1>6, <2>1 DEF Stages, LzpTypes, Compressing, Decompressing, MaxOf
  <1>7. CASE stage = "compress"
    <2>1. ~alien /\ src = text /\ Len(src) >= MinMatch + Rest /\ outEnd = 0
          /\ at = Word /\ dst = SubSeq(src, 1, Word) /\ lut = Clear /\ heur = 0
      BY <1>1, <1>4, <1>7 DEF LzpInit, Start
    <2>2. Word <= Len(src)
      BY <1>1, <1>4, <2>1
    <2>3. dst \in Seq(Byte) /\ Len(dst) = Word
      BY <1>3, <2>1, <2>2, FirstContext
    <2> QED  BY <1>1, <1>3, <1>4, <1>5, <1>7, <2>1, <2>2, <2>3
             DEF Stages, LzpTypes, Compressing, Decompressing, MaxOf
  <1>8. CASE stage = "decompress"
    <2>1. at = Word /\ dst = SubSeq(src, 1, Word) /\ lut = Clear /\ heur = 0
          /\ ~(Len(src) < Word) /\ outEnd \in Rooms
      BY <1>8 DEF LzpInit, Start
    <2>2. Word <= Len(src) /\ outEnd >= Word
      BY <1>1, <1>4, <2>1, LzpInputs
    <2>3. dst \in Seq(Byte) /\ Len(dst) = Word
      BY <1>3, <2>1, <2>2, FirstContext
    <2> QED  BY <1>1, <1>3, <1>4, <1>5, <1>8, <2>1, <2>2, <2>3
             DEF Stages, LzpTypes, Compressing, Decompressing, MaxOf
  <1> QED  BY <1>6, <1>7, <1>8 DEF LzpInit

LEMMA Remainders ==
  ASSUME NEW per \in Nat \ {0}, NEW m \in Nat
  PROVE  /\ m % per \in 0..per - 1
         /\ m < per => m % per = m
         /\ m >= per => m % per = (m - per) % per
  <1>1. \A x \in Nat, y \in Nat \ {0} :
          /\ x % y \in 0..y - 1 /\ x \div y \in Nat
          /\ x = y * (x \div y) + (x % y)
    OBVIOUS
  <1>2. m < per => m % per = m
    OBVIOUS
  <1>3. ASSUME m >= per PROVE m % per = (m - per) % per
    <2> DEFINE a == m \div per
               r == m % per
               b == (m - per) \div per
               u == (m - per) % per
    <2>1. m - per \in Nat
      BY <1>3
    <2>2. /\ a \in Nat /\ b \in Nat /\ r \in 0..per - 1 /\ u \in 0..per - 1
          /\ m = per * a + r /\ m - per = per * b + u
      BY <1>1, <2>1
    <2> HIDE DEF a, b, r, u
    <2>3. per * a + r = per * (b + 1) + u
      BY <2>2
    <2>4. a = b + 1
      <3>1. CASE a < b + 1
        <4>1. a + 1 <= b + 1
          BY <2>2, <3>1
        <4>2. per * (a + 1) <= per * (b + 1) /\ per * (a + 1) = per * a + per
          BY <2>2, <4>1
        <4> QED  BY <2>2, <2>3, <4>2
      <3>2. CASE a > b + 1
        <4>1. b + 2 <= a
          BY <2>2, <3>2
        <4>2. per * (b + 2) <= per * a /\ per * (b + 2) = per * (b + 1) + per
          BY <2>2, <4>1
        <4> QED  BY <2>2, <2>3, <4>2
      <3> QED  BY <2>2, <3>1, <3>2
    <2>5. r = u
      BY <2>2, <2>3, <2>4
    <2> QED  BY <2>5 DEF r, u
  <1> QED  BY <1>1, <1>2, <1>3

(* A length is written in full, or the output reaches into the reserve, where *)
(* Compress gives up.                                                      *)
InFull(n, bytes) ==
  \E full \in Nat, rest \in 0..Long - 1 :
    /\ n = Long * full + rest
    /\ Len(bytes) = full + 1
    /\ \A k \in 1..full : bytes[k] = Long
    /\ bytes[full + 1] = rest

LEMMA LengthBytesAre ==
  ASSUME LzpTypes, NEW n \in Nat, Len(dst) < outEOB
  PROVE  /\ LengthBytes(n) \in Seq(Byte) /\ Len(LengthBytes(n)) \in Nat \ {0}
         /\ Len(dst) + 1 + Len(LengthBytes(n)) <= Len(src)
         /\ Len(dst) + 1 + Len(LengthBytes(n)) >= outEOB \/ InFull(n, LengthBytes(n))
  <1> DEFINE room == outEOB - Len(dst)
             long == Long
             f    == MinOf(n \div long, MaxOf(1, room - 1))
             rest == (n - f * long) % (MaxByte + 1)
             u    == [k \in 1..f |-> long]
             lb   == LengthBytes(n)
  <1>1. /\ Len(dst) \in Nat /\ Len(src) \in Nat /\ room \in Nat /\ room >= 1
        /\ outEOB = Len(src) - Slack /\ Slack \in Nat /\ Slack >= 2
        /\ long \in Nat /\ long >= 1 /\ long \in Byte /\ long = MaxByte - 1
        /\ MaxByte \in Nat /\ MaxByte >= 2
    <2>1. /\ long \in Nat /\ long >= 1 /\ long \in Byte /\ long = MaxByte - 1
          /\ MaxByte \in Nat /\ MaxByte >= 2 /\ Slack \in Nat /\ Slack >= 2
      BY LzpConstants
    <2>2. /\ Len(dst) \in Nat /\ Len(src) \in Nat /\ outEOB \in Int
          /\ outEOB = Len(src) - Slack
      BY LzpLengths
    <2>3. room \in Nat /\ room >= 1
      BY <2>2
    <2> QED  BY <2>1, <2>2, <2>3
  <1>2. lb = u \o <<rest>>
    <2>1. outEOB - Len(dst) - 1 = room - 1
      BY <1>1, LzpLengths
    <2> QED  BY <2>1 DEF LengthBytes
  <1> HIDE DEF long, room, lb
  <1>3. /\ n \div long \in Nat /\ n - (n \div long) * long \in 0..long - 1
        /\ (n \div long) * long \in Nat
    <2>1. \A x \in Nat, y \in Nat \ {0} :
            x \div y \in Nat /\ x - (x \div y) * y \in 0..y - 1 /\ (x \div y) * y \in Nat
      OBVIOUS
    <2>2. long \in Nat \ {0}
      BY <1>1
    <2> QED  BY <2>1, <2>2
  <1>4. /\ f \in Nat /\ f <= n \div long
        /\ f <= 1 \/ f <= room - 1
        /\ f = n \div long \/ f >= room - 1
    <2> DEFINE g == n \div long
    <2>1. g \in Nat
      BY <1>3
    <2> HIDE DEF g
    <2>2. f = MinOf(g, MaxOf(1, room - 1))
      BY DEF g
    <2> HIDE DEF f
    <2>3. f \in Nat /\ f <= g /\ (f <= 1 \/ f <= room - 1) /\ (f = g \/ f >= room - 1)
      BY <1>1, <2>1, <2>2 DEF MinOf, MaxOf
    <2> QED  BY <2>3 DEF g
  <1> HIDE DEF f
  <1>5. rest \in Byte
    <2> DEFINE x == n - f * long
    <2>1. x \in Int
      BY <1>1, <1>4
    <2> HIDE DEF x
    <2>2. MaxByte + 1 \in Nat \ {0}
      BY <1>1
    <2>3. x % (MaxByte + 1) \in 0..MaxByte
      BY <2>1, <2>2, <1>1
    <2> QED  BY <2>3 DEF x, Byte
  <1>6. u \in Seq(Byte) /\ Len(u) = f /\ \A k \in 1..f : u[k] = long
    BY <1>1, <1>4, RepeatedByte
  <1>7. CASE f = n \div long
    <2>1. rest = n - f * long /\ rest \in 0..long - 1 /\ n = long * f + rest
      <3> DEFINE m == f * long
      <3>1. m \in Nat /\ n - m \in 0..long - 1 /\ long * f = m /\ rest = (n - m) % (MaxByte + 1)
        BY <1>1, <1>3, <1>4, <1>7
      <3> HIDE DEF m, rest
      <3>2. n - m \in 0..MaxByte
        BY <1>1, <3>1
      <3>3. (n - m) % (MaxByte + 1) = n - m
        <4>1. n - m \in Nat /\ MaxByte + 1 \in Nat \ {0} /\ n - m < MaxByte + 1
          BY <1>1, <3>2
        <4> QED  BY <4>1, Remainders
      <3> QED  BY <1>1, <3>1, <3>3, SMTT(40) DEF m
    <2> HIDE DEF rest, u
    <2>2. /\ lb \in Seq(Byte) /\ Len(lb) = f + 1
          /\ \A k \in 1..f : lb[k] = long
          /\ lb[f + 1] = rest
      <3>1. /\ u \o <<rest>> \in Seq(Byte) /\ Len(u \o <<rest>>) = f + 1
            /\ \A k \in 1..f : (u \o <<rest>>)[k] = u[k]
            /\ (u \o <<rest>>)[f + 1] = rest
        BY <1>5, <1>6, OneMore
      <3> QED  BY <1>2, <1>6, <3>1
    <2>3. InFull(n, lb)
      BY <1>4, <2>1, <2>2 DEF InFull, long
    <2> QED  BY <1>1, <1>4, <2>2, <2>3 DEF lb, room
  <1>8. CASE f # n \div long
    <2> HIDE DEF rest, u
    <2>1. lb \in Seq(Byte) /\ Len(lb) = f + 1
      BY <1>2, <1>4, <1>5, <1>6, OneMore
    <2>2. Len(dst) + 1 + Len(lb) >= outEOB /\ Len(dst) + 1 + Len(lb) <= Len(src)
      BY <1>1, <1>4, <1>8, <2>1 DEF room
    <2> QED  BY <1>4, <2>1, <2>2 DEF lb
  <1> QED  BY <1>7, <1>8

(* A step of Compress copies a byte, or replaces a repetition of at least  *)
(* MinMatch bytes.                                                         *)
Here == lut[Entry(src, at)]

Replaces(v) ==
  /\ v > 0
  /\ \E n \in Nat :
       /\ dst' = (dst \o <<MatchByte>>) \o LengthBytes(n)
       /\ at' = at + (MinMatch + n) /\ at + (MinMatch + n) <= Len(src)
       /\ \A j \in 1..MinMatch + n : src[at + j] = src[v + j]

LEMMA CompressNextIs ==
  ASSUME Stages, CompressNext
  PROVE  /\ stage = "compress" /\ stage' = "compress" /\ at < Len(src) /\ Len(dst) < outEOB
         /\ UNCHANGED <<src, text, alien, outEnd, answer>>
         /\ Entry(src, at) \in 0..DictSize - 1 /\ Here \in Nat /\ Here < at
         /\ lut' = [lut EXCEPT ![Entry(src, at)] = at]
         /\ heur' \in 0..Len(src)
         /\ Literal(Here) \/ Replaces(Here)
  <1> DEFINE val     == lut[Entry(src, at)]
             found   == at < limit /\ Candidate(val)
             matched == found /\ Words(val) >= MinMatch
  <1>1. /\ stage = "compress" /\ stage' = "compress" /\ at < Len(src) /\ Len(dst) < outEOB
        /\ UNCHANGED <<src, text, alien, outEnd, answer>>
        /\ lut' = [lut EXCEPT ![Entry(src, at)] = at]
        /\ IF matched
             THEN /\ dst' = dst \o <<MatchByte>> \o LengthBytes(MatchLen(val) - MinMatch)
                  /\ at' = at + MatchLen(val)
             ELSE Literal(val)
        /\ heur' = IF found /\ ~matched THEN MaxOf(heur, at + Words(val)) ELSE heur
    BY DEF CompressNext
  <1>2. /\ src \in Seq(Byte) /\ at \in Nat /\ Word <= at /\ Len(src) \in Nat /\ heur \in 0..Len(src)
        /\ lut \in [0..DictSize - 1 -> Nat] /\ \A h \in 0..DictSize - 1 : lut[h] < at
        /\ Word \in Nat /\ MinMatch \in Nat
    BY <1>1, LzpConstants, LzpLengths DEF Stages, LzpTypes, Compressing
  <1>3. Entry(src, at) \in 0..DictSize - 1
    BY <1>1, <1>2, EntryIs
  <1>4. val \in Nat /\ val < at
    BY <1>2, <1>3
  <1>5. val = Here
    BY DEF Here
  <1> HIDE DEF val
  <1>6. found => /\ Words(val) \in Nat \ {0} /\ at + Words(val) <= Len(src)
                 /\ MatchLen(val) \in Nat /\ MatchLen(val) >= Words(val)
                 /\ at + MatchLen(val) <= Len(src)
                 /\ \A j \in 1..MatchLen(val) : src[at + j] = src[val + j]
                 /\ val > 0
    <2> SUFFICES ASSUME found PROVE /\ Words(val) \in Nat \ {0} /\ at + Words(val) <= Len(src)
                 /\ MatchLen(val) \in Nat /\ MatchLen(val) >= Words(val)
                 /\ at + MatchLen(val) <= Len(src)
                 /\ \A j \in 1..MatchLen(val) : src[at + j] = src[val + j]
                 /\ val > 0
      OBVIOUS
    <2>1. at < limit /\ WordAt(src, at) = WordAt(src, val) /\ val > 0
      BY DEF Candidate
    <2> QED  BY <1>2, <1>4, <2>1, MatchIs
  <1>7. heur' \in 0..Len(src)
    <2>1. CASE found /\ ~matched
      <3>1. heur' = MaxOf(heur, at + Words(val))
        BY <1>1, <2>1
      <3>2. at + Words(val) \in 0..Len(src)
        BY <1>2, <1>6, <2>1
      <3> HIDE DEF found, matched
      <3> QED  BY <1>2, <3>1, <3>2 DEF MaxOf
    <2>2. CASE ~(found /\ ~matched)
      BY <1>1, <1>2, <2>2
    <2> QED  BY <2>1, <2>2
  <1>8. Literal(val) \/ Replaces(val)
    <2>1. CASE matched
      <3> DEFINE len == MatchLen(val)
                 n   == len - MinMatch
      <3>1. /\ len \in Nat /\ at + len <= Len(src) /\ val > 0 /\ len >= Words(val)
            /\ Words(val) >= MinMatch /\ Words(val) \in Nat
            /\ \A j \in 1..len : src[at + j] = src[val + j]
        BY <1>6, <2>1
      <3>2. dst' = (dst \o <<MatchByte>>) \o LengthBytes(n) /\ at' = at + len
        BY <1>1, <2>1
      <3> HIDE DEF len
      <3>3. n \in Nat /\ MinMatch + n = len
        BY <1>2, <3>1
      <3> HIDE DEF n, matched, found
      <3> QED  BY <3>1, <3>2, <3>3 DEF Replaces
    <2>2. CASE ~matched
      BY <1>1, <2>2
    <2> QED  BY <2>1, <2>2
  <1> QED  BY <1>1, <1>3, <1>4, <1>5, <1>7, <1>8

(* What a step of Compress appends, all of it bytes and within the output. *)
LEMMA LiteralIs ==
  ASSUME Stages, stage = "compress", at < Len(src), Len(dst) < outEOB,
         NEW v, Literal(v)
  PROVE  /\ at' = at + 1 /\ src[at + 1] \in Byte
         /\ \/ /\ ~(src[at + 1] = MatchByte /\ v > 0)
               /\ dst' = dst \o <<src[at + 1]>>
            \/ /\ src[at + 1] = MatchByte /\ v > 0
               /\ dst' = (dst \o <<MatchByte>>) \o <<Escape>>
         /\ dst' \in Seq(Byte) /\ Len(dst') >= Len(dst) /\ Len(dst') <= Len(src)
  <1> DEFINE b == src[at + 1]
  <1>1. /\ src \in Seq(Byte) /\ dst \in Seq(Byte) /\ Len(src) \in Nat /\ Len(dst) \in Nat
        /\ at \in Nat /\ outEOB = Len(src) - Slack /\ Slack \in Nat /\ Slack >= 2
        /\ Escape \in Byte /\ MatchByte \in Byte
    BY LzpConstants, LzpLengths DEF Stages, LzpTypes
  <1>2. b \in Byte
    <2>1. at + 1 \in 1..Len(src)
      BY <1>1
    <2> QED  BY <1>1, <2>1, ElementOfSeq
  <1>3. /\ at' = at + 1
        /\ dst' = (dst \o <<b>>) \o (IF b = MatchByte /\ v > 0 THEN <<Escape>> ELSE <<>>)
    BY DEF Literal, Escaped
  <1> HIDE DEF b
  <1>4. dst \o <<b>> \in Seq(Byte) /\ Len(dst \o <<b>>) = Len(dst) + 1
    BY <1>1, <1>2, OneMore
  <1>5. CASE b = MatchByte /\ v > 0
    <2>1. dst' = (dst \o <<b>>) \o <<Escape>>
      BY <1>3, <1>5
    <2>2. dst' \in Seq(Byte) /\ Len(dst') = Len(dst) + 1 + 1
      BY <1>1, <1>4, <2>1, OneMore
    <2> QED  BY <1>1, <1>2, <1>3, <1>5, <2>1, <2>2 DEF b
  <1>6. CASE ~(b = MatchByte /\ v > 0)
    <2>1. dst' = (dst \o <<b>>) \o <<>>
      BY <1>3, <1>6
    <2>2. dst' = dst \o <<b>>
      <3>1. \A w \in Seq(Byte) : w \o <<>> = w
        OBVIOUS
      <3> QED  BY <1>4, <2>1, <3>1
    <2> QED  BY <1>1, <1>2, <1>3, <1>4, <1>6, <2>2 DEF b
  <1> QED  BY <1>5, <1>6

LEMMA ReplacedIs ==
  ASSUME Stages, stage = "compress", Len(dst) < outEOB,
         NEW n \in Nat, dst' = (dst \o <<MatchByte>>) \o LengthBytes(n)
  PROVE  /\ dst' \in Seq(Byte) /\ Len(dst') <= Len(src)
         /\ LengthBytes(n) \in Seq(Byte) /\ Len(LengthBytes(n)) \in Nat \ {0}
         /\ Len(dst') = Len(dst) + 1 + Len(LengthBytes(n))
         /\ \A j \in 1..Len(dst) : dst'[j] = dst[j]
         /\ dst'[Len(dst) + 1] = MatchByte
         /\ \A k \in 1..Len(LengthBytes(n)) : dst'[Len(dst) + 1 + k] = LengthBytes(n)[k]
         /\ Len(dst') >= outEOB \/ InFull(n, LengthBytes(n))
  <1> DEFINE lb == LengthBytes(n)
             w  == dst \o <<MatchByte>>
  <1>1. /\ lb \in Seq(Byte) /\ Len(lb) \in Nat \ {0} /\ Len(dst) + 1 + Len(lb) <= Len(src)
        /\ Len(dst) + 1 + Len(lb) >= outEOB \/ InFull(n, lb)
    BY LengthBytesAre DEF Stages
  <1>2. dst \in Seq(Byte) /\ Len(dst) \in Nat /\ MatchByte \in Byte
    BY LzpConstants, LzpLengths DEF Stages, LzpTypes
  <1>3. /\ w \in Seq(Byte) /\ Len(w) = Len(dst) + 1
        /\ \A j \in 1..Len(dst) : w[j] = dst[j]
        /\ w[Len(dst) + 1] = MatchByte
    BY <1>2, OneMore
  <1> HIDE DEF lb, w
  <1>4. dst' = w \o lb
    BY DEF lb, w
  <1>5. /\ dst' \in Seq(Byte) /\ Len(dst') = Len(w) + Len(lb)
        /\ \A j \in 1..Len(w) : dst'[j] = w[j]
        /\ \A j \in 1..Len(lb) : dst'[Len(w) + j] = lb[j]
    <2>1. /\ w \o lb \in Seq(Byte) /\ Len(w \o lb) = Len(w) + Len(lb)
          /\ \A j \in 1..Len(w) : (w \o lb)[j] = w[j]
          /\ \A j \in 1..Len(lb) : (w \o lb)[Len(w) + j] = lb[j]
      <3>1. w \in Seq(Byte) /\ lb \in Seq(Byte)
        BY <1>1, <1>3
      <3> QED  BY <3>1, Joined
    <2> QED  BY <1>4, <2>1
  <1>6. /\ Len(dst') = Len(dst) + 1 + Len(lb)
        /\ \A j \in 1..Len(dst) : dst'[j] = dst[j]
        /\ dst'[Len(dst) + 1] = MatchByte
        /\ \A j \in 1..Len(lb) : dst'[Len(dst) + 1 + j] = lb[j]
    <2>1. \A j \in 1..Len(dst) : j \in 1..Len(w)
      BY <1>2, <1>3
    <2>2. Len(dst) + 1 \in 1..Len(w)
      BY <1>2, <1>3
    <2> QED  BY <1>3, <1>5, <2>1, <2>2
  <1> QED  BY <1>1, <1>5, <1>6 DEF lb

LEMMA CompressNextStages ==
  ASSUME Stages, CompressNext PROVE Stages'
  <1>1. /\ stage = "compress" /\ stage' = "compress" /\ at < Len(src) /\ Len(dst) < outEOB
        /\ UNCHANGED <<src, text, alien, outEnd, answer>>
        /\ Entry(src, at) \in 0..DictSize - 1 /\ Here \in Nat /\ Here < at
        /\ lut' = [lut EXCEPT ![Entry(src, at)] = at]
        /\ heur' \in 0..Len(src)
        /\ Literal(Here) \/ Replaces(Here)
    BY CompressNextIs
  <1>2. /\ src \in Seq(Byte) /\ text \in Seq(Byte) /\ alien \in BOOLEAN /\ outEnd \in Nat
        /\ lut \in [0..DictSize - 1 -> Nat] /\ \A h \in 0..DictSize - 1 : lut[h] < at
        /\ ~alien /\ src = text /\ Len(src) >= MinMatch + Rest /\ outEnd = 0
        /\ Word <= at /\ Word <= Len(dst)
        /\ at \in Nat /\ Len(src) \in Nat /\ Len(dst) \in Nat
        /\ Word \in Nat /\ MinMatch \in Nat /\ MinMatch >= 1 /\ Rest \in Nat
    <2>1. Word \in Nat /\ MinMatch \in Nat /\ MinMatch >= 1 /\ Rest \in Nat
      BY LzpConstants
    <2>2. at \in Nat /\ Len(src) \in Nat /\ Len(dst) \in Nat
      BY LzpLengths DEF Stages
    <2> QED  BY <1>1, <2>1, <2>2 DEF Stages, LzpTypes, Compressing
  <1>3. /\ dst' \in Seq(Byte) /\ Len(dst') \in Nat /\ Len(dst') <= Len(src) /\ Len(dst') >= Len(dst)
        /\ at' \in 0..Len(src) /\ at' > at
    <2>1. CASE Literal(Here)
      <3>1. at' = at + 1 /\ dst' \in Seq(Byte) /\ Len(dst') >= Len(dst) /\ Len(dst') <= Len(src)
        BY <1>1, <2>1, LiteralIs
      <3> QED  BY <1>1, <1>2, <3>1, LenProperties
    <2>2. CASE Replaces(Here)
      <3>1. PICK n \in Nat : /\ dst' = (dst \o <<MatchByte>>) \o LengthBytes(n)
                             /\ at' = at + (MinMatch + n) /\ at + (MinMatch + n) <= Len(src)
        BY <2>2 DEF Replaces
      <3>2. /\ dst' \in Seq(Byte) /\ Len(dst') <= Len(src)
            /\ Len(LengthBytes(n)) \in Nat \ {0}
            /\ Len(dst') = Len(dst) + 1 + Len(LengthBytes(n))
        BY <1>1, <3>1, ReplacedIs
      <3> QED  BY <1>2, <3>1, <3>2, SMTT(40)
    <2> QED  BY <1>1, <2>1, <2>2
  <1>4. /\ lut' \in [0..DictSize - 1 -> Nat]
        /\ \A h \in 0..DictSize - 1 : lut'[h] <= at
    BY <1>1, <1>2, SMTT(40)
  <1>5. \A h \in 0..DictSize - 1 : lut'[h] < at'
    <2>1. ASSUME NEW h \in 0..DictSize - 1 PROVE lut'[h] < at'
      <3>1. lut'[h] \in Nat /\ lut'[h] <= at
        BY <1>4
      <3> QED  BY <1>2, <1>3, <3>1, SMTT(40)
    <2> QED  BY <2>1
  <1>6. LzpTypes'
    BY <1>1, <1>2, <1>3, <1>4, SMTT(40) DEF LzpTypes, MaxOf
  <1>7. Compressing'
    BY <1>1, <1>2, <1>3, <1>5, SMTT(40) DEF Compressing
  <1>8. Decompressing'
    BY <1>1 DEF Decompressing
  <1> QED  BY <1>6, <1>7, <1>8 DEF Stages

LEMMA CompressReturnsStages ==
  ASSUME Stages, CompressReturns PROVE Stages'
  <1>1. /\ stage = "compress" /\ heur' = 0 /\ UNCHANGED <<text, alien>>
    BY DEF CompressReturns
  <1>2. /\ src \in Seq(Byte) /\ text \in Seq(Byte) /\ alien \in BOOLEAN /\ outEnd \in Nat
        /\ dst \in Seq(Byte) /\ lut \in [0..DictSize - 1 -> Nat] /\ at \in 0..Len(src)
        /\ ~alien /\ src = text /\ Len(src) >= MinMatch + Rest /\ outEnd = 0
        /\ Word <= at /\ Word <= Len(dst) /\ Len(dst) <= Len(src)
        /\ at \in Nat /\ Len(src) \in Nat /\ Len(dst) \in Nat
        /\ Word \in Nat /\ Word >= 1 /\ MinMatch \in Nat /\ Rest \in Nat /\ MinMatch + Rest >= 2 * Word
    BY <1>1, LzpConstants, LzpLengths DEF Stages, LzpTypes, Compressing
  <1>3. CASE Len(dst) >= outEOB
    <2>1. stage' = "returned" /\ UNCHANGED <<src, outEnd, at, dst, lut>>
      BY <1>3 DEF CompressReturns, Return
    <2>2. LzpTypes'
      BY <1>1, <1>2, <2>1 DEF LzpTypes, MaxOf
    <2> QED  BY <2>1, <2>2 DEF Stages, Compressing, Decompressing
  <1>4. CASE ~(Len(dst) >= outEOB)
    <2>1. /\ src' = dst /\ outEnd' \in {Len(text), Len(text) + 1}
          /\ at' = Word /\ dst' = SubSeq(dst, 1, Word) /\ lut' = Clear
          /\ stage' = "decompress"
      BY <1>4 DEF CompressReturns
    <2>2. /\ dst' \in Seq(Byte) /\ Len(dst') = Word
          /\ Clear \in [0..DictSize - 1 -> Nat]
          /\ \A h \in 0..DictSize - 1 : Clear[h] = 0
      BY <1>2, <2>1, FirstContext
    <2>3. outEnd' \in Nat /\ outEnd' >= Word
      BY <1>2, <2>1
    <2>4. LzpTypes'
      BY <1>1, <1>2, <2>1, <2>2, <2>3 DEF LzpTypes, MaxOf
    <2>5. Decompressing'
      BY <1>2, <2>1, <2>2, <2>3 DEF Decompressing
    <2> QED  BY <2>1, <2>4, <2>5 DEF Stages, Compressing
  <1> QED  BY <1>3, <1>4

(* Where the decoder stands, and the candidate it looks up.                *)
LEMMA DecompressingIs ==
  ASSUME Stages, stage = "decompress"
  PROVE  /\ src \in Seq(Byte) /\ dst \in Seq(Byte) /\ outEnd \in Nat
         /\ Len(src) \in Nat /\ Len(dst) \in Nat /\ at \in Nat /\ at <= Len(src)
         /\ lut \in [0..DictSize - 1 -> Nat]
         /\ Word <= at /\ Word <= Len(dst) /\ Len(dst) <= outEnd
         /\ \A h \in 0..DictSize - 1 : lut[h] <= Len(dst)
         /\ Entry(dst, Len(dst)) \in 0..DictSize - 1
         /\ Val = lut[Entry(dst, Len(dst))] /\ Val \in Nat /\ Val <= Len(dst)
         /\ MatchByte \in Byte /\ Word \in Nat /\ Word >= 1
  <1>1. /\ src \in Seq(Byte) /\ dst \in Seq(Byte) /\ outEnd \in Nat
        /\ Len(src) \in Nat /\ Len(dst) \in Nat /\ at \in Nat /\ at <= Len(src)
        /\ lut \in [0..DictSize - 1 -> Nat]
        /\ Word <= at /\ Word <= Len(dst) /\ Len(dst) <= outEnd
        /\ \A h \in 0..DictSize - 1 : lut[h] <= Len(dst)
    BY LzpLengths, SMTT(40) DEF Stages, LzpTypes, Decompressing
  <1>2. MatchByte \in Byte /\ Word \in Nat /\ Word >= 1
    BY LzpConstants
  <1>3. Entry(dst, Len(dst)) \in 0..DictSize - 1
    BY <1>1, EntryIs, SMTT(40)
  <1>4. Val = lut[Entry(dst, Len(dst))]
    BY DEF Val
  <1> QED  BY <1>1, <1>2, <1>3, <1>4

(* What each step of Decompress shares.                                    *)
LEMMA DecompressStages ==
  ASSUME Stages, stage = "decompress", stage' = "decompress",
         Lookup, dst' \in Seq(Byte), Len(dst') >= Len(dst), Len(dst') <= outEnd,
         at' \in Nat, at' >= at, at' <= Len(src)
  PROVE  Stages'
  <1>1. /\ src \in Seq(Byte) /\ dst \in Seq(Byte) /\ outEnd \in Nat
        /\ Len(src) \in Nat /\ Len(dst) \in Nat /\ at \in Nat
        /\ lut \in [0..DictSize - 1 -> Nat]
        /\ Word <= at /\ Word <= Len(dst)
        /\ \A h \in 0..DictSize - 1 : lut[h] <= Len(dst)
        /\ Entry(dst, Len(dst)) \in 0..DictSize - 1
        /\ Word \in Nat
    BY DecompressingIs
  <1>2. /\ lut' = [lut EXCEPT ![Entry(dst, Len(dst))] = Len(dst)]
        /\ UNCHANGED <<src, text, alien, outEnd, heur>>
    BY DEF Lookup
  <1>3. Len(dst') \in Nat
    BY LenProperties
  <1>4. /\ lut' \in [0..DictSize - 1 -> Nat]
        /\ \A h \in 0..DictSize - 1 : lut'[h] <= Len(dst)
    BY <1>1, <1>2, SMTT(40)
  <1>5. \A h \in 0..DictSize - 1 : lut'[h] <= Len(dst')
    <2>1. ASSUME NEW h \in 0..DictSize - 1 PROVE lut'[h] <= Len(dst')
      <3>1. lut'[h] \in Nat /\ lut'[h] <= Len(dst)
        BY <1>4
      <3> QED  BY <1>1, <1>3, <3>1, SMTT(40)
    <2> QED  BY <2>1
  <1>6. text \in Seq(Byte) /\ alien \in BOOLEAN /\ heur \in 0..Len(src)
    BY DEF Stages, LzpTypes
  <1>7. LzpTypes'
    BY <1>1, <1>2, <1>3, <1>4, <1>6, SMTT(40) DEF LzpTypes, MaxOf
  <1>8. Decompressing'
    BY <1>1, <1>2, <1>3, <1>5 DEF Decompressing
  <1> QED  BY <1>7, <1>8 DEF Stages, Compressing

LEMMA LiteralStages ==
  ASSUME Stages, DecompressLiteral PROVE Stages'
  <1>1. /\ stage = "decompress" /\ stage' = stage /\ at < Len(src) /\ Len(dst) < outEnd
        /\ dst' = Append(dst, src[at + 1]) /\ at' = at + 1 /\ Lookup
    BY DEF DecompressLiteral, Running, Go
  <1>2. /\ src \in Seq(Byte) /\ dst \in Seq(Byte) /\ outEnd \in Nat
        /\ Len(src) \in Nat /\ Len(dst) \in Nat /\ at \in Nat
    BY <1>1, DecompressingIs
  <1>3. src[at + 1] \in Byte
    BY <1>1, <1>2, ElementOfSeq
  <1>4. dst' \in Seq(Byte) /\ Len(dst') = Len(dst) + 1
    BY <1>1, <1>2, <1>3, OneMore
  <1>5. stage' = "decompress" /\ Len(dst') >= Len(dst) /\ Len(dst') <= outEnd
        /\ at' \in Nat /\ at' >= at /\ at' <= Len(src)
    BY <1>1, <1>2, <1>4
  <1> QED  BY <1>1, <1>4, <1>5, DecompressStages

LEMMA EscapeStages ==
  ASSUME Stages, DecompressEscape PROVE Stages'
  <1>1. /\ stage = "decompress" /\ stage' = stage /\ at + 1 < Len(src) /\ Len(dst) < outEnd
        /\ dst' = Append(dst, MatchByte) /\ at' = at + 2 /\ Lookup
    BY DEF DecompressEscape, Running, Go
  <1>2. /\ src \in Seq(Byte) /\ dst \in Seq(Byte) /\ outEnd \in Nat
        /\ Len(src) \in Nat /\ Len(dst) \in Nat /\ at \in Nat /\ MatchByte \in Byte
    BY <1>1, DecompressingIs
  <1>3. dst' \in Seq(Byte) /\ Len(dst') = Len(dst) + 1
    BY <1>1, <1>2, OneMore
  <1>4. stage' = "decompress" /\ Len(dst') >= Len(dst) /\ Len(dst') <= outEnd
        /\ at' \in Nat /\ at' >= at /\ at' <= Len(src)
    BY <1>1, <1>2, <1>3
  <1> QED  BY <1>1, <1>3, <1>4, DecompressStages

LEMMA ClippedIs ==
  ASSUME NEW n \in Int, outEnd \in Nat, Len(dst) \in Nat, Len(dst) <= outEnd
  PROVE  /\ Shortened(n) \in Nat /\ Len(dst) + Shortened(n) <= outEnd
         /\ n \in Nat /\ Len(dst) + n <= outEnd => Shortened(n) = n
  BY DEF Shortened, MinOf, MaxOf

LEMMA Int32Is == ASSUME NEW x \in Int PROVE Int32(x) \in Int
  BY Int32Range, LzpConstants

LEMMA ByteIsInt == ASSUME NEW b \in Byte PROVE b \in Int
  BY Limits DEF Byte

(* Where a length ends.                                                    *)
LEMMA EndIs ==
  ASSUME Len(src) \in Nat, at \in Nat, LengthEnds # {}
  PROVE  /\ Min(LengthEnds) \in at + 1..Len(src) - 1
         /\ src[Min(LengthEnds) + 1] # Long
         /\ \A p \in LengthEnds : Min(LengthEnds) <= p
  <1> DEFINE T == LengthEnds
  <1>1. T \in SUBSET Nat /\ \A p \in T : p \in at + 1..Len(src) - 1 /\ src[p + 1] # Long
    BY DEF LengthEnds
  <1>2. PICK p \in T : \A q \in T : p <= q
    <2> HIDE DEF T
    <2> QED  BY <1>1, LeastOf DEF T
  <1>3. Min(T) \in T /\ \A q \in T : Min(T) <= q
    BY <1>2 DEF Min
  <1> QED  BY <1>1, <1>3

(* What a match appends.                                                   *)
Repeated(v, o, n, stale) ==
  [k \in 1..n |-> IF v = o THEN stale[k] ELSE dst[v + 1 + ((k - 1) % (o - v))]]

LEMMA RepeatedIs ==
  ASSUME dst \in Seq(Byte), NEW v \in Nat, v <= Len(dst), NEW n \in Nat, NEW stale,
         v = Len(dst) => stale \in [1..n -> Byte]
  PROVE  /\ Repeated(v, Len(dst), n, stale) \in Seq(Byte)
         /\ Len(Repeated(v, Len(dst), n, stale)) = n
  <1> DEFINE o == Len(dst)
             x(k) == IF v = o THEN stale[k] ELSE dst[v + 1 + ((k - 1) % (o - v))]
  <1>1. o \in Nat
    BY LenProperties
  <1>2. ASSUME NEW k \in 1..n PROVE x(k) \in Byte
    <2>1. CASE v = o
      BY <2>1
    <2>2. CASE v # o
      <3> DEFINE e == (k - 1) % (o - v)
      <3>1. o - v \in Nat \ {0} /\ k - 1 \in Nat
        BY <1>1, <2>2
      <3>2. e \in 0..o - v - 1
        <4>1. \A a \in Nat, b \in Nat \ {0} : a % b \in 0..b - 1
          OBVIOUS
        <4> QED  BY <3>1, <4>1
      <3> HIDE DEF e
      <3>3. v + 1 + e \in 1..o
        BY <1>1, <3>1, <3>2
      <3> HIDE DEF o
      <3>4. dst[v + 1 + e] \in Byte
        BY <3>3, ElementOfSeq DEF o
      <3> QED  BY <2>2, <3>4 DEF e, o
    <2> QED  BY <2>1, <2>2
  <1>3. [k \in 1..n |-> x(k)] \in Seq(Byte) /\ Len([k \in 1..n |-> x(k)]) = n
    <2>1. \A u \in [1..n -> Byte] : u \in Seq(Byte) /\ Len(u) = n
      OBVIOUS
    <2>2. [k \in 1..n |-> x(k)] \in [1..n -> Byte]
      <3> HIDE DEF x
      <3> QED  BY <1>2
    <2> HIDE DEF x
    <2> QED  BY <2>1, <2>2
  <1> QED  BY <1>3 DEF Repeated

LEMMA DecompressMatchIs ==
  ASSUME Stages, DecompressMatch
  PROVE  /\ stage = "decompress" /\ stage' = "decompress" /\ at < Len(src) /\ Len(dst) < outEnd
         /\ AtMatch /\ LengthEnds # {} /\ Lookup
         /\ at + 1 < Len(src) /\ src[at + 2] # Escape
         /\ \E p \in at + 1..Len(src) - 1, n \in Nat : \E stale :
              /\ p = Min(LengthEnds)
              /\ n = Shortened(Int32(MinMatch + Long * (p - at - 1) + src[p + 1]))
              /\ Len(dst) + n <= outEnd
              /\ at' = p + 1
              /\ Val = Len(dst) => stale \in [1..n -> Byte]
              /\ dst' = dst \o Repeated(Val, Len(dst), n, stale)
  <1> DEFINE p == Min(LengthEnds)
             x == MinMatch + Long * (p - at - 1) + src[p + 1]
             n == Shortened(Int32(x))
  <1>1. /\ stage = "decompress" /\ stage' = "decompress" /\ at < Len(src) /\ Len(dst) < outEnd
        /\ AtMatch /\ LengthEnds # {} /\ Lookup
        /\ at + 1 < Len(src) /\ src[at + 2] # Escape
    BY DEF DecompressMatch, Running, Go
  <1>2. /\ src \in Seq(Byte) /\ dst \in Seq(Byte) /\ outEnd \in Nat
        /\ Len(src) \in Nat /\ Len(dst) \in Nat /\ at \in Nat
    BY <1>1, DecompressingIs
  <1>3. p \in at + 1..Len(src) - 1
    BY <1>1, <1>2, EndIs
  <1>4. n \in Nat /\ Len(dst) + n <= outEnd
    <2> HIDE DEF p
    <2>1. src[p + 1] \in Int
      <3>1. p + 1 \in 1..Len(src)
        BY <1>2, <1>3
      <3>2. src[p + 1] \in Byte
        BY <1>2, <3>1, ElementOfSeq
      <3> QED  BY <3>2, ByteIsInt
    <2>2. x \in Int
      <3>1. Long \in Nat /\ MinMatch \in Nat /\ p - at - 1 \in Int
        BY <1>2, <1>3, LzpConstants
      <3>2. Long * (p - at - 1) \in Int
        BY <3>1
      <3> QED  BY <2>1, <3>1, <3>2
    <2> HIDE DEF x
    <2>3. Int32(x) \in Int
      BY <2>2, Int32Is
    <2> QED  BY <1>1, <1>2, <2>3, ClippedIs
  <1>5. at' = p + 1
    BY DEF DecompressMatch
  <1>6. \E stale \in IF Val = Len(dst) THEN [1..n -> Byte] ELSE {<<>>} :
          dst' = dst \o Repeated(Val, Len(dst), n, stale)
    BY DEF DecompressMatch, Repeated
  <1> HIDE DEF p, n
  <1>7. PICK stale \in IF Val = Len(dst) THEN [1..n -> Byte] ELSE {<<>>} :
          dst' = dst \o Repeated(Val, Len(dst), n, stale)
    BY <1>6
  <1>8. Val = Len(dst) => stale \in [1..n -> Byte]
    BY <1>7
  <1>9. p = Min(LengthEnds) /\ n = Shortened(Int32(MinMatch + Long * (p - at - 1) + src[p + 1]))
    BY DEF p, n
  <1> QED  BY <1>1, <1>3, <1>4, <1>5, <1>7, <1>8, <1>9

LEMMA MatchStages ==
  ASSUME Stages, DecompressMatch PROVE Stages'
  <1>1. stage = "decompress" /\ stage' = "decompress" /\ Lookup
    BY DecompressMatchIs
  <1>2a. PICK p \in at + 1..Len(src) - 1, n \in Nat :
           \E stale :
              /\ Len(dst) + n <= outEnd
              /\ at' = p + 1
              /\ Val = Len(dst) => stale \in [1..n -> Byte]
              /\ dst' = dst \o Repeated(Val, Len(dst), n, stale)
    BY DecompressMatchIs
  <1>2. PICK stale :
              /\ Len(dst) + n <= outEnd
              /\ at' = p + 1
              /\ Val = Len(dst) => stale \in [1..n -> Byte]
              /\ dst' = dst \o Repeated(Val, Len(dst), n, stale)
    BY <1>2a
  <1>3. /\ src \in Seq(Byte) /\ dst \in Seq(Byte) /\ outEnd \in Nat
        /\ Len(src) \in Nat /\ Len(dst) \in Nat /\ at \in Nat
        /\ Val \in Nat /\ Val <= Len(dst)
    BY <1>1, DecompressingIs
  <1> DEFINE u == Repeated(Val, Len(dst), n, stale)
  <1>4. u \in Seq(Byte) /\ Len(u) = n
    BY <1>2, <1>3, RepeatedIs
  <1> HIDE DEF u
  <1>5. dst' = dst \o u
    BY <1>2 DEF u
  <1>6. dst' \in Seq(Byte) /\ Len(dst') = Len(dst) + n
    <2>1. dst \o u \in Seq(Byte) /\ Len(dst \o u) = Len(dst) + Len(u)
      BY <1>3, <1>4, Joined, ZenonT(60)
    <2> QED  BY <1>4, <1>5, <2>1
  <1>7. Len(dst') >= Len(dst) /\ Len(dst') <= outEnd
        /\ at' \in Nat /\ at' >= at /\ at' <= Len(src)
    BY <1>2, <1>3, <1>6
  <1> QED  BY <1>1, <1>6, <1>7, DecompressStages

(* The other steps leave what has been written alone.                      *)
LEMMA EndStages ==
  ASSUME Stages,
         DecompressCut \/ TooSmall \/ DecompressReturns
  PROVE  Stages'
  <1>1. /\ stage' = "returned" /\ UNCHANGED <<src, text, alien, outEnd, heur, at, dst>>
        /\ lut' = lut \/ (stage = "decompress" /\ Lookup)
    <2>1. CASE DecompressCut
      BY <2>1 DEF DecompressCut, Return, Lookup, Running
    <2>2. CASE TooSmall
      BY <2>2 DEF TooSmall, Return
    <2>3. CASE DecompressReturns
      BY <2>3 DEF DecompressReturns, Return
    <2> QED  BY <2>1, <2>2, <2>3
  <1>2. lut' \in [0..DictSize - 1 -> Nat]
    <2>1. CASE lut' = lut
      BY <2>1 DEF Stages, LzpTypes
    <2>2. CASE stage = "decompress" /\ Lookup
      <3>1. lut \in [0..DictSize - 1 -> Nat] /\ Len(dst) \in Nat
            /\ Entry(dst, Len(dst)) \in 0..DictSize - 1
        BY <2>2, DecompressingIs
      <3>2. lut' = [lut EXCEPT ![Entry(dst, Len(dst))] = Len(dst)]
        BY <2>2 DEF Lookup
      <3> QED  BY <3>1, <3>2
    <2> QED  BY <1>1, <2>1, <2>2
  <1>3. LzpTypes'
    BY <1>1, <1>2 DEF Stages, LzpTypes, MaxOf
  <1> QED  BY <1>1, <1>3 DEF Stages, Compressing, Decompressing

LEMMA StagesStep ==
  ASSUME Stages, [LzpNext]_lzpVars PROVE Stages'
  <1>1. CASE CompressNext
    BY <1>1, CompressNextStages
  <1>2. CASE CompressReturns
    BY <1>2, CompressReturnsStages
  <1>3. CASE DecompressLiteral
    BY <1>3, LiteralStages
  <1>4. CASE DecompressEscape
    BY <1>4, EscapeStages
  <1>5. CASE DecompressMatch
    BY <1>5, MatchStages
  <1>6. CASE DecompressCut \/ TooSmall \/ DecompressReturns
    BY <1>6, EndStages
  <1>7. CASE UNCHANGED lzpVars
    BY <1>7 DEF lzpVars, Stages, LzpTypes, Compressing, Decompressing, MaxOf
  <1> QED  BY <1>1, <1>2, <1>3, <1>4, <1>5, <1>6, <1>7 DEF LzpNext

(* Neither call of the LZP stage leaves its buffers, and no table entry is *)
(* ahead of the byte being written, for any input and code: by Stages.     *)
THEOREM LzpStaysInRange == LzpSpec => []PositionsInRange
  <1>1. LzpInit => Stages
    BY InitStages
  <1>2. Stages /\ [LzpNext]_lzpVars => Stages'
    BY StagesStep
  <1>3. Stages => PositionsInRange
    <2> SUFFICES ASSUME Stages PROVE PositionsInRange
      OBVIOUS
    <2>1. /\ src \in Seq(Byte) /\ dst \in Seq(Byte)
          /\ at \in 0..Len(src) /\ heur \in 0..Len(src)
          /\ lut \in [0..DictSize - 1 -> Nat]
          /\ Len(dst) <= MaxOf(outEnd, Len(src))
      BY LzpConstants DEF Stages, LzpTypes
    <2>2. Len(src) \in Nat /\ Len(dst) \in Nat /\ at \in Nat
      BY LzpLengths DEF Stages
    <2>3. stage = "compress" => Len(dst) <= Len(src) /\ \A h \in 0..DictSize - 1 : lut[h] \in 0..at
      <3> SUFFICES ASSUME stage = "compress"
                   PROVE  Len(dst) <= Len(src) /\ \A h \in 0..DictSize - 1 : lut[h] \in 0..at
        OBVIOUS
      <3>1. Len(dst) <= Len(src) /\ \A h \in 0..DictSize - 1 : lut[h] < at
        BY DEF Stages, Compressing
      <3> QED  BY <2>1, <2>2, <3>1
    <2>4. stage = "decompress" =>
            Len(dst) <= outEnd /\ \A h \in 0..DictSize - 1 : lut[h] \in 0..Len(dst)
      <3> SUFFICES ASSUME stage = "decompress"
                   PROVE  Len(dst) <= outEnd /\ \A h \in 0..DictSize - 1 : lut[h] \in 0..Len(dst)
        OBVIOUS
      <3>1. Len(dst) <= outEnd /\ \A h \in 0..DictSize - 1 : lut[h] <= Len(dst)
        BY DEF Stages, Decompressing
      <3> QED  BY <2>1, <2>2, <3>1
    <2> QED  BY <2>1, <2>3, <2>4 DEF PositionsInRange
  <1> QED  BY <1>1, <1>2, <1>3, PTL DEF LzpSpec

-----------------------------------------------------------------------------
(* Where code w and the first d bytes of s can be cut in items that stand for *)
(* each other, and the table with which both sides come to each cut.       *)
Tables           == [0..DictSize - 1 -> Nat]
Known(s, b, tab) == tab[Entry(s, b)]
After(s, b, tab) == [tab EXCEPT ![Entry(s, b)] = b]

PlainHere(w, s, pts, a, b, tab) ==
  /\ a + 1 <= Len(w)
  /\ w[a + 1] = s[b + 1]
  /\ ~(s[b + 1] = MatchByte /\ Known(s, b, tab) > 0)
  /\ <<a + 1, b + 1, After(s, b, tab)>> \in pts

EscapedHere(w, s, pts, a, b, tab) ==
  /\ a + 2 <= Len(w)
  /\ w[a + 1] = MatchByte /\ w[a + 2] = Escape
  /\ s[b + 1] = MatchByte /\ Known(s, b, tab) > 0
  /\ <<a + 2, b + 1, After(s, b, tab)>> \in pts

Span(full, rest) == MinMatch + (Long * full + rest)

MatchHere(w, s, pts, a, b, tab) ==
  /\ Known(s, b, tab) > 0
  /\ \E full \in Nat, rest \in 0..Long - 1 :
       /\ a + 2 + full <= Len(w)
       /\ w[a + 1] = MatchByte
       /\ \A k \in 1..full : w[a + 1 + k] = Long
       /\ w[a + 2 + full] = rest
       /\ \A j \in 1..Span(full, rest) : s[b + j] = s[Known(s, b, tab) + j]
       /\ <<a + 2 + full, b + Span(full, rest), After(s, b, tab)>> \in pts

ItemHere(w, s, pts, a, b, tab) ==
  \/ PlainHere(w, s, pts, a, b, tab)
  \/ EscapedHere(w, s, pts, a, b, tab)
  \/ MatchHere(w, s, pts, a, b, tab)

WithinPoint(w, d, a, b, tab) ==
  /\ Word <= a /\ a <= Len(w) /\ Word <= b /\ b <= d
  /\ \A h \in 0..DictSize - 1 : tab[h] < b

Points(w, s, d, top, pts) ==
  /\ <<Word, Word, Clear>> \in pts
  /\ <<Len(w), d, top>> \in pts
  /\ \A a, b \in Nat, tab \in Tables : <<a, b, tab>> \in pts =>
       /\ WithinPoint(w, d, a, b, tab)
       /\ (a = Len(w) /\ b = d /\ tab = top) \/ ItemHere(w, s, pts, a, b, tab)

(* What has been compressed stands for the input so far, unless Compress is *)
(* about to give up.                                                       *)
Covering ==
  stage = "compress" =>
    /\ outEnd = 0 /\ Len(text) <= Int32Max
    /\ \A j \in 1..Word : dst[j] = text[j]
    /\ Len(dst) >= outEOB \/ \E pts : Points(dst, src, at, lut, pts)

(* Decompress goes from cut to cut.                                        *)
OnTheWay ==
  stage = "decompress" /\ ~alien =>
    /\ Len(src) < Len(text) - Slack /\ Len(text) <= Int32Max
    /\ outEnd \in {Len(text), Len(text) + 1}
    /\ Len(dst) <= Len(text) /\ \A j \in 1..Len(dst) : dst[j] = text[j]
    /\ \E top, pts : Points(src, text, Len(text), top, pts) /\ <<at, Len(dst), lut>> \in pts

Arrived ==
  /\ stage = "tooSmall" /\ ~alien => outEnd = 0
  /\ stage = "returned" /\ ~alien /\ outEnd > 0 => dst = text /\ answer = Len(text)

Undoing == Covering /\ OnTheWay /\ Arrived

LEMMA PointsStay ==
  ASSUME NEW w, NEW v, NEW s, NEW pts, NEW more, pts \subseteq more,
         Len(w) \in Nat, Len(v) \in Nat, Len(w) <= Len(v), \A j \in 1..Len(w) : v[j] = w[j],
         NEW a \in Nat, NEW b \in Nat, NEW tab, ItemHere(w, s, pts, a, b, tab)
  PROVE  ItemHere(v, s, more, a, b, tab)
  <1>1. CASE PlainHere(w, s, pts, a, b, tab)
    <2>1. a + 1 \in 1..Len(w) /\ a + 1 <= Len(v)
      BY <1>1 DEF PlainHere
    <2>2. v[a + 1] = w[a + 1]
      BY <2>1
    <2>3. PlainHere(v, s, more, a, b, tab)
      BY <1>1, <2>1, <2>2 DEF PlainHere
    <2> QED  BY <2>3 DEF ItemHere
  <1>2. CASE EscapedHere(w, s, pts, a, b, tab)
    <2>1. a + 1 \in 1..Len(w) /\ a + 2 \in 1..Len(w) /\ a + 2 <= Len(v)
      BY <1>2 DEF EscapedHere
    <2>2. v[a + 1] = w[a + 1] /\ v[a + 2] = w[a + 2]
      BY <2>1
    <2>3. EscapedHere(v, s, more, a, b, tab)
      BY <1>2, <2>1, <2>2 DEF EscapedHere
    <2> QED  BY <2>3 DEF ItemHere
  <1>3. CASE MatchHere(w, s, pts, a, b, tab)
    <2>1. PICK full \in Nat, rest \in 0..Long - 1 :
       /\ a + 2 + full <= Len(w)
       /\ w[a + 1] = MatchByte
       /\ \A k \in 1..full : w[a + 1 + k] = Long
       /\ w[a + 2 + full] = rest
       /\ \A j \in 1..Span(full, rest) : s[b + j] = s[Known(s, b, tab) + j]
       /\ <<a + 2 + full, b + Span(full, rest), After(s, b, tab)>> \in pts
      BY <1>3 DEF MatchHere
    <2>2. /\ a + 1 \in 1..Len(w) /\ a + 2 + full \in 1..Len(w) /\ a + 2 + full <= Len(v)
          /\ \A k \in 1..full : a + 1 + k \in 1..Len(w)
      BY <2>1
    <2>3. /\ v[a + 1] = MatchByte
          /\ \A k \in 1..full : v[a + 1 + k] = Long
          /\ v[a + 2 + full] = rest
      BY <2>1, <2>2
    <2>4. <<a + 2 + full, b + Span(full, rest), After(s, b, tab)>> \in more
      BY <2>1
    <2>5. MatchHere(v, s, more, a, b, tab)
      BY <1>3, <2>1, <2>2, <2>3, <2>4 DEF MatchHere
    <2> QED  BY <2>5 DEF ItemHere
  <1> QED  BY <1>1, <1>2, <1>3 DEF ItemHere

(* One item more.                                                          *)
LEMMA PointsGrow ==
  ASSUME NEW w, NEW v, NEW s, NEW d \in Nat, NEW e \in Nat, NEW top, NEW new, NEW pts,
         Word \in Nat, Len(w) \in Nat, Len(v) \in Nat, Len(w) <= Len(v), d <= e,
         \A j \in 1..Len(w) : v[j] = w[j],
         Word <= Len(w), Word <= d,
         \A h \in 0..DictSize - 1 : new[h] < e,
         Points(w, s, d, top, pts),
         ItemHere(v, s, pts \cup {<<Len(v), e, new>>}, Len(w), d, top)
  PROVE  Points(v, s, e, new, pts \cup {<<Len(v), e, new>>})
  <1> DEFINE more == pts \cup {<<Len(v), e, new>>}
  <1>1. <<Word, Word, Clear>> \in more /\ <<Len(v), e, new>> \in more /\ pts \subseteq more
    BY DEF Points
  <1>2. ASSUME NEW a \in Nat, NEW b \in Nat, NEW tab \in Tables, <<a, b, tab>> \in more
        PROVE  /\ WithinPoint(v, e, a, b, tab)
               /\ (a = Len(v) /\ b = e /\ tab = new) \/ ItemHere(v, s, more, a, b, tab)
    <2>1. CASE a = Len(v) /\ b = e /\ tab = new
      <3>1. WithinPoint(v, e, a, b, tab)
        BY <2>1 DEF WithinPoint
      <3> QED  BY <2>1, <3>1
    <2>2. CASE ~(a = Len(v) /\ b = e /\ tab = new)
      <3>1. <<a, b, tab>> \in pts
        BY <1>2, <2>2
      <3>2. /\ WithinPoint(w, d, a, b, tab)
            /\ (a = Len(w) /\ b = d /\ tab = top) \/ ItemHere(w, s, pts, a, b, tab)
        BY <3>1 DEF Points
      <3>3. WithinPoint(v, e, a, b, tab)
        BY <3>2 DEF WithinPoint
      <3> HIDE DEF more
      <3>4. CASE a = Len(w) /\ b = d /\ tab = top
        BY <3>3, <3>4 DEF more
      <3>5. CASE ItemHere(w, s, pts, a, b, tab)
        <4>1. ItemHere(v, s, more, a, b, tab)
          BY <1>1, <3>5, PointsStay
        <4> QED  BY <3>3, <4>1
      <3> QED  BY <3>2, <3>4, <3>5
    <2> QED  BY <2>1, <2>2
  <1> HIDE DEF more
  <1>3. Points(v, s, e, new, more)
    BY <1>1, <1>2 DEF Points
  <1> QED  BY <1>3 DEF more

LEMMA FirstPoint ==
  ASSUME NEW s
  PROVE  \A w : Len(w) = Word => Points(w, s, Word, Clear, {<<Word, Word, Clear>>})
  <1> TAKE w
  <1> HAVE Len(w) = Word
  <1>1. Word \in Nat /\ Word >= 1 /\ \A h \in 0..DictSize - 1 : Clear[h] = 0
    BY LzpConstants DEF Clear
  <1> DEFINE pts == {<<Word, Word, Clear>>}
  <1>2. ASSUME NEW a \in Nat, NEW b \in Nat, NEW tab \in Tables, <<a, b, tab>> \in pts
        PROVE  WithinPoint(w, Word, a, b, tab) /\ a = Len(w) /\ b = Word /\ tab = Clear
    <2>1. a = Word /\ b = Word /\ tab = Clear
      BY <1>2
    <2> QED  BY <1>1, <2>1 DEF WithinPoint
  <1>3. <<Word, Word, Clear>> \in pts /\ <<Len(w), Word, Clear>> \in pts
    OBVIOUS
  <1> HIDE DEF pts
  <1>4. Points(w, s, Word, Clear, pts)
    BY <1>2, <1>3 DEF Points
  <1> QED  BY <1>4 DEF pts

LEMMA InitUndoing == ASSUME LzpInit PROVE Undoing
  <1>1. CASE /\ src \in Inputs /\ text = src /\ alien = FALSE /\ outEnd = 0
             /\ stage = "tooSmall" \/ (stage = "compress" /\ Start(src))
    <2>1. Len(text) <= Int32Max
      BY <1>1, LzpInputs
    <2>2. ASSUME stage = "compress" PROVE \E pts : Points(dst, src, at, lut, pts)
      <3>1. Start(src) /\ Stages
        BY <1>1, <2>2, InitStages
      <3>2. at = Word /\ lut = Clear /\ dst = SubSeq(src, 1, Word)
        BY <3>1 DEF Start
      <3>3. src \in Seq(Byte) /\ Word <= at /\ at <= Len(src)
        <4>1. src \in Seq(Byte) /\ at \in 0..Len(src) /\ Len(src) \in Nat /\ Word <= at
          BY <2>2, <3>1, LzpLengths DEF Stages, LzpTypes, Compressing
        <4> QED  BY <4>1
      <3>4. Len(dst) = Word
        BY <3>2, <3>3, FirstContext
      <3> QED  BY <3>2, <3>4, FirstPoint
    <2>3. ASSUME stage = "compress" PROVE \A j \in 1..Word : dst[j] = text[j]
      <3>1. Start(src) /\ Stages
        BY <1>1, <2>3, InitStages
      <3>2. dst = SubSeq(src, 1, Word) /\ at = Word
        BY <3>1 DEF Start
      <3>3. src \in Seq(Byte) /\ Word <= Len(src)
        <4>1. src \in Seq(Byte) /\ at \in 0..Len(src) /\ Len(src) \in Nat
          BY <3>1, LzpLengths DEF Stages, LzpTypes
        <4> QED  BY <3>2, <4>1
      <3>4. \A j \in 1..Word : dst[j] = src[j]
        BY <3>2, <3>3, FirstContext
      <3> QED  BY <1>1, <3>4
    <2> QED  BY <1>1, <2>1, <2>2, <2>3 DEF Undoing, Covering, OnTheWay, Arrived
  <1>2. CASE alien = TRUE /\ stage \in {"tooSmall", "decompress"}
    BY <1>2 DEF Undoing, Covering, OnTheWay, Arrived
  <1> QED  BY <1>1, <1>2 DEF LzpInit

LEMMA CoveringStep ==
  ASSUME Stages, stage = "compress",
         NEW pts, Points(dst, src, at, lut, pts),
         dst' \in Seq(Byte), Len(dst') >= Len(dst), \A j \in 1..Len(dst) : dst'[j] = dst[j],
         at' \in Nat, at' > at, src' = src, lut' = After(src, at, lut),
         ItemHere(dst', src, pts \cup {<<Len(dst'), at', lut'>>}, Len(dst), at, lut)
  PROVE  \E more : Points(dst', src', at', lut', more)
  <1>1. /\ Len(dst) \in Nat /\ at \in Nat /\ Word \in Nat /\ Word <= Len(dst) /\ Word <= at
        /\ src \in Seq(Byte) /\ at <= Len(src)
        /\ lut \in [0..DictSize - 1 -> Nat] /\ \A h \in 0..DictSize - 1 : lut[h] < at
    <2>1. Len(dst) \in Nat /\ at \in Nat /\ Len(src) \in Nat
      BY LzpLengths DEF Stages
    <2> QED  BY <2>1, LzpConstants, SMTT(40) DEF Stages, LzpTypes, Compressing
  <1>2. Len(dst') \in Nat
    BY LenProperties
  <1>3. Entry(src, at) \in 0..DictSize - 1
    BY <1>1, EntryIs
  <1>4. \A h \in 0..DictSize - 1 : lut'[h] < at'
    <2>1. ASSUME NEW h \in 0..DictSize - 1 PROVE lut'[h] < at'
      <3>1. lut'[h] = at \/ lut'[h] = lut[h]
        BY <1>1, <1>3 DEF After
      <3>2. lut[h] \in Nat /\ lut[h] < at
        BY <1>1
      <3> QED  BY <1>1, <3>1, <3>2, SMTT(40)
    <2> QED  BY <2>1
  <1> DEFINE more == pts \cup {<<Len(dst'), at', lut'>>}
  <1>5. Points(dst', src, at', lut', more)
    <2> DEFINE v == dst'
               e == at'
               new == lut'
    <2>1. /\ Len(v) \in Nat /\ Len(dst) <= Len(v) /\ e \in Nat /\ at <= e
          /\ \A j \in 1..Len(dst) : v[j] = dst[j]
          /\ \A h \in 0..DictSize - 1 : new[h] < e
          /\ ItemHere(v, src, pts \cup {<<Len(v), e, new>>}, Len(dst), at, lut)
      BY <1>1, <1>2, <1>4
    <2> HIDE DEF v, e, new
    <2>2. Points(v, src, e, new, pts \cup {<<Len(v), e, new>>})
      BY <1>1, <2>1, PointsGrow
    <2> QED  BY <2>2 DEF v, e, new
  <1> QED  BY <1>5

LEMMA CompressNextUndoing ==
  ASSUME Stages, Undoing, CompressNext PROVE Undoing'
  <1>1. /\ stage = "compress" /\ stage' = "compress" /\ at < Len(src) /\ Len(dst) < outEOB
        /\ UNCHANGED <<src, text, alien, outEnd, answer>>
        /\ lut' = [lut EXCEPT ![Entry(src, at)] = at]
        /\ Literal(Here) \/ Replaces(Here)
    BY CompressNextIs
  <1>2. lut' = After(src, at, lut) /\ Here = Known(src, at, lut)
    BY <1>1 DEF After, Here, Known
  <1>3. outEOB' = outEOB /\ outEOB \in Int
    BY <1>1, LzpLengths DEF Stages, outEOB
  <1>4. /\ dst \in Seq(Byte) /\ Len(dst) \in Nat /\ at \in Nat /\ Len(src) \in Nat
        /\ MatchByte \in Byte /\ Escape \in Byte /\ MinMatch \in Nat /\ MinMatch >= 1
    <2>1. Len(dst) \in Nat /\ at \in Nat /\ Len(src) \in Nat
      BY LzpLengths DEF Stages
    <2>2. MatchByte \in Byte /\ Escape \in Byte /\ MinMatch \in Nat /\ MinMatch >= 1
      BY LzpConstants
    <2> QED  BY <2>1, <2>2 DEF Stages, LzpTypes
  <1>5. PICK pts : Points(dst, src, at, lut, pts)
    <2>1. ~(Len(dst) >= outEOB)
      BY <1>1, <1>3, <1>4
    <2> QED  BY <1>1, <2>1 DEF Undoing, Covering
  <1> DEFINE more == pts \cup {<<Len(dst'), at', lut'>>}
  <1>6. \/ Len(dst') >= outEOB
        \/ \E q : Points(dst', src', at', lut', q)
    <2>1. CASE Literal(Here)
      <3>1. /\ at' = at + 1 /\ src[at + 1] \in Byte
            /\ \/ /\ ~(src[at + 1] = MatchByte /\ Here > 0)
                  /\ dst' = dst \o <<src[at + 1]>>
               \/ /\ src[at + 1] = MatchByte /\ Here > 0
                  /\ dst' = (dst \o <<MatchByte>>) \o <<Escape>>
        BY <1>1, <2>1, LiteralIs
      <3>2. CASE ~(src[at + 1] = MatchByte /\ Here > 0) /\ dst' = dst \o <<src[at + 1]>>
        <4>1. /\ dst' \in Seq(Byte) /\ Len(dst') = Len(dst) + 1
              /\ \A j \in 1..Len(dst) : dst'[j] = dst[j]
              /\ dst'[Len(dst) + 1] = src[at + 1]
          BY <1>4, <3>1, <3>2, OneMore
        <4>2. PlainHere(dst', src, more, Len(dst), at, lut)
          BY <1>2, <1>4, <3>1, <3>2, <4>1 DEF PlainHere
        <4>3. ItemHere(dst', src, more, Len(dst), at, lut)
          BY <4>2 DEF ItemHere
        <4>4. Len(dst') >= Len(dst) /\ at' \in Nat /\ at' > at /\ src' = src
          BY <1>1, <1>4, <3>1, <4>1
        <4> QED  BY <1>1, <1>2, <1>5, <4>1, <4>3, <4>4, CoveringStep
      <3>3. CASE src[at + 1] = MatchByte /\ Here > 0 /\ dst' = (dst \o <<MatchByte>>) \o <<Escape>>
        <4> DEFINE w == dst \o <<MatchByte>>
        <4>1. /\ w \in Seq(Byte) /\ Len(w) = Len(dst) + 1
              /\ \A j \in 1..Len(dst) : w[j] = dst[j]
              /\ w[Len(dst) + 1] = MatchByte
          BY <1>4, OneMore
        <4> HIDE DEF w
        <4>2. dst' = w \o <<Escape>>
          BY <3>3 DEF w
        <4>3. /\ dst' \in Seq(Byte) /\ Len(dst') = Len(w) + 1
              /\ \A j \in 1..Len(w) : dst'[j] = w[j]
              /\ dst'[Len(w) + 1] = Escape
          BY <1>4, <4>1, <4>2, OneMore
        <4>4. /\ Len(dst') = Len(dst) + 2
              /\ \A j \in 1..Len(dst) : dst'[j] = dst[j]
              /\ dst'[Len(dst) + 1] = MatchByte
              /\ dst'[Len(dst) + 2] = Escape
          <5>1. Len(w) + 1 = Len(dst) + 2 /\ Len(dst) + 1 \in 1..Len(w)
                /\ \A j \in 1..Len(dst) : j \in 1..Len(w)
            BY <1>4, <4>1
          <5> QED  BY <4>1, <4>3, <5>1
        <4>5. EscapedHere(dst', src, more, Len(dst), at, lut)
          BY <1>2, <1>4, <3>1, <3>3, <4>4 DEF EscapedHere
        <4>6. ItemHere(dst', src, more, Len(dst), at, lut)
          BY <4>5 DEF ItemHere
        <4>7. Len(dst') >= Len(dst) /\ at' \in Nat /\ at' > at /\ src' = src
          BY <1>1, <1>4, <3>1, <4>4
        <4> QED  BY <1>1, <1>2, <1>5, <4>3, <4>4, <4>6, <4>7, CoveringStep
      <3> QED  BY <3>1, <3>2, <3>3
    <2>2. CASE Replaces(Here)
      <3>1. PICK n \in Nat :
              /\ dst' = (dst \o <<MatchByte>>) \o LengthBytes(n)
              /\ at' = at + (MinMatch + n) /\ at + (MinMatch + n) <= Len(src)
              /\ \A j \in 1..MinMatch + n : src[at + j] = src[Here + j]
        BY <2>2 DEF Replaces
      <3> DEFINE lb == LengthBytes(n)
      <3>2. /\ dst' \in Seq(Byte)
            /\ Len(lb) \in Nat \ {0}
            /\ Len(dst') = Len(dst) + 1 + Len(lb)
            /\ \A j \in 1..Len(dst) : dst'[j] = dst[j]
            /\ dst'[Len(dst) + 1] = MatchByte
            /\ \A k \in 1..Len(lb) : dst'[Len(dst) + 1 + k] = lb[k]
            /\ Len(dst') >= outEOB \/ InFull(n, lb)
        BY <1>1, <3>1, ReplacedIs
      <3> HIDE DEF lb
      <3>3. CASE InFull(n, lb)
        <4>1. PICK full \in Nat, rest \in 0..Long - 1 :
                /\ n = Long * full + rest
                /\ Len(lb) = full + 1
                /\ \A k \in 1..full : lb[k] = Long
                /\ lb[full + 1] = rest
          BY <3>3 DEF InFull
        <4>2. /\ Len(dst') = Len(dst) + 2 + full
              /\ \A k \in 1..full : dst'[Len(dst) + 1 + k] = Long
              /\ dst'[Len(dst) + 2 + full] = rest
          <5>1. /\ \A k \in 1..full : k \in 1..Len(lb)
                /\ full + 1 \in 1..Len(lb) /\ Len(dst) + 1 + (full + 1) = Len(dst) + 2 + full
            BY <1>4, <4>1
          <5> QED  BY <1>4, <3>2, <4>1, <5>1
        <4>3. Span(full, rest) = MinMatch + n
          BY <4>1 DEF Span
        <4>4. MatchHere(dst', src, more, Len(dst), at, lut)
          <5>1. <<Len(dst) + 2 + full, at + Span(full, rest), After(src, at, lut)>> \in more
            BY <1>2, <3>1, <4>2, <4>3
          <5>2. Known(src, at, lut) > 0
            BY <1>2, <2>2 DEF Replaces
          <5>3. \A j \in 1..Span(full, rest) : src[at + j] = src[Known(src, at, lut) + j]
            BY <1>2, <3>1, <4>3
          <5>4. Len(dst) + 2 + full <= Len(dst')
            BY <1>4, <4>2
          <5> HIDE DEF more
          <5> QED  BY <3>2, <4>2, <5>1, <5>2, <5>3, <5>4 DEF MatchHere
        <4>5. ItemHere(dst', src, more, Len(dst), at, lut)
          BY <4>4 DEF ItemHere
        <4>6. Len(dst') >= Len(dst) /\ at' \in Nat /\ at' > at /\ src' = src
          BY <1>1, <1>4, <3>1, <4>2
        <4> QED  BY <1>1, <1>2, <1>5, <3>2, <4>5, <4>6, CoveringStep
      <3> QED  BY <3>2, <3>3
    <2> QED  BY <1>1, <2>1, <2>2
  <1>7. \A j \in 1..Word : dst'[j] = text[j]
    <2>1. \A j \in 1..Len(dst) : dst'[j] = dst[j]
      <3>1. CASE Literal(Here)
        <4>1. \/ dst' = dst \o <<src[at + 1]>>
              \/ dst' = (dst \o <<MatchByte>>) \o <<Escape>>
          BY <1>1, <3>1, LiteralIs
        <4>2. src[at + 1] \in Byte
          BY <1>1, <3>1, LiteralIs
        <4>3. CASE dst' = dst \o <<src[at + 1]>>
          BY <1>4, <4>2, <4>3, OneMore
        <4>4. CASE dst' = (dst \o <<MatchByte>>) \o <<Escape>>
          <5> DEFINE w == dst \o <<MatchByte>>
          <5>1. w \in Seq(Byte) /\ Len(w) = Len(dst) + 1 /\ \A j \in 1..Len(dst) : w[j] = dst[j]
            BY <1>4, OneMore
          <5> HIDE DEF w
          <5>2. \A j \in 1..Len(w) : (w \o <<Escape>>)[j] = w[j]
            BY <1>4, <5>1, OneMore
          <5>3. \A j \in 1..Len(dst) : j \in 1..Len(w)
            BY <1>4, <5>1
          <5>4. dst' = w \o <<Escape>>
            BY <4>4 DEF w
          <5> QED  BY <5>1, <5>2, <5>3, <5>4
        <4> QED  BY <4>1, <4>3, <4>4
      <3>2. CASE Replaces(Here)
        <4>1. PICK n \in Nat : dst' = (dst \o <<MatchByte>>) \o LengthBytes(n)
          BY <3>2 DEF Replaces
        <4> QED  BY <1>1, <4>1, ReplacedIs
      <3> QED  BY <1>1, <3>1, <3>2
    <2>2. Word \in Nat /\ Word <= Len(dst) /\ \A j \in 1..Word : dst[j] = text[j]
      BY <1>1, LzpConstants DEF Stages, Compressing, Undoing, Covering
    <2>3. \A j \in 1..Word : j \in 1..Len(dst)
      BY <1>4, <2>2
    <2> QED  BY <2>1, <2>2, <2>3
  <1>8. Covering'
    BY <1>1, <1>3, <1>6, <1>7 DEF Undoing, Covering
  <1> QED  BY <1>1, <1>8 DEF Undoing, OnTheWay, Arrived

LEMMA CompressReturnsUndoing ==
  ASSUME Stages, Undoing, CompressReturns PROVE Undoing'
  <1>1. /\ stage = "compress" /\ UNCHANGED <<text, alien>>
        /\ at >= Len(src) \/ Len(dst) >= outEOB
        /\ src = text /\ at \in 0..Len(src) /\ Len(src) \in Nat /\ Len(dst) \in Nat
        /\ outEOB = Len(src) - Slack /\ outEnd = 0 /\ Len(text) <= Int32Max
        /\ src \in Seq(Byte) /\ dst \in Seq(Byte) /\ Word <= Len(dst) /\ Slack \in Nat
        /\ Word \in Nat /\ Word >= 1 /\ Word <= at
    <2>1. stage = "compress" /\ UNCHANGED <<text, alien>> /\ (at >= Len(src) \/ Len(dst) >= outEOB)
      BY DEF CompressReturns
    <2>2. Len(src) \in Nat /\ Len(dst) \in Nat /\ outEOB = Len(src) - Slack
      BY LzpLengths DEF Stages
    <2>3. Slack \in Nat /\ Word \in Nat /\ Word >= 1
      BY LzpConstants
    <2> QED  BY <2>1, <2>2, <2>3 DEF Stages, LzpTypes, Compressing, Undoing, Covering
  <1>2. CASE Len(dst) >= outEOB
    <2>1. stage' = "returned" /\ outEnd' = 0
      BY <1>1, <1>2 DEF CompressReturns, Return
    <2> QED  BY <2>1 DEF Undoing, Covering, OnTheWay, Arrived
  <1>3. CASE ~(Len(dst) >= outEOB)
    <2>1. /\ src' = dst /\ outEnd' \in {Len(text), Len(text) + 1}
          /\ at' = Word /\ dst' = SubSeq(dst, 1, Word) /\ lut' = Clear
          /\ stage' = "decompress"
      BY <1>3 DEF CompressReturns
    <2>2. PICK pts : Points(dst, src, at, lut, pts)
      BY <1>1, <1>3 DEF Undoing, Covering
    <2>3. at = Len(text) /\ src = text
      BY <1>1, <1>3
    <2>4. /\ Len(dst') = Word
          /\ \A j \in 1..Word : dst'[j] = dst[j]
      BY <1>1, <2>1, FirstContext
    <2>5. <<at', Len(dst'), lut'>> \in pts
      BY <2>1, <2>2, <2>4 DEF Points
    <2>6. \A j \in 1..Len(dst') : dst'[j] = text[j]
      <3>1. \A j \in 1..Word : dst[j] = text[j]
        BY <1>1 DEF Undoing, Covering
      <3> QED  BY <2>4, <3>1
    <2>7. OnTheWay'
      BY <1>1, <1>3, <2>1, <2>2, <2>3, <2>4, <2>5, <2>6 DEF OnTheWay
    <2> QED  BY <2>1, <2>7 DEF Undoing, Covering, Arrived
  <1> QED  BY <1>2, <1>3

(* Where Decompress stands: at the end, or before an item, which it sees with *)
(* the table Compress had there.                                           *)
LEMMA Standing ==
  ASSUME Stages, OnTheWay, stage = "decompress", ~alien,
         NEW top, NEW pts, Points(src, text, Len(text), top, pts), <<at, Len(dst), lut>> \in pts
  PROVE  /\ Val = Known(text, Len(dst), lut) /\ Val < Len(dst)
         /\ Lookup => lut' = After(text, Len(dst), lut)
         /\ After(text, Len(dst), lut) \in Tables
         /\ \/ at = Len(src) /\ Len(dst) = Len(text)
            \/ at < Len(src) /\ ItemHere(src, text, pts, at, Len(dst), lut)
  <1>1. /\ src \in Seq(Byte) /\ dst \in Seq(Byte) /\ text \in Seq(Byte)
        /\ Len(src) \in Nat /\ Len(dst) \in Nat /\ at \in Nat /\ at <= Len(src)
        /\ lut \in Tables /\ Word <= Len(dst)
        /\ Entry(dst, Len(dst)) \in 0..DictSize - 1
        /\ Val = lut[Entry(dst, Len(dst))]
    BY DecompressingIs DEF Tables, Stages, LzpTypes
  <1>2. Len(dst) <= Len(text) /\ \A j \in 1..Len(dst) : dst[j] = text[j]
    BY DEF OnTheWay
  <1>3. Entry(dst, Len(dst)) = Entry(text, Len(dst))
    <2> DEFINE b == Len(dst)
    <2>1. b \in Nat /\ b >= Word /\ b <= Len(dst) /\ b <= Len(text) /\ \A j \in 1..b : dst[j] = text[j]
      BY <1>1, <1>2, LzpConstants
    <2> HIDE DEF b
    <2>2. Entry(dst, b) = Entry(text, b)
      BY <1>1, <2>1, SameEntry
    <2> QED  BY <2>2 DEF b
  <1>4. WithinPoint(src, Len(text), at, Len(dst), lut)
    BY <1>1 DEF Points
  <1>5. Val = Known(text, Len(dst), lut) /\ Val < Len(dst)
    BY <1>1, <1>3, <1>4 DEF Known, WithinPoint
  <1>6. Lookup => lut' = After(text, Len(dst), lut)
    BY <1>3 DEF Lookup, After
  <1>7. After(text, Len(dst), lut) \in Tables
    BY <1>1, <1>3 DEF After, Tables
  <1>8. (at = Len(src) /\ Len(dst) = Len(text)) \/ ItemHere(src, text, pts, at, Len(dst), lut)
    BY <1>1 DEF Points
  <1>9. ItemHere(src, text, pts, at, Len(dst), lut) => at < Len(src)
    <2>1. PlainHere(src, text, pts, at, Len(dst), lut) => at < Len(src)
      BY <1>1 DEF PlainHere
    <2>2. EscapedHere(src, text, pts, at, Len(dst), lut) => at < Len(src)
      BY <1>1 DEF EscapedHere
    <2>3. MatchHere(src, text, pts, at, Len(dst), lut) => at < Len(src)
      BY <1>1 DEF MatchHere
    <2> QED  BY <2>1, <2>2, <2>3 DEF ItemHere
  <1> QED  BY <1>5, <1>6, <1>7, <1>8, <1>9

(* To the next cut.                                                        *)
LEMMA OnTheWayStep ==
  ASSUME Stages, OnTheWay, stage = "decompress", ~alien,
         NEW top, NEW pts, Points(src, text, Len(text), top, pts), <<at, Len(dst), lut>> \in pts,
         stage' = "decompress", Lookup,
         NEW e \in Nat, Len(dst') = Len(dst) + e, at' \in Nat,
         <<at', Len(dst'), After(text, Len(dst), lut)>> \in pts,
         \A j \in 1..Len(dst) : dst'[j] = dst[j],
         \A j \in 1..e : dst'[Len(dst) + j] = text[Len(dst) + j]
  PROVE  Undoing'
  <1>1. lut' = After(text, Len(dst), lut) /\ lut' \in Tables
    BY Standing
  <1>2. Len(dst) \in Nat /\ Len(dst') \in Nat
    BY DecompressingIs
  <1>3. Len(dst') <= Len(text)
    BY <1>1, <1>2 DEF Points, WithinPoint
  <1>4. \A j \in 1..Len(dst') : dst'[j] = text[j]
    <2> SUFFICES ASSUME NEW j \in 1..Len(dst') PROVE dst'[j] = text[j]
      OBVIOUS
    <2>1. CASE j <= Len(dst)
      <3>1. j \in 1..Len(dst)
        BY <1>2, <2>1
      <3> QED  BY <3>1 DEF OnTheWay
    <2>2. CASE j > Len(dst)
      <3> DEFINE i == j - Len(dst)
      <3>1. i \in 1..e /\ j = Len(dst) + i
        BY <1>2, <2>2
      <3> HIDE DEF i
      <3> QED  BY <3>1
    <2> QED  BY <1>2, <2>1, <2>2
  <1>5. UNCHANGED <<src, text, alien, outEnd>>
    BY DEF Lookup
  <1>6. OnTheWay'
    BY <1>1, <1>3, <1>4, <1>5 DEF OnTheWay
  <1> QED  BY <1>6 DEF Undoing, Covering, Arrived

LEMMA LiteralUndoing ==
  ASSUME Stages, Undoing, DecompressLiteral, ~alien PROVE Undoing'
  <1>1. /\ stage = "decompress" /\ stage' = "decompress" /\ at < Len(src) /\ Len(dst) < outEnd
        /\ ~AtMatch
        /\ dst' = Append(dst, src[at + 1]) /\ at' = at + 1 /\ Lookup
    BY DEF DecompressLiteral, Running, Go
  <1>2. OnTheWay
    BY DEF Undoing
  <1>3. PICK top, pts : Points(src, text, Len(text), top, pts) /\ <<at, Len(dst), lut>> \in pts
    BY <1>1, <1>2 DEF OnTheWay
  <1>4. /\ src \in Seq(Byte) /\ dst \in Seq(Byte) /\ Len(src) \in Nat /\ Len(dst) \in Nat /\ at \in Nat
    BY <1>1, DecompressingIs
  <1>5. Val = Known(text, Len(dst), lut) /\ ItemHere(src, text, pts, at, Len(dst), lut)
    <2>1. /\ Val = Known(text, Len(dst), lut)
          /\ \/ at = Len(src) /\ Len(dst) = Len(text)
             \/ at < Len(src) /\ ItemHere(src, text, pts, at, Len(dst), lut)
      BY <1>1, <1>2, <1>3, Standing
    <2>2. at # Len(src)
      BY <1>1, <1>4
    <2> QED  BY <2>1, <2>2
  <1>6. PlainHere(src, text, pts, at, Len(dst), lut)
    BY <1>1, <1>5 DEF ItemHere, EscapedHere, MatchHere, AtMatch
  <1>7. src[at + 1] = text[Len(dst) + 1] /\ <<at + 1, Len(dst) + 1, After(text, Len(dst), lut)>> \in pts
    BY <1>6 DEF PlainHere
  <1>8. src[at + 1] \in Byte
    BY <1>1, <1>4, ElementOfSeq
  <1>9. /\ Len(dst') = Len(dst) + 1 /\ \A j \in 1..Len(dst) : dst'[j] = dst[j]
        /\ dst'[Len(dst) + 1] = src[at + 1]
    BY <1>1, <1>4, <1>8, OneMore
  <1>10. /\ 1 \in Nat /\ at' \in Nat
         /\ <<at', Len(dst'), After(text, Len(dst), lut)>> \in pts
         /\ \A j \in 1..1 : dst'[Len(dst) + j] = text[Len(dst) + j]
    BY <1>1, <1>4, <1>7, <1>9
  <1> QED  BY <1>1, <1>2, <1>3, <1>9, <1>10, OnTheWayStep

(* The byte after the match byte of an item tells an escape from a match.  *)
LEMMA SecondByte ==
  ASSUME Len(src) \in Nat, at \in Nat,
         NEW s, NEW pts, NEW b, NEW tab, MatchHere(src, s, pts, at, b, tab)
  PROVE  src[at + 2] # Escape
  <1>1. PICK full \in Nat, rest \in 0..Long - 1 :
          (\A k \in 1..full : src[at + 1 + k] = Long) /\ src[at + 2 + full] = rest
    BY DEF MatchHere
  <1>2. Long \in Nat /\ Escape = Long + 1
    BY LzpConstants
  <1>3. CASE full = 0
    <2>1. at + 2 + full = at + 2
      BY <1>3
    <2> QED  BY <1>1, <1>2, <2>1
  <1>4. CASE full # 0
    <2>1. 1 \in 1..full /\ at + 1 + 1 = at + 2
      BY <1>4
    <2>2. src[at + 1 + 1] = Long
      BY <1>1, <2>1
    <2> QED  BY <1>2, <2>1, <2>2
  <1> QED  BY <1>3, <1>4

LEMMA EscapeUndoing ==
  ASSUME Stages, Undoing, DecompressEscape, ~alien PROVE Undoing'
  <1>1. /\ stage = "decompress" /\ stage' = "decompress" /\ at < Len(src) /\ Len(dst) < outEnd
        /\ src[at + 1] = MatchByte /\ Val > 0 /\ src[at + 2] = Escape
        /\ dst' = Append(dst, MatchByte) /\ at' = at + 2 /\ Lookup
    BY DEF DecompressEscape, Running, Go, AtMatch
  <1>2. OnTheWay
    BY DEF Undoing
  <1>3. PICK top, pts : Points(src, text, Len(text), top, pts) /\ <<at, Len(dst), lut>> \in pts
    BY <1>1, <1>2 DEF OnTheWay
  <1>4. /\ src \in Seq(Byte) /\ dst \in Seq(Byte) /\ Len(src) \in Nat /\ Len(dst) \in Nat /\ at \in Nat
        /\ MatchByte \in Byte
    BY <1>1, DecompressingIs
  <1>5. Val = Known(text, Len(dst), lut) /\ ItemHere(src, text, pts, at, Len(dst), lut)
    <2>1. /\ Val = Known(text, Len(dst), lut)
          /\ \/ at = Len(src) /\ Len(dst) = Len(text)
             \/ at < Len(src) /\ ItemHere(src, text, pts, at, Len(dst), lut)
      BY <1>1, <1>2, <1>3, Standing
    <2>2. at # Len(src)
      BY <1>1, <1>4
    <2> QED  BY <2>1, <2>2
  <1>6. EscapedHere(src, text, pts, at, Len(dst), lut)
    <2>1. ~MatchHere(src, text, pts, at, Len(dst), lut)
      BY <1>1, <1>4, SecondByte
    <2>2. ~PlainHere(src, text, pts, at, Len(dst), lut)
      BY <1>1, <1>5 DEF PlainHere
    <2> QED  BY <1>5, <2>1, <2>2 DEF ItemHere
  <1>7. text[Len(dst) + 1] = MatchByte /\ <<at + 2, Len(dst) + 1, After(text, Len(dst), lut)>> \in pts
    BY <1>6 DEF EscapedHere
  <1>9. /\ Len(dst') = Len(dst) + 1 /\ \A j \in 1..Len(dst) : dst'[j] = dst[j]
        /\ dst'[Len(dst) + 1] = MatchByte
    BY <1>1, <1>4, OneMore
  <1>10. /\ 1 \in Nat /\ at' \in Nat
         /\ <<at', Len(dst'), After(text, Len(dst), lut)>> \in pts
         /\ \A j \in 1..1 : dst'[Len(dst) + j] = text[Len(dst) + j]
    BY <1>1, <1>4, <1>7, <1>9
  <1> QED  BY <1>1, <1>2, <1>3, <1>9, <1>10, OnTheWayStep

-----------------------------------------------------------------------------
(* What repeats what stands a distance before it has that distance as period. *)
Echoes(s, v, o, n) == \A j \in 1..n : s[o + j] = s[v + j]

LEMMA Periodic ==
  ASSUME NEW s, NEW v \in Nat, NEW o \in Nat, v < o, NEW n \in Nat, Echoes(s, v, o, n)
  PROVE  \A k \in 1..n : s[o + k] = s[v + 1 + ((k - 1) % (o - v))]
  <1> DEFINE per  == o - v
             T    == {m \in 0..per + n - 1 : s[v + 1 + m] # s[v + 1 + (m % per)]}
  <1>1. per \in Nat \ {0} /\ o = v + per
    OBVIOUS
  <1> HIDE DEF per
  <1>2. T = {}
    <2> SUFFICES ASSUME T # {} PROVE FALSE
      OBVIOUS
    <2>1. T \in SUBSET Nat
      BY <1>1
    <2>2. PICK m \in T : \A y \in T : m <= y
      <3> HIDE DEF T
      <3> QED  BY <2>1, LeastOf
    <2>3. m \in 0..per + n - 1 /\ m \in Nat /\ s[v + 1 + m] # s[v + 1 + (m % per)]
      BY <1>1, <2>2
    <2>4. m >= per
      <3> SUFFICES ASSUME ~(m >= per) PROVE FALSE
        OBVIOUS
      <3>1. m < per
        BY <1>1, <2>3
      <3>2. m % per = m
        BY <1>1, <2>3, <3>1, Remainders
      <3> QED  BY <2>3, <3>2
    <2>5. m % per = (m - per) % per
      BY <1>1, <2>3, <2>4, Remainders
    <2> DEFINE l == m - per
    <2>6. l \in Nat /\ l + 1 \in 1..n /\ l \in 0..per + n - 1 /\ l < m
          /\ v + 1 + m = o + (l + 1) /\ v + (l + 1) = v + 1 + l
      BY <1>1, <2>3, <2>4
    <2> HIDE DEF l
    <2>7. s[v + 1 + m] = s[v + 1 + l]
      <3>1. s[o + (l + 1)] = s[v + (l + 1)]
        BY <2>6 DEF Echoes
      <3> QED  BY <2>6, <3>1
    <2>8. l \notin T
      BY <2>2, <2>3, <2>6
    <2>9. s[v + 1 + l] = s[v + 1 + (l % per)]
      BY <2>6, <2>8
    <2> QED  BY <2>3, <2>5, <2>7, <2>9 DEF l
  <1>3. ASSUME NEW k \in 1..n PROVE s[o + k] = s[v + 1 + ((k - 1) % per)]
    <2> DEFINE m == per + (k - 1)
    <2>1. m \in 0..per + n - 1 /\ m \in Nat /\ m >= per /\ m - per = k - 1 /\ v + 1 + m = o + k
      BY <1>1
    <2> HIDE DEF m
    <2>2. s[v + 1 + m] = s[v + 1 + (m % per)]
      BY <1>2, <2>1
    <2>3. m % per = (k - 1) % per
      BY <1>1, <2>1, Remainders, ZenonT(60)
    <2> QED  BY <2>1, <2>2, <2>3
  <1> QED  BY <1>3 DEF per

LEMMA InRange32 ==
  ASSUME NEW x \in Nat, x <= Int32Max PROVE Int32(x) = x
  <1>1. x \in 0..Int32Max
    BY LzpConstants
  <1> QED  BY <1>1, Int32Keeps

(* The length Decompress reads is the one that was written.                *)
LEMMA LengthReadIs ==
  ASSUME Len(src) \in Nat, at \in Nat,
         NEW full \in Nat, NEW rest \in 0..Long - 1, at + 2 + full <= Len(src),
         \A k \in 1..full : src[at + 1 + k] = Long, src[at + 2 + full] = rest
  PROVE  /\ at + 1 + full \in LengthEnds
         /\ Min(LengthEnds) = at + 1 + full
  <1> DEFINE p == at + 1 + full
  <1>1. p \in at + 1..Len(src) - 1 /\ p + 1 = at + 2 + full
    OBVIOUS
  <1>2. Long \in Nat /\ rest # Long
    BY LzpConstants
  <1>3. p \in LengthEnds
    BY <1>1, <1>2 DEF LengthEnds
  <1>4. LengthEnds # {}
    BY <1>3
  <1> DEFINE q == Min(LengthEnds)
  <1>5. q \in at + 1..Len(src) - 1 /\ src[q + 1] # Long /\ q <= p
    <2> HIDE DEF p
    <2> QED  BY <1>3, <1>4, EndIs
  <1> HIDE DEF q
  <1>6. q = p
    <2> SUFFICES ASSUME q # p PROVE FALSE
      OBVIOUS
    <2> DEFINE k == q - at
    <2>1. k \in 1..full /\ at + 1 + k = q + 1
      BY <1>1, <1>5
    <2> HIDE DEF k
    <2> QED  BY <1>5, <2>1
  <1> QED  BY <1>3, <1>6 DEF q

LEMMA MatchUndoing ==
  ASSUME Stages, Undoing, DecompressMatch, ~alien PROVE Undoing'
  <1>1. /\ stage = "decompress" /\ stage' = "decompress" /\ at < Len(src) /\ Len(dst) < outEnd
        /\ AtMatch /\ Lookup /\ src[at + 2] # Escape
    BY DecompressMatchIs
  <1>2. OnTheWay
    BY DEF Undoing
  <1>3. PICK top, pts : Points(src, text, Len(text), top, pts) /\ <<at, Len(dst), lut>> \in pts
    BY <1>1, <1>2 DEF OnTheWay
  <1>4. /\ src \in Seq(Byte) /\ dst \in Seq(Byte) /\ Len(src) \in Nat /\ Len(dst) \in Nat /\ at \in Nat
        /\ Val \in Nat /\ outEnd \in Nat
    BY <1>1, DecompressingIs
  <1>5. /\ Val = Known(text, Len(dst), lut) /\ Val < Len(dst)
        /\ After(text, Len(dst), lut) \in Tables
        /\ ItemHere(src, text, pts, at, Len(dst), lut)
    <2>1. /\ Val = Known(text, Len(dst), lut) /\ Val < Len(dst)
          /\ After(text, Len(dst), lut) \in Tables
          /\ \/ at = Len(src) /\ Len(dst) = Len(text)
             \/ at < Len(src) /\ ItemHere(src, text, pts, at, Len(dst), lut)
      BY <1>1, <1>2, <1>3, Standing
    <2>2. at # Len(src)
      BY <1>1, <1>4
    <2> QED  BY <2>1, <2>2
  <1>6. MatchHere(src, text, pts, at, Len(dst), lut)
    <2>1. ~PlainHere(src, text, pts, at, Len(dst), lut)
      BY <1>1, <1>5 DEF PlainHere, AtMatch
    <2>2. ~EscapedHere(src, text, pts, at, Len(dst), lut)
      BY <1>1 DEF EscapedHere
    <2> QED  BY <1>5, <2>1, <2>2 DEF ItemHere
  <1>7. PICK full \in Nat, rest \in 0..Long - 1 :
          /\ at + 2 + full <= Len(src)
          /\ \A k \in 1..full : src[at + 1 + k] = Long
          /\ src[at + 2 + full] = rest
          /\ \A j \in 1..Span(full, rest) : text[Len(dst) + j] = text[Val + j]
          /\ <<at + 2 + full, Len(dst) + Span(full, rest), After(text, Len(dst), lut)>> \in pts
    BY <1>5, <1>6 DEF MatchHere
  <1> DEFINE e == Span(full, rest)
             o == Len(dst)
  <1>8a. PICK p \in at + 1..Len(src) - 1, n \in Nat :
           \E stale :
              /\ p = Min(LengthEnds)
              /\ n = Shortened(Int32(MinMatch + Long * (p - at - 1) + src[p + 1]))
              /\ at' = p + 1
              /\ Val = Len(dst) => stale \in [1..n -> Byte]
              /\ dst' = dst \o Repeated(Val, Len(dst), n, stale)
    BY DecompressMatchIs
  <1>8. PICK stale :
              /\ p = Min(LengthEnds)
              /\ n = Shortened(Int32(MinMatch + Long * (p - at - 1) + src[p + 1]))
              /\ at' = p + 1
              /\ Val = Len(dst) => stale \in [1..n -> Byte]
              /\ dst' = dst \o Repeated(Val, Len(dst), n, stale)
    BY <1>8a
  <1>9. e \in Nat
    <2>1. Long \in Nat /\ MinMatch \in Nat
      BY LzpConstants
    <2>2. Long * full \in Nat
      BY <2>1
    <2> QED  BY <2>1, <2>2 DEF Span
  <1>10. /\ Len(text) \in Nat /\ o + e <= Len(text) /\ Len(text) <= Int32Max /\ Len(text) <= outEnd
         /\ Int32Max \in Nat
    <2>1. Len(text) \in Nat /\ Int32Max \in Nat
      BY LzpConstants, LzpLengths DEF Stages
    <2>2. Len(text) <= Int32Max /\ Len(text) <= outEnd
      BY <1>1, <1>2, <2>1, SMTT(40) DEF OnTheWay
    <2>3. at + 2 + full \in Nat /\ o + e \in Nat
      BY <1>4, <1>9
    <2> HIDE DEF o, e
    <2>4. <<at + 2 + full, o + e, After(text, Len(dst), lut)>> \in pts
      BY <1>7 DEF o, e
    <2>5. WithinPoint(src, Len(text), at + 2 + full, o + e, After(text, Len(dst), lut))
      BY <1>3, <1>5, <2>3, <2>4 DEF Points
    <2> QED  BY <2>1, <2>2, <2>5 DEF WithinPoint
  <1>11. p = at + 1 + full
    BY <1>4, <1>7, <1>8, LengthReadIs
  <1>12. n = e
    <2>1. p - at - 1 = full /\ p + 1 = at + 2 + full
      BY <1>4, <1>11
    <2>2. MinMatch + Long * (p - at - 1) + src[p + 1] = MinMatch + Long * full + rest
      BY <1>7, <2>1
    <2>3. MinMatch + Long * full + rest = e
      <3>1. Long \in Nat /\ MinMatch \in Nat
        BY LzpConstants
      <3>2. Long * full \in Nat
        BY <3>1
      <3> QED  BY <3>1, <3>2 DEF Span
    <2> HIDE DEF e
    <2>4. Int32(e) = e
      BY <1>4, <1>9, <1>10, InRange32
    <2>5. Shortened(e) = e
      BY <1>4, <1>9, <1>10 DEF Shortened, MinOf, MaxOf
    <2> QED  BY <1>8, <2>2, <2>3, <2>4, <2>5
  <1> HIDE DEF e
  <1> DEFINE u == Repeated(Val, o, e, stale)
  <1>13. u \in Seq(Byte) /\ Len(u) = e
    <2>1. Val <= Len(dst) /\ (Val = Len(dst) => stale \in [1..e -> Byte])
      BY <1>4, <1>5
    <2> QED  BY <1>4, <1>9, <2>1, RepeatedIs
  <1>14. \A k \in 1..e : u[k] = text[o + k]
    <2> SUFFICES ASSUME NEW k \in 1..e PROVE u[k] = text[o + k]
      OBVIOUS
    <2> DEFINE d == (k - 1) % (o - Val)
    <2>1. u[k] = dst[Val + 1 + d]
      BY <1>4, <1>5 DEF Repeated
    <2>2. text[o + k] = text[Val + 1 + d]
      <3>1. \A j \in 1..e : text[o + j] = text[Val + j]
        BY <1>7 DEF e
      <3>2. o \in Nat /\ Val \in Nat /\ Val < o
        BY <1>4, <1>5
      <3> DEFINE v == Val
      <3>3. v \in Nat /\ v < o /\ Echoes(text, v, o, e)
        BY <3>1, <3>2 DEF Echoes
      <3> HIDE DEF o, v
      <3>4. \A j \in 1..e : text[o + j] = text[v + 1 + ((j - 1) % (o - v))]
        <4>1. o \in Nat
          BY <3>2
        <4> QED  BY <1>9, <3>3, <4>1, Periodic
      <3>5. text[o + k] = text[v + 1 + ((k - 1) % (o - v))]
        BY <3>4
      <3> QED  BY <3>5 DEF v
    <2>3. d \in 0..o - Val - 1
      <3>1. o - Val \in Nat \ {0} /\ k - 1 \in Nat
        BY <1>4, <1>5, <1>9
      <3> QED  BY <3>1, Remainders
    <2> HIDE DEF d
    <2>4. Val + 1 + d \in 1..Len(dst)
      BY <1>4, <1>5, <2>3, SMTT(40)
    <2> QED  BY <1>2, <1>1, <2>1, <2>2, <2>4 DEF OnTheWay
  <1> HIDE DEF u
  <1>15. dst' = dst \o u
    BY <1>8, <1>12 DEF u
  <1>16. /\ Len(dst') = Len(dst) + e
         /\ \A j \in 1..Len(dst) : dst'[j] = dst[j]
         /\ \A j \in 1..e : dst'[Len(dst) + j] = text[Len(dst) + j]
    <2>1. /\ Len(dst \o u) = Len(dst) + Len(u)
          /\ \A j \in 1..Len(dst) : (dst \o u)[j] = dst[j]
          /\ \A j \in 1..Len(u) : (dst \o u)[Len(dst) + j] = u[j]
      <3>1. dst \in Seq(Byte) /\ u \in Seq(Byte)
        BY <1>4, <1>13
      <3> QED  BY <3>1, Joined
    <2> QED  BY <1>13, <1>14, <1>15, <2>1
  <1>17. at' \in Nat /\ <<at', Len(dst'), After(text, Len(dst), lut)>> \in pts
    <2>1. at' = at + 2 + full
      BY <1>4, <1>8, <1>11
    <2> QED  BY <1>4, <1>7, <1>16, <2>1 DEF e
  <1> QED  BY <1>1, <1>2, <1>3, <1>9, <1>16, <1>17, OnTheWayStep

(* A code made by Compress is not cut off.                                 *)
LEMMA CutUndoing ==
  ASSUME Stages, Undoing, DecompressCut PROVE Undoing'
  <1>1. /\ stage = "decompress" /\ stage' = "returned" /\ at < Len(src)
        /\ AtMatch /\ LengthEnds = {} /\ Lookup
    BY DEF DecompressCut, Running, Return
  <1>2. alien
    <2> SUFFICES ASSUME ~alien PROVE FALSE
      BY DEF Stages, LzpTypes
    <2>1. OnTheWay
      BY DEF Undoing
    <2>2. PICK top, pts : Points(src, text, Len(text), top, pts) /\ <<at, Len(dst), lut>> \in pts
      BY <1>1, <2>1 DEF OnTheWay
    <2>3. Len(src) \in Nat /\ at \in Nat
      BY <1>1, DecompressingIs
    <2>4. Val = Known(text, Len(dst), lut) /\ ItemHere(src, text, pts, at, Len(dst), lut)
      <3>1. /\ Val = Known(text, Len(dst), lut)
            /\ \/ at = Len(src) /\ Len(dst) = Len(text)
               \/ at < Len(src) /\ ItemHere(src, text, pts, at, Len(dst), lut)
        BY <1>1, <2>1, <2>2, Standing
      <3>2. at # Len(src)
        BY <1>1, <2>3
      <3> QED  BY <3>1, <3>2
    <2>5. ~PlainHere(src, text, pts, at, Len(dst), lut)
      BY <1>1, <2>4 DEF PlainHere, AtMatch
    <2>6. ~EscapedHere(src, text, pts, at, Len(dst), lut)
      <3> SUFFICES ASSUME EscapedHere(src, text, pts, at, Len(dst), lut) PROVE FALSE
        OBVIOUS
      <3>1. at + 2 <= Len(src) /\ src[at + 2] = Escape
        BY DEF EscapedHere
      <3>2. Escape # Long
        BY LzpConstants
      <3>3. at + 1 \in at + 1..Len(src) - 1 /\ at + 1 + 1 = at + 2
        BY <2>3, <3>1
      <3>4. at + 1 \in LengthEnds
        BY <3>1, <3>2, <3>3 DEF LengthEnds
      <3> QED  BY <1>1, <3>4
    <2>7. ~MatchHere(src, text, pts, at, Len(dst), lut)
      <3> SUFFICES ASSUME MatchHere(src, text, pts, at, Len(dst), lut) PROVE FALSE
        OBVIOUS
      <3>1. PICK full \in Nat, rest \in 0..Long - 1 :
              /\ at + 2 + full <= Len(src)
              /\ \A k \in 1..full : src[at + 1 + k] = Long
              /\ src[at + 2 + full] = rest
        BY DEF MatchHere
      <3>2. at + 1 + full \in LengthEnds
        BY <2>3, <3>1, LengthReadIs
      <3> QED  BY <1>1, <3>2
    <2> QED  BY <2>4, <2>5, <2>6, <2>7 DEF ItemHere
  <1>3. UNCHANGED alien
    BY <1>1 DEF Lookup
  <1> QED  BY <1>1, <1>2, <1>3 DEF Undoing, Covering, OnTheWay, Arrived

LEMMA ReturnsUndoing ==
  ASSUME Stages, Undoing, DecompressReturns PROVE Undoing'
  <1>1. /\ stage = "decompress" /\ ~Running /\ stage' = "returned" /\ answer' = Len(dst)
        /\ UNCHANGED <<src, text, alien, outEnd, at, dst, lut, heur>>
    BY DEF DecompressReturns, Return
  <1>2. ASSUME ~alien PROVE dst = text
    <2>1. OnTheWay
      BY DEF Undoing
    <2>2. PICK top, pts : Points(src, text, Len(text), top, pts) /\ <<at, Len(dst), lut>> \in pts
      BY <1>1, <1>2, <2>1 DEF OnTheWay
    <2>3. /\ Len(src) \in Nat /\ at \in Nat /\ Len(dst) \in Nat /\ outEnd \in Nat
          /\ dst \in Seq(Byte) /\ text \in Seq(Byte) /\ Len(text) \in Nat
      BY <1>1, DecompressingIs, LzpLengths DEF Stages, LzpTypes
    <2>4. \/ at = Len(src) /\ Len(dst) = Len(text)
          \/ at < Len(src)
      BY <1>1, <1>2, <2>1, <2>2, Standing
    <2>5. /\ Len(dst) <= Len(text) /\ Len(text) <= outEnd
          /\ \A j \in 1..Len(dst) : dst[j] = text[j]
      <3>1. /\ outEnd \in {Len(text), Len(text) + 1} /\ Len(dst) <= Len(text)
            /\ \A j \in 1..Len(dst) : dst[j] = text[j]
        BY <1>1, <1>2, <2>1 DEF OnTheWay
      <3> QED  BY <2>3, <3>1
    <2>6. Len(dst) = Len(text)
      <3>1. ~(at < Len(src)) \/ ~(Len(dst) < outEnd)
        BY <1>1 DEF Running
      <3> QED  BY <2>3, <2>4, <2>5, <3>1
    <2> QED  BY <2>3, <2>5, <2>6, SeqEqual
  <1> QED  BY <1>1, <1>2 DEF Undoing, Covering, OnTheWay, Arrived

(* A code of any other origin promises nothing.                            *)
LEMMA AlienUndoing ==
  ASSUME Stages, alien,
         DecompressLiteral \/ DecompressEscape \/ DecompressMatch
  PROVE  Undoing'
  <1>1. stage = "decompress" /\ stage' = "decompress" /\ Lookup
    BY DEF DecompressLiteral, DecompressEscape, DecompressMatch, Running, Go
  <1>2. alien'
    BY <1>1 DEF Lookup
  <1> QED  BY <1>1, <1>2 DEF Undoing, Covering, OnTheWay, Arrived

LEMMA UndoingStep ==
  ASSUME Stages, Undoing, [LzpNext]_lzpVars PROVE Undoing'
  <1>1. CASE CompressNext
    BY <1>1, CompressNextUndoing
  <1>2. CASE CompressReturns
    BY <1>2, CompressReturnsUndoing
  <1>3. CASE DecompressLiteral
    BY <1>3, LiteralUndoing, AlienUndoing
  <1>4. CASE DecompressEscape
    BY <1>4, EscapeUndoing, AlienUndoing
  <1>5. CASE DecompressMatch
    BY <1>5, MatchUndoing, AlienUndoing
  <1>6. CASE DecompressCut
    BY <1>6, CutUndoing
  <1>7. CASE DecompressReturns
    BY <1>7, ReturnsUndoing
  <1>8. CASE TooSmall
    <2>1. stage = "tooSmall" \/ stage # "tooSmall"
      OBVIOUS
    <2>2. stage = "tooSmall" /\ stage' = "returned" /\ UNCHANGED <<alien, outEnd>>
      BY <1>8 DEF TooSmall, Return
    <2>3. outEnd \in Nat
      BY DEF Stages, LzpTypes
    <2> QED  BY <2>2, <2>3 DEF Undoing, Covering, OnTheWay, Arrived
  <1>9. CASE UNCHANGED lzpVars
    BY <1>9 DEF lzpVars, Undoing, Covering, OnTheWay, Arrived, outEOB
  <1> QED  BY <1>1, <1>2, <1>3, <1>4, <1>5, <1>6, <1>7, <1>8, <1>9 DEF LzpNext

(* What Compress makes is smaller than its input by more than the reserve, *)
(* and Decompress gives that input back: Stages and Undoing are inductive. *)
THEOREM LzpIsUndone == LzpSpec => []LzpRoundTrips
  <1>1. LzpInit => Stages /\ Undoing
    BY InitStages, InitUndoing
  <1>2. (Stages /\ Undoing) /\ [LzpNext]_lzpVars => (Stages /\ Undoing)'
    BY StagesStep, UndoingStep
  <1>3. Stages /\ Undoing => LzpRoundTrips
    BY DEF Undoing, OnTheWay, Arrived, LzpRoundTrips
  <1> QED  BY <1>1, <1>2, <1>3, PTL DEF LzpSpec
=============================================================================
