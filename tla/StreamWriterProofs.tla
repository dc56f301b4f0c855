------------------------- MODULE StreamWriterProofs -------------------------
(***************************************************************************)
(* Proofs about StreamWriter, for every input, block size and compressor:  *)
(* what the underlying writer has received is a prefix of the stream the   *)
(* format prescribes, and all of it once Close has returned nil; the       *)
(* Writer implements the abstract encoder; and what a stopped Writer       *)
(* leaves behind decodes to a beginning of its input.  The same two facts  *)
(* about the format carry the command line, whose proofs end the module.   *)
(***************************************************************************)
EXTENDS StreamRecovery, CommandLine, Bzip3FormatTheorems

(* The bytes taken, and the segments a Writer without error has sent, do not *)
(* change when more bytes are taken.                                         *)
LEMMA SentIsStable ==
  ASSUME IInv, err = "nil", pc = "copy", NEW m \in Nat, taken + m <= Len(Input),
         NEW i \in 1..Len(sink)
  PROVE  sink[i] = Segment(SubSeq(Input, 1, taken + m), i)
  <1>1. blockCount * BlockSize <= taken /\ Len(sink) = 1 + 2 * blockCount
    BY BlockSizePositive, MulNatural DEF IInv, Position, Buffered, TypeOK
  <1>2. i \div 2 \in Nat /\ i \div 2 <= blockCount /\ blockCount \in Nat
    BY <1>1 DEF IInv, TypeOK
  <1>3. (i \div 2) * BlockSize <= blockCount * BlockSize
    BY <1>2, BlockSizePositive, MulMonotonic
  <1>4. (i \div 2) * BlockSize <= taken
    BY <1>1, <1>2, <1>3, BlockSizePositive, MulNatural DEF IInv, TypeOK
  <1>5. sink[i] = Segment(SubSeq(Input, 1, taken), i)
    BY DEF IInv, SinkIsStreamPrefix, Data
  <1>6. taken \in 0..Len(Input) /\ taken + m \in taken..Len(Input) /\ i \in Nat \ {0}
    BY InputAssumption DEF IInv, TypeOK
  <1>7. Segment(SubSeq(Input, 1, taken), i) = Segment(SubSeq(Input, 1, taken + m), i)
    BY <1>4, <1>6, InputAssumption, SegmentStable
  <1> QED  BY <1>5, <1>7

(* The block that is in the buffer is the next block of the data.            *)
LEMMA NextBlock ==
  ASSUME TypeOK, NEW len \in 1..BlockSize, taken = blockCount * BlockSize + len
  PROVE  /\ Block(Data, blockCount + 1) = SubSeq(Input, blockCount * BlockSize + 1, taken)
         /\ SubSeq(Input, blockCount * BlockSize + 1, taken) \in Seq(Byte)
         /\ Len(SubSeq(Input, blockCount * BlockSize + 1, taken)) = len
  <1>1. taken \in 0..Len(Input) /\ blockCount \in Nat
    BY InputAssumption, LenProperties DEF TypeOK
  <1> QED  BY <1>1, LastBlock, InputAssumption DEF Data

-----------------------------------------------------------------------------
(* The invariant holds at first. *)
LEMMA InitInv == Init => IInv
  <1> SUFFICES ASSUME Init PROVE IInv
    OBVIOUS
  <1>1. TypeOK
    <2>1. <<>> \in Seq(SinkSegments) /\ <<>> \in Seq(Byte)
      BY EmptySeq
    <2>2. Raw(<<>>) \in Buffers
      BY <2>1 DEF Raw, Buffers
    <2>3. 0 \in 0..BlockSize /\ 0 \in 0..Len(Input)
      BY BlockSizePositive, InputAssumption, LenProperties
    <2>4. sink \in Seq(SinkSegments)
      BY <2>1 DEF Init
    <2>5. buf \in Buffers
      BY <2>2 DEF Init
    <2>6. /\ n \in 0..BlockSize /\ given \in 0..Len(Input) /\ taken \in 0..given
          /\ wroteHdr \in BOOLEAN /\ err = "nil" /\ blockCount \in Nat
          /\ pc = "idle" /\ op = "write"
      <3>1. n = 0 /\ given = 0 /\ taken = 0 /\ blockCount = 0 /\ wroteHdr = FALSE
        BY DEF Init
      <3>2. err = "nil" /\ pc = "idle" /\ op = "write"
        BY DEF Init
      <3>3. wroteHdr \in BOOLEAN
        BY <3>1
      <3>4. taken \in 0..given /\ blockCount \in Nat
        BY <3>1
      <3>5. n \in 0..BlockSize /\ given \in 0..Len(Input)
        BY <2>3, <3>1
      <3> QED  BY <3>2, <3>3, <3>4, <3>5
    <2> QED  BY <2>4, <2>5, <2>6 DEF TypeOK
  <1>2. Position
    <2>1. SubSeq(<<>>, 1, 0) = <<>> /\ SubSeq(Input, 1, 0) = <<>>
      BY SubSeqEmpty
    <2>2. 0 * BlockSize = 0
      BY BlockSizePositive
    <2> QED  BY <2>1, <2>2, BlockSizePositive DEF Init, Position, Buffered, Raw
  <1>3. SinkIsStreamPrefix
    BY DEF Init, SinkIsStreamPrefix
  <1> QED  BY <1>1, <1>2, <1>3 DEF IInv

(* Calls change nothing but where the Writer is and what it has been given.  *)
LEMMA CallInv == ASSUME IInv, CallWrite \/ CallClose PROVE IInv'
  <1> USE DEF IInv, CallWrite, CallClose, Call, Body
  <1>1. TypeOK'
    BY DEF TypeOK
  <1>2. Position'
    <2>1. blockCount * BlockSize \in Nat /\ BlockSize \in Nat \ {0}
      BY BlockSizePositive, MulNatural DEF TypeOK
    <2>2. Buffered' <=> Buffered
      BY DEF Buffered
    <2>3. CASE err # "nil"
      BY <2>3 DEF Position, Data, TypeOK
    <2>4. CASE err = "nil" /\ ~wroteHdr
      BY <2>2, <2>4 DEF Position, TypeOK
    <2>5. CASE err = "nil" /\ wroteHdr
      <3>1. err' = "nil" /\ wroteHdr' /\ pc = "idle" /\ pc' \in {"copy", "close"}
            /\ (pc' = "copy" <=> op' = "write") /\ (pc' = "close" <=> op' = "close")
            /\ UNCHANGED <<sink, n, blockCount, taken>>
            /\ Buffered /\ n < BlockSize /\ taken = given
            /\ Len(sink) = 1 + 2 * blockCount
            /\ (op' = "close" => given' = given)
        <4>1. wroteHdr' = TRUE /\ err' = "nil" /\ pc = "idle"
          BY <2>5
        <4>2. UNCHANGED <<sink, n, blockCount, taken, err, wroteHdr>>
          OBVIOUS
        <4>3. Buffered /\ n < BlockSize /\ taken = given
          BY <2>5 DEF Position
        <4>4. Len(sink) = 1 + 2 * blockCount
          BY <2>5, <4>1 DEF Position, TypeOK
        <4>5. /\ pc' \in {"copy", "close"}
              /\ pc' = "copy" <=> op' = "write"
              /\ pc' = "close" <=> op' = "close"
              /\ op' = "close" => given' = given
          BY <2>5
        <4> QED  BY <4>1, <4>2, <4>3, <4>4, <4>5
      <3>2. n = 0 => taken = blockCount * BlockSize
        BY <2>1, <3>1 DEF Buffered
      <3> QED  BY <2>1, <2>2, <3>1, <3>2 DEF Position
    <2> QED  BY <2>3, <2>4, <2>5
  <1>3. SinkIsStreamPrefix'
    BY DEF SinkIsStreamPrefix, Data
  <1> QED  BY <1>1, <1>2, <1>3

(* What a Write to the sink leaves in it. *)
LEMMA SinkGrows ==
  ASSUME TypeOK, NEW seg \in SinkSegments,
         sink' = Append(sink, seg)
  PROVE  /\ sink' \in Seq(SinkSegments)
         /\ Len(sink') = Len(sink) + 1
         /\ sink'[Len(sink) + 1] = seg
         /\ \A i \in 1..Len(sink) : sink'[i] = sink[i]
  BY AppendProperties DEF TypeOK

(* A Write to the sink that fails ends the call and keeps the prefix. *)
LEMMA FailureInv ==
  ASSUME IInv, err = "nil", SinkFails, wroteHdr' = TRUE, UNCHANGED <<op, given, taken>>,
         blockCount' = blockCount, n' \in 0..BlockSize,
         buf' \in Buffers
  PROVE  IInv'
  <1>1. Part \in SinkSegments
    BY DEF Segments, SinkSegments
  <1>2. sink' = sink \/ sink' = Append(sink, Part)
    BY DEF SinkFails
  <1>3. TypeOK'
    BY <1>1, <1>2, SinkGrows DEF IInv, TypeOK, SinkFails
  <1>4. Position'
    BY DEF Position, SinkFails
  <1>5. SinkIsStreamPrefix'
    BY <1>1, <1>2, SinkGrows, SMTT(40) DEF IInv, TypeOK, SinkIsStreamPrefix, SinkFails, Data
  <1> QED  BY <1>3, <1>4, <1>5 DEF IInv

LEMMA WriteHeaderInv == ASSUME IInv, WriteHeader PROVE IInv'
  <1>1. CASE SinkFails
    BY <1>1, FailureInv DEF WriteHeader, IInv, TypeOK, Position
  <1>2. CASE SinkTakes(Header(BlockSize)) /\ pc' = Body(op) /\ UNCHANGED err
    <2>1. Header(BlockSize) \in SinkSegments
      BY BlockSizePositive DEF Header, Segments, SinkSegments
    <2>2. sink = <<>> /\ taken = 0 /\ n = 0 /\ blockCount = 0 /\ err = "nil"
      BY DEF WriteHeader, IInv, Position
    <2>3. TypeOK'
      BY <1>2, <2>1, SinkGrows DEF WriteHeader, IInv, TypeOK, SinkTakes, Body
    <2>4. Len(sink') = 1 /\ sink'[1] = Segment(Data', 1)
      BY <1>2, <2>1, <2>2, SinkGrows DEF IInv, SinkTakes, Segment
    <2>5. Position'
      <3>1. 0 * BlockSize = 0
        BY BlockSizePositive
      <3> QED  BY <1>2, <2>2, <2>4, <3>1, BlockSizePositive
               DEF WriteHeader, IInv, TypeOK, Position, Buffered, Body
    <2>6. SinkIsStreamPrefix'
      BY <2>4 DEF SinkIsStreamPrefix
    <2> QED  BY <2>3, <2>5, <2>6 DEF IInv
  <1> QED  BY <1>1, <1>2 DEF WriteHeader

LEMMA CopyInv == ASSUME IInv, Copy PROVE IInv'
  <1> DEFINE m == MinOf(BlockSize - n, given - taken)
             b == SubSeq(buf.data, 1, n) \o SubSeq(Input, taken + 1, taken + m)
  <1>1. /\ err = "nil" /\ pc = "copy" /\ wroteHdr /\ op = "write" /\ n < BlockSize
        /\ Buffered /\ taken < given
    BY DEF IInv, Position, Copy
  <1>2. m \in Nat /\ n + m \in 1..BlockSize /\ taken + m \in 0..given /\ m > 0
    BY <1>1, InputAssumption, BlockSizePositive DEF IInv, TypeOK, MinOf
  <1> HIDE DEF m
  <1>3. /\ buf' = Raw(b) /\ n' = n + m /\ taken' = taken + m
        /\ pc' = IF n + m = BlockSize THEN "flush" ELSE "copy"
        /\ UNCHANGED <<sink, wroteHdr, err, blockCount, op, given>>
    BY DEF Copy, Full, m
  <1>4. n \in Nat /\ taken \in Nat /\ given \in 0..Len(Input) /\ n <= taken
        /\ blockCount * BlockSize \in Nat
    BY <1>1, InputAssumption, BlockSizePositive, MulNatural DEF IInv, TypeOK, Buffered
  <1>5. /\ b = SubSeq(Input, taken - n + 1, taken + m)
        /\ b \in Seq(Byte)
        /\ Len(b) = n + m
    <2>1. taken + m <= Len(Input) /\ m \in Nat
      BY <1>2, <1>4, InputAssumption
    <2>2. /\ SubSeq(Input, taken - n + 1, taken) \o SubSeq(Input, taken + 1, taken + m)
                = SubSeq(Input, taken - n + 1, taken + m)
          /\ SubSeq(Input, taken - n + 1, taken + m) \in Seq(Byte)
          /\ Len(SubSeq(Input, taken - n + 1, taken + m)) = n + m
      BY <1>4, <2>1, InputAssumption, AdjacentParts
    <2> QED  BY <1>1, <2>2 DEF Buffered
  <1>7. SubSeq(b, 1, n + m) = b
    BY <1>5, SubSeqFull
  <1> HIDE DEF b
  <1>8. TypeOK'
    <2>1. buf' \in Buffers
      BY <1>3, <1>5 DEF Raw, Buffers
    <2>2. n' \in 0..BlockSize /\ taken' \in 0..given' /\ given' \in 0..Len(Input)
      BY <1>2, <1>3, <1>4, BlockSizePositive
    <2> QED  BY <1>3, <2>1, <2>2 DEF IInv, TypeOK
  <1>9. Buffered'
    <2>1. taken' - n' + 1 = taken - n + 1 /\ taken' = blockCount' * BlockSize + n'
      <3>1. blockCount' * BlockSize = blockCount * BlockSize
        BY <1>3
      <3>2. taken = blockCount * BlockSize + n
        BY <1>1 DEF Buffered
      <3> QED  BY <1>2, <1>3, <1>4, <3>1, <3>2
    <2>2. buf'.data = b
      BY <1>3 DEF Raw
    <2>3. n' <= Len(buf'.data) /\ SubSeq(buf'.data, 1, n') = b
      BY <1>2, <1>3, <1>4, <1>5, <1>7, <2>2
    <2>4. b = SubSeq(Input, taken' - n' + 1, taken')
      BY <1>3, <1>5, <2>1
    <2> QED  BY <2>1, <2>3, <2>4 DEF Buffered
  <1>10. Position'
    <2>1. Len(sink') = 1 + 2 * blockCount'
      BY <1>1, <1>3 DEF IInv, Position, TypeOK
    <2>2. CASE n + m = BlockSize
      BY <1>1, <1>2, <1>3, <1>4, <1>9, <2>1, <2>2 DEF Position
    <2>3. CASE n + m # BlockSize
      <3>1. n' < BlockSize /\ pc' = "copy"
        BY <1>2, <1>3, <2>3, BlockSizePositive
      <3> QED  BY <1>1, <1>3, <1>9, <2>1, <3>1 DEF Position
    <2> QED  BY <2>2, <2>3
  <1>11. SinkIsStreamPrefix'
    <2>1. taken + m <= Len(Input)
      BY <1>2, <1>4, InputAssumption
    <2>2. \A i \in 1..Len(sink) : sink[i] = Segment(SubSeq(Input, 1, taken + m), i)
      BY <1>1, <1>2, <2>1, SentIsStable
    <2> QED  BY <1>3, <2>2 DEF SinkIsStreamPrefix, Data
  <1> QED  BY <1>8, <1>10, <1>11 DEF IInv

(* A call of Write returns when all it was given has been taken. *)
LEMMA WriteReturnsInv == ASSUME IInv, WriteReturns PROVE IInv'
  <1>1. TypeOK' /\ SinkIsStreamPrefix'
    BY DEF IInv, WriteReturns, TypeOK, SinkIsStreamPrefix, Data
  <1>2. Buffered' <=> Buffered
    BY DEF WriteReturns, Buffered
  <1>3. Position'
    BY <1>2 DEF IInv, WriteReturns, Position, TypeOK
  <1> QED  BY <1>1, <1>3 DEF IInv

(* Sending the next segment of the stream keeps the sink a prefix of it. *)
LEMMA PrefixExtended ==
  ASSUME IInv, err = "nil", UNCHANGED <<err, taken>>,
         NEW seg \in SinkSegments, sink' = Append(sink, seg),
         seg = Segment(Data, Len(sink) + 1)
  PROVE  SinkIsStreamPrefix'
  <1>1. \A i \in 1..Len(sink) : sink'[i] = Segment(Data, i)
    BY SinkGrows DEF IInv, SinkIsStreamPrefix
  <1>2. Len(sink') = Len(sink) + 1 /\ sink'[Len(sink) + 1] = seg /\ Len(sink) \in Nat
    BY SinkGrows, LenProperties DEF IInv, TypeOK
  <1>3. \A i \in 1..Len(sink') : sink'[i] = Segment(Data, i)
    BY <1>1, <1>2
  <1> QED  BY <1>3 DEF SinkIsStreamPrefix, Data

(* The header of the next block is that of the bytes in the buffer. *)
LEMMA FlushHeaderInv == ASSUME IInv, FlushHeader PROVE IInv'
  <1> DEFINE b == SubSeq(buf.data, 1, n)
  <1>1. /\ err = "nil" /\ pc = "flush" /\ wroteHdr = TRUE /\ n \in 1..BlockSize
        /\ Buffered /\ (n < BlockSize => op = "close")
        /\ Len(sink) = 1 + 2 * blockCount /\ blockCount \in Nat
    BY BlockSizePositive DEF IInv, Position, TypeOK, FlushHeader
  <1>2. taken = blockCount * BlockSize + n /\ blockCount * BlockSize \in Nat
    BY <1>1, BlockSizePositive, MulNatural DEF Buffered
  <1>3. b = SubSeq(Input, blockCount * BlockSize + 1, taken)
    <2>1. taken - n + 1 = blockCount * BlockSize + 1
      BY <1>1, <1>2, BlockSizePositive
    <2> QED  BY <1>1, <2>1 DEF Buffered
  <1>4. Block(Data, blockCount + 1) = b /\ b \in Seq(Byte) /\ Len(b) = n
    BY <1>1, <1>2, <1>3, NextBlock DEF IInv
  <1>5. n' = 0 /\ buf' = Enc(b) /\ UNCHANGED <<wroteHdr, blockCount, op, given, taken>>
    BY DEF FlushHeader
  <1> HIDE DEF b
  <1>6. buf' \in Buffers /\ buf'.tag = "enc" /\ buf'.data = b
    BY <1>4, <1>5 DEF Enc, Buffers
  <1>7. n' \in 0..BlockSize
    BY <1>5, BlockSizePositive
  <1>8. CASE SinkFails
    BY <1>1, <1>5, <1>6, <1>7, <1>8, FailureInv
  <1>9. CASE SinkTakes(BlockHeader(EncSize(b), n)) /\ pc' = "payload" /\ UNCHANGED err
    <2> DEFINE seg == BlockHeader(EncSize(b), n)
    <2>1. seg \in SinkSegments
      <3>1. EncSize(b) \in Int /\ n \in Int
        BY <1>1, <1>4, EncSizeType
      <3> QED  BY <3>1 DEF BlockHeader, Segments, SinkSegments
    <2>2. sink' = Append(sink, seg) /\ pc' = "payload" /\ err' = err
      BY <1>9 DEF SinkTakes
    <2>3. seg = Segment(Data, Len(sink) + 1)
      <3>1. seg = Segment(Data, 2 * blockCount + 2)
        BY <1>1, <1>4, BlockSegments
      <3>2. Len(sink) + 1 = 2 * blockCount + 2
        BY <1>1
      <3> QED  BY <3>1, <3>2
    <2> HIDE DEF seg
    <2>4. SinkIsStreamPrefix'
      BY <1>1, <1>5, <2>1, <2>2, <2>3, PrefixExtended
    <2>5. sink' \in Seq(SinkSegments) /\ Len(sink') = Len(sink) + 1
      BY <2>1, <2>2, SinkGrows DEF IInv
    <2>6. TypeOK'
      BY <1>5, <1>6, <1>7, <2>2, <2>5 DEF IInv, TypeOK
    <2>7. Position'
      <3>1. Len(sink') = 1 + 2 * blockCount' + 1
        BY <1>1, <1>5, <2>5
      <3>2. /\ Len(buf'.data) \in 1..BlockSize
            /\ Len(buf'.data) < BlockSize => op' = "close"
            /\ taken' = blockCount' * BlockSize + Len(buf'.data)
            /\ buf'.data = SubSeq(Input, blockCount' * BlockSize + 1, taken')
        BY <1>1, <1>2, <1>3, <1>4, <1>5, <1>6
      <3>3. op' = "close" => taken' = given'
        BY <1>1, <1>5 DEF IInv, Position
      <3> QED  BY <1>1, <1>5, <1>6, <2>2, <3>1, <3>2, <3>3 DEF Position
    <2> QED  BY <2>4, <2>6, <2>7 DEF IInv
  <1> QED  BY <1>8, <1>9 DEF FlushHeader, b

(* The block itself follows; it is counted, and the buffer is empty. *)
LEMMA FlushPayloadInv == ASSUME IInv, FlushPayload PROVE IInv'
  <1> DEFINE b == buf.data
  <1>1. /\ err = "nil" /\ pc = "payload" /\ wroteHdr = TRUE /\ n = 0
        /\ buf.tag = "enc" /\ Len(b) \in 1..BlockSize
        /\ (Len(b) < BlockSize => op = "close")
        /\ taken = blockCount * BlockSize + Len(b)
        /\ b = SubSeq(Input, blockCount * BlockSize + 1, taken)
        /\ Len(sink) = 1 + 2 * blockCount + 1 /\ blockCount \in Nat
    BY DEF IInv, Position, TypeOK, FlushPayload
  <1>2. Block(Data, blockCount + 1) = b /\ b \in Seq(Byte)
    BY <1>1, NextBlock DEF IInv
  <1>3. buf = Enc(b) /\ buf \in Buffers
    BY <1>1 DEF IInv, TypeOK, Enc, Buffers
  <1>4. UNCHANGED <<buf, n, wroteHdr, op, given, taken>>
    BY DEF FlushPayload
  <1> HIDE DEF b
  <1>5. CASE SinkFails /\ UNCHANGED blockCount
    <2>1. wroteHdr' = TRUE /\ n' \in 0..BlockSize /\ buf' \in Buffers
      BY <1>1, <1>3, <1>4, BlockSizePositive
    <2> QED  BY <1>1, <1>4, <1>5, <2>1, FailureInv
  <1>6. CASE /\ SinkTakes(Payload(EncSize(b), buf))
             /\ blockCount' = blockCount + 1
             /\ pc' = Body(op)
             /\ UNCHANGED err
    <2> DEFINE seg == Payload(EncSize(b), buf)
    <2>1. seg \in SinkSegments
      <3>1. EncSize(b) \in Int /\ buf \in [tag : {"enc"}, data : Seq(Byte)]
        BY <1>1, <1>2, <1>3, EncSizeType DEF Enc
      <3> QED  BY <3>1 DEF Payload, Segments, SinkSegments
    <2>2. sink' = Append(sink, seg) /\ err' = err
      BY <1>6 DEF SinkTakes
    <2>3. seg = Segment(Data, Len(sink) + 1)
      <3>1. seg = Segment(Data, 2 * blockCount + 3)
        BY <1>1, <1>2, <1>3, BlockSegments
      <3>2. Len(sink) + 1 = 2 * blockCount + 3
        BY <1>1
      <3> QED  BY <3>1, <3>2
    <2> HIDE DEF seg
    <2>4. SinkIsStreamPrefix'
      BY <1>1, <1>4, <2>1, <2>2, <2>3, PrefixExtended
    <2>5. sink' \in Seq(SinkSegments) /\ Len(sink') = Len(sink) + 1
      BY <2>1, <2>2, SinkGrows DEF IInv
    <2>6. pc' = (IF op = "write" THEN "copy" ELSE "close") /\ op \in {"write", "close"}
      BY <1>6 DEF Body, IInv, TypeOK
    <2>7. TypeOK'
      BY <1>3, <1>4, <1>6, <2>2, <2>5, <2>6 DEF IInv, TypeOK
    <2>8. /\ blockCount * BlockSize \in Nat
          /\ blockCount' * BlockSize = blockCount * BlockSize + BlockSize
      BY <1>1, <1>6, BlockSizePositive, MulNatural, MulSuccessor
    <2>9. Len(sink') = 1 + 2 * blockCount' + 0 /\ blockCount' \in Nat
      BY <1>1, <1>6, <2>5
    <2>10. CASE op = "write"
      <3>1. taken' = blockCount' * BlockSize /\ n' = 0 /\ taken' \in Nat
        BY <1>1, <1>4, <2>8, <2>10, BlockSizePositive
      <3>2. SubSeq(buf'.data, 1, 0) = <<>> /\ SubSeq(Input, taken' - 0 + 1, taken') = <<>>
        BY <3>1, SubSeqEmpty
      <3>3. 0 <= Len(buf'.data)
        BY <1>1, <1>4 DEF b
      <3>4. Buffered' /\ n' < BlockSize
        BY <3>1, <3>2, <3>3, BlockSizePositive DEF Buffered
      <3>5. err' = "nil" /\ wroteHdr' = TRUE /\ pc' = "copy" /\ op' = "write"
        BY <1>1, <1>4, <2>2, <2>6, <2>10
      <3>6. Len(sink') = 1 + 2 * blockCount' + (IF pc' = "payload" THEN 1 ELSE 0)
        BY <2>9, <3>5
      <3>7. Position'
        BY <3>4, <3>5, <3>6 DEF Position
      <3> QED  BY <2>4, <2>7, <3>7 DEF IInv
    <2>11. CASE op = "close"
      <3>1. blockCount' * BlockSize < taken' + BlockSize /\ taken' <= blockCount' * BlockSize
        BY <1>1, <1>4, <2>8, BlockSizePositive
      <3>2. taken' = given'
        BY <1>1, <1>4, <2>11 DEF IInv, Position
      <3>3. err' = "nil" /\ wroteHdr' = TRUE /\ pc' = "close" /\ op' = "close" /\ n' = 0
        BY <1>1, <1>4, <2>2, <2>6, <2>11
      <3>4. Len(sink') = 1 + 2 * blockCount' + (IF pc' = "payload" THEN 1 ELSE 0)
        BY <2>9, <3>3
      <3>5. Position'
        BY <3>1, <3>2, <3>3, <3>4 DEF Position
      <3> QED  BY <2>4, <2>7, <3>5 DEF IInv
    <2> QED  BY <2>6, <2>10, <2>11
  <1> QED  BY <1>5, <1>6 DEF FlushPayload, b

(* Close flushes what is left, and has then sent the whole stream. *)
LEMMA CloseFlushInv == ASSUME IInv, CloseFlush PROVE IInv'
  <1>1. TypeOK' /\ SinkIsStreamPrefix'
    BY DEF IInv, CloseFlush, TypeOK, SinkIsStreamPrefix, Data
  <1>2. Buffered' <=> Buffered
    BY DEF CloseFlush, Buffered
  <1>3. Position'
    BY <1>2 DEF IInv, CloseFlush, Position, TypeOK
  <1> QED  BY <1>1, <1>3 DEF IInv

LEMMA CloseReturnsInv == ASSUME IInv, CloseReturns PROVE IInv'
  <1>1. /\ err = "nil" /\ pc = "close" /\ wroteHdr = TRUE /\ op = "close"
        /\ blockCount * BlockSize < taken + BlockSize /\ taken <= blockCount * BlockSize
        /\ Len(sink) = 1 + 2 * blockCount /\ blockCount \in Nat /\ taken = given
    BY DEF IInv, Position, TypeOK, CloseReturns
  <1>2. Data \in Seq(Byte) /\ Len(Data) = taken
    BY InputAssumption, PrefixProperties DEF IInv, TypeOK, Data
  <1>3. NumBlocks(Data) = blockCount
    BY <1>1, <1>2, NumBlocksFromEnd
  <1>4. sink = Stream(Data)
    <2>1. \A i \in 1..Len(sink) : sink[i] = Segment(Data, i)
      BY <1>1 DEF IInv, SinkIsStreamPrefix
    <2> QED  BY <1>1, <1>3, <2>1, StreamFromSegments DEF IInv, TypeOK
  <1>5. /\ err' = "closed" /\ pc' = "idle" /\ Data' = Data
        /\ UNCHANGED <<sink, buf, n, wroteHdr, blockCount, op, given, taken>>
    BY DEF CloseReturns, Data
  <1>6. TypeOK'
    BY <1>5 DEF IInv, TypeOK
  <1>7. Position'
    BY <1>1, <1>4, <1>5 DEF Position
  <1>8. SinkIsStreamPrefix'
    BY <1>1, <1>5 DEF IInv, SinkIsStreamPrefix
  <1> QED  BY <1>6, <1>7, <1>8 DEF IInv

LEMMA StutterInv == ASSUME IInv, UNCHANGED vars PROVE IInv'
  BY DEF IInv, vars, TypeOK, Position, Buffered, SinkIsStreamPrefix, Data

-----------------------------------------------------------------------------
(* The strengthened invariant is an invariant of the Writer: the bytes in    *)
(* the buffer, the blocks counted and the segments sent agree at every       *)
(* control point of Write, flushBlock and Close.                             *)
THEOREM WriterInvariant == Spec => []IInv
  <1>1. Init => IInv
    BY InitInv
  <1>2. IInv /\ [Next]_vars => IInv'
    <2> SUFFICES ASSUME IInv, [Next]_vars PROVE IInv'
      OBVIOUS
    <2>1. CASE CallWrite \/ CallClose
      BY <2>1, CallInv
    <2>2. CASE WriteHeader
      BY <2>2, WriteHeaderInv
    <2>3. CASE Copy
      BY <2>3, CopyInv
    <2>4. CASE WriteReturns
      BY <2>4, WriteReturnsInv
    <2>5. CASE FlushHeader
      BY <2>5, FlushHeaderInv
    <2>6. CASE FlushPayload
      BY <2>6, FlushPayloadInv
    <2>7. CASE CloseFlush
      BY <2>7, CloseFlushInv
    <2>8. CASE CloseReturns
      BY <2>8, CloseReturnsInv
    <2>9. CASE UNCHANGED vars
      BY <2>9, StutterInv
    <2> QED  BY <2>1, <2>2, <2>3, <2>4, <2>5, <2>6, <2>7, <2>8, <2>9 DEF Next, Step
  <1> QED  BY <1>1, <1>2, PTL DEF Spec

(* Type correctness of the Writer's fields and of what it has sent. *)
THEOREM WriterTypeCorrect == Spec => []TypeOK
  <1>1. IInv => TypeOK
    BY DEF IInv
  <1> QED  BY <1>1, WriterInvariant, PTL

(* Whatever the chunks and whenever the underlying writer fails, what it has *)
(* received begins the stream prescribed for the bytes taken.                *)
THEOREM WriterSendsPrefix == Spec => []SinkIsStreamPrefix
  <1>1. IInv => SinkIsStreamPrefix
    BY DEF IInv
  <1> QED  BY <1>1, WriterInvariant, PTL

(* After a Close that returned nil the sink holds the whole stream of        *)
(* everything handed to Write.                                               *)
THEOREM WriterCompletes == Spec => []CloseMeansComplete
  <1>1. IInv => CloseMeansComplete
    BY DEF IInv, Position, CloseMeansComplete
  <1> QED  BY <1>1, WriterInvariant, PTL

(* After an error or Close the Writer is silent: every call returns at once. *)
THEOREM WriterSilentAfterError == Spec => SilentAfterError
  <1>1. IInv /\ [Next]_vars => [err # "nil" => UNCHANGED <<sink, err, taken>>]_vars
    BY DEF IInv, Position, TypeOK, Next, Step, CallWrite, CallClose, Call, WriteHeader, Copy,
           WriteReturns, FlushHeader, FlushPayload, CloseFlush, CloseReturns, vars
  <1> QED  BY <1>1, WriterInvariant, PTL DEF Spec, SilentAfterError
-----------------------------------------------------------------------------
(***************************************************************************)
(* The Writer implements the abstract encoder: each of its steps takes     *)
(* bytes, emits the next segment of a block whose bytes are known, closes, *)
(* fails, or changes nothing that the abstract encoder has.                *)
(***************************************************************************)

(* The instance uses the same format. *)
LEMMA SameFormat ==
  ASSUME NEW data, NEW k
  PROVE  /\ Abstract!Segment(data, k) = Segment(data, k)
         /\ Abstract!Stream(data) = Stream(data)
         /\ Abstract!Part = Part
         /\ Abstract!Data = Data
  BY DEF Abstract!Segment, Abstract!Stream, Abstract!Part, Abstract!Data, Abstract!Block,
         Abstract!Header, Abstract!BlockHeader, Abstract!Payload, Abstract!Enc, Abstract!MinOf,
         Abstract!NumBlocks, Segment, Stream, Part, Data, Block, Header, BlockHeader, Payload,
         Enc, MinOf, NumBlocks

(* The two segments of a block may be emitted once its bytes are known. *)
LEMMA BlockReady ==
  ASSUME NEW k \in Nat,
         \/ (k + 1) * BlockSize <= taken
         \/ StreamStatus = "ending" /\ k * BlockSize < taken
  PROVE  Abstract!Ready(2 * k + 2) /\ Abstract!Ready(2 * k + 3)
  <1>1. (2 * k + 2) \div 2 = k + 1 /\ (2 * k + 3) \div 2 = k + 1 /\ k + 1 - 1 = k
    OBVIOUS
  <1> QED  BY <1>1 DEF Abstract!Ready

(* A segment sent is one emitted, and a Write that failed a failure. *)
LEMMA SendStep ==
  ASSUME err = "nil", UNCHANGED taken,
         Abstract!Ready(Len(sink) + 1),
         NEW seg, seg = Segment(Data, Len(sink) + 1),
         \/ SinkTakes(seg) /\ UNCHANGED StreamStatus
         \/ SinkFails
  PROVE  Abstract!Next
  <1>1. Abstract!Running
    BY DEF StreamStatus, Abstract!Running
  <1>2. CASE SinkTakes(seg) /\ UNCHANGED StreamStatus
    <2>1. Abstract!Emit
      BY <1>1, <1>2, SameFormat DEF SinkTakes, Abstract!Emit
    <2> QED  BY <2>1 DEF Abstract!Next
  <1>3. CASE SinkFails
    <2>1. StreamStatus' = "failed"
      BY <1>3 DEF SinkFails, StreamStatus
    <2>2. Abstract!Fail
      BY <1>1, <1>3, <2>1, SameFormat DEF SinkFails, Abstract!Fail
    <2> QED  BY <2>2 DEF Abstract!Next
  <1> QED  BY <1>2, <1>3

LEMMA CallSteps ==
  ASSUME IInv, CallWrite \/ CallClose
  PROVE  Abstract!Next \/ UNCHANGED Abstract!vars
  <1>1. pc = "idle" /\ UNCHANGED <<sink, err, taken>>
    BY DEF CallWrite, CallClose, Call
  <1>2. CASE err # "nil"
    BY <1>1, <1>2 DEF IInv, TypeOK, StreamStatus, Abstract!vars
  <1>3. CASE err = "nil"
    <2>1. StreamStatus = "open" /\ StreamStatus' \in {"open", "ending"}
      BY <1>1, <1>3 DEF StreamStatus
    <2>2. taken \in taken..Len(Input)
      BY InputAssumption, LenProperties DEF IInv, TypeOK
    <2>3. Abstract!Take
      BY <1>1, <2>1, <2>2 DEF Abstract!Take
    <2> QED  BY <2>3 DEF Abstract!Next
  <1> QED  BY <1>2, <1>3

LEMMA WriteHeaderSteps == ASSUME IInv, WriteHeader PROVE Abstract!Next
  <1>1. /\ err = "nil" /\ sink = <<>> /\ UNCHANGED <<op, taken>>
        /\ pc = "header" /\ op \in {"write", "close"}
    BY DEF IInv, TypeOK, Position, WriteHeader
  <1>2. Len(sink) + 1 = 1
    BY <1>1
  <1>3. Abstract!Ready(Len(sink) + 1) /\ Header(BlockSize) = Segment(Data, Len(sink) + 1)
    BY <1>2 DEF Abstract!Ready, Segment
  <1>4. SinkTakes(Header(BlockSize)) /\ pc' = Body(op) /\ UNCHANGED err => UNCHANGED StreamStatus
    BY <1>1 DEF StreamStatus, Body
  <1> QED  BY <1>1, <1>3, <1>4, SendStep DEF WriteHeader

LEMMA CopySteps == ASSUME IInv, Copy PROVE Abstract!Next
  <1>1. /\ err = "nil" /\ pc = "copy" /\ op = "write" /\ taken < given
        /\ UNCHANGED <<sink, err, op, given>>
    BY DEF IInv, Position, Copy
  <1>2. StreamStatus = "open" /\ StreamStatus' = "open"
    BY <1>1 DEF StreamStatus
  <1>3. taken' \in taken..Len(Input)
    BY <1>1, InputAssumption, LenProperties, BlockSizePositive
    DEF IInv, TypeOK, Position, Copy, MinOf
  <1>4. Abstract!Take
    BY <1>1, <1>2, <1>3 DEF Abstract!Take
  <1> QED  BY <1>4 DEF Abstract!Next

(* A short block is only flushed when Close has ended the input. *)
LEMMA FlushHeaderSteps == ASSUME IInv, FlushHeader PROVE Abstract!Next
  <1> DEFINE b == SubSeq(buf.data, 1, n)
  <1>1. /\ err = "nil" /\ pc = "flush" /\ n \in 1..BlockSize /\ Buffered
        /\ (n < BlockSize => op = "close") /\ op \in {"write", "close"}
        /\ Len(sink) = 1 + 2 * blockCount /\ blockCount \in Nat
        /\ UNCHANGED <<op, taken>>
    BY BlockSizePositive DEF IInv, Position, TypeOK, FlushHeader
  <1>2. /\ taken = blockCount * BlockSize + n /\ blockCount * BlockSize \in Nat
        /\ (blockCount + 1) * BlockSize = blockCount * BlockSize + BlockSize
    BY <1>1, BlockSizePositive, MulNatural, MulSuccessor DEF Buffered
  <1>3. taken - n + 1 = blockCount * BlockSize + 1
    BY <1>1, <1>2
  <1>4. Block(Data, blockCount + 1) = b /\ Len(b) = n
    BY <1>1, <1>2, <1>3, NextBlock DEF IInv, Buffered
  <1>5. Abstract!Ready(2 * blockCount + 2)
    <2>1. CASE n = BlockSize
      <3>1. (blockCount + 1) * BlockSize <= taken
        BY <1>1, <1>2, <2>1
      <3> QED  BY <1>1, <3>1, BlockReady
    <2>2. CASE n # BlockSize
      <3>1. StreamStatus = "ending" /\ blockCount * BlockSize < taken
        BY <1>1, <1>2, <2>2, BlockSizePositive, SMTT(40) DEF StreamStatus
      <3> QED  BY <1>1, <3>1, BlockReady
    <2> QED  BY <2>1, <2>2
  <1> HIDE DEF b
  <1>6. Len(sink) + 1 = 2 * blockCount + 2
    BY <1>1
  <1>7. BlockHeader(EncSize(b), n) = Segment(Data, 2 * blockCount + 2)
    BY <1>1, <1>4, BlockSegments
  <1>8. (SinkTakes(BlockHeader(EncSize(b), n)) /\ UNCHANGED StreamStatus) \/ SinkFails
    BY <1>1 DEF FlushHeader, StreamStatus, b
  <1> QED  BY <1>1, <1>5, <1>6, <1>7, <1>8, SendStep

LEMMA FlushPayloadSteps == ASSUME IInv, FlushPayload PROVE Abstract!Next
  <1> DEFINE b == buf.data
  <1>1. /\ err = "nil" /\ pc = "payload" /\ Len(b) \in 1..BlockSize
        /\ (Len(b) < BlockSize => op = "close") /\ op \in {"write", "close"}
        /\ taken = blockCount * BlockSize + Len(b)
        /\ b = SubSeq(Input, blockCount * BlockSize + 1, taken)
        /\ Len(sink) = 1 + 2 * blockCount + 1 /\ blockCount \in Nat
        /\ buf = Enc(b)
        /\ UNCHANGED <<op, taken>>
    BY DEF IInv, Position, TypeOK, FlushPayload, Buffers, Enc
  <1>2. /\ blockCount * BlockSize \in Nat
        /\ (blockCount + 1) * BlockSize = blockCount * BlockSize + BlockSize
    BY <1>1, BlockSizePositive, MulNatural, MulSuccessor
  <1>3. Block(Data, blockCount + 1) = b
    BY <1>1, NextBlock DEF IInv
  <1> HIDE DEF b
  <1>4. Abstract!Ready(2 * blockCount + 3)
    <2>1. CASE Len(b) = BlockSize
      <3>1. (blockCount + 1) * BlockSize <= taken
        BY <1>1, <1>2, <2>1, SMTT(40)
      <3> QED  BY <1>1, <3>1, BlockReady
    <2>2. CASE Len(b) # BlockSize
      <3>1. op = "close" /\ blockCount * BlockSize < taken
        <4>1. Len(b) < BlockSize => op = "close"
          BY <1>1
        <4>2. taken = blockCount * BlockSize + Len(b) /\ Len(b) \in 1..BlockSize
          BY <1>1
        <4>3. blockCount * BlockSize < taken
          BY <1>2, <4>2, BlockSizePositive
        <4> QED  BY <2>2, <4>1, <4>2, <4>3, BlockSizePositive
      <3>2. StreamStatus = "ending"
        BY <1>1, <3>1 DEF StreamStatus
      <3> QED  BY <1>1, <3>1, <3>2, BlockReady
    <2> QED  BY <2>1, <2>2
  <1>5. Len(sink) + 1 = 2 * blockCount + 3
    BY <1>1
  <1>6. Payload(EncSize(b), buf) = Segment(Data, 2 * blockCount + 3)
    BY <1>1, <1>3, BlockSegments
  <1>7. (SinkTakes(Payload(EncSize(b), buf)) /\ UNCHANGED StreamStatus) \/ SinkFails
    BY <1>1 DEF FlushPayload, StreamStatus, Body, b
  <1> QED  BY <1>1, <1>4, <1>5, <1>6, <1>7, SendStep

LEMMA CloseReturnsSteps == ASSUME IInv, CloseReturns PROVE Abstract!Next
  <1>1. /\ err = "nil" /\ err' = "closed" /\ UNCHANGED <<sink, taken>>
    BY DEF IInv, Position, CloseReturns
  <1>2. sink' = Stream(Data)'
    BY <1>1, CloseReturnsInv DEF IInv, Position
  <1>3. sink = Stream(Data)
    BY <1>1, <1>2 DEF Data
  <1>4. Abstract!Close
    BY <1>1, <1>3, SameFormat DEF StreamStatus, Abstract!Close, Abstract!Running
  <1> QED  BY <1>4 DEF Abstract!Next

(* Steps that the abstract encoder does not have. *)
LEMMA InnerSteps ==
  ASSUME IInv, WriteReturns \/ CloseFlush \/ UNCHANGED vars
  PROVE  UNCHANGED Abstract!vars
  <1>1. CASE WriteReturns
    BY <1>1 DEF WriteReturns, IInv, Position, StreamStatus, Abstract!vars
  <1>2. CASE CloseFlush
    BY <1>2 DEF CloseFlush, StreamStatus, Abstract!vars
  <1>3. CASE UNCHANGED vars
    BY <1>3 DEF vars, StreamStatus, Abstract!vars
  <1> QED  BY <1>1, <1>2, <1>3

(***************************************************************************)
(* Whatever the division into Write calls, wherever Close comes and        *)
(* wherever the underlying writer fails, the Writer (writer.go) behaves as *)
(* an encoder of the format may.                                           *)
(***************************************************************************)
THEOREM WriterImplementsEncoder == Spec => RefinesEncodedStream
  <1>1. Init => Abstract!Init
    BY DEF Init, StreamStatus, Abstract!Init
  <1>2. IInv /\ [Next]_vars => [Abstract!Next]_(Abstract!vars)
    <2> SUFFICES ASSUME IInv, [Next]_vars
                 PROVE  Abstract!Next \/ UNCHANGED Abstract!vars
      OBVIOUS
    <2>1. CASE CallWrite \/ CallClose
      BY <2>1, CallSteps
    <2>2. CASE WriteHeader
      BY <2>2, WriteHeaderSteps
    <2>3. CASE Copy
      BY <2>3, CopySteps
    <2>4. CASE FlushHeader
      BY <2>4, FlushHeaderSteps
    <2>5. CASE FlushPayload
      BY <2>5, FlushPayloadSteps
    <2>6. CASE CloseReturns
      BY <2>6, CloseReturnsSteps
    <2>7. CASE WriteReturns \/ CloseFlush \/ UNCHANGED vars
      BY <2>7, InnerSteps
    <2> QED  BY <2>1, <2>2, <2>3, <2>4, <2>5, <2>6, <2>7 DEF Next, Step
  <1> QED  BY <1>1, <1>2, WriterInvariant, PTL DEF Spec, RefinesEncodedStream, Abstract!Spec

-----------------------------------------------------------------------------
LEMMA SegmentKind == ASSUME NEW d, NEW j PROVE Segment(d, j).kind = KindAt(j) /\ Segment(d, j) # Part
  BY DEF Segment, KindAt, Header, BlockHeader, Payload, Part

(* Block k + 1 of d, when d has bytes for it. *)
LEMMA BlockBytes ==
  ASSUME NEW d \in Seq(Byte), NEW k \in Nat, k * BlockSize < Len(d)
  PROVE  /\ Block(d, k + 1) = SubSeq(d, k * BlockSize + 1, MinOf((k + 1) * BlockSize, Len(d)))
         /\ Block(d, k + 1) \in Seq(Byte)
         /\ Len(Block(d, k + 1)) \in 1..BlockSize
         /\ EncSize(Block(d, k + 1)) \in 1..Bound(BlockSize)
  <1> DEFINE b    == Block(d, k + 1)
             from == k * BlockSize + 1
             to   == MinOf((k + 1) * BlockSize, Len(d))
  <1>1. /\ from \in Nat \ {0} /\ Len(d) \in Nat /\ BlockSize \in Nat \ {0}
        /\ (k + 1) * BlockSize = k * BlockSize + BlockSize
    BY BlockSizePositive, MulNatural, MulSuccessor, LenProperties
  <1>2. from <= to /\ to <= Len(d) /\ to - from + 1 \in 1..BlockSize /\ to \in Nat
    BY <1>1 DEF MinOf
  <1>3. b = SubSeq(d, from, to)
    <2> DEFINE q == k + 1
    <2>1. q - 1 = k
      OBVIOUS
    <2> HIDE DEF q
    <2>2. Block(d, q) = SubSeq(d, (q - 1) * BlockSize + 1, MinOf(q * BlockSize, Len(d)))
      BY DEF Block
    <2>3. Block(d, q) = SubSeq(d, k * BlockSize + 1, MinOf(q * BlockSize, Len(d)))
      BY <2>1, <2>2
    <2> QED  BY <2>3 DEF q
  <1> HIDE DEF from, to
  <1>4. \A j \in from..to : d[j] \in Byte
    BY <1>1, <1>2, ElementOfSeq
  <1>5. b \in Seq(Byte) /\ Len(b) = to - from + 1
    <2>1. from \in Int /\ to \in Int
      BY <1>1, <1>2
    <2>2. /\ SubSeq(d, from, to) \in Seq(Byte)
          /\ Len(SubSeq(d, from, to)) = IF from <= to THEN to - from + 1 ELSE 0
      BY <1>4, <2>1, SubSeqProperties
    <2> QED  BY <1>2, <1>3, <2>2
  <1> HIDE DEF b
  <1>6. b \in [1..Len(b) -> Byte] /\ Len(b) \in 1..BlockSize
    BY <1>2, <1>5, LenProperties
  <1>7. EncSize(b) \in 1..Bound(Len(b))
    BY <1>6, FormatAssumption
  <1>8. Bound(Len(b)) <= Bound(BlockSize) /\ Bound(Len(b)) \in Int /\ Bound(BlockSize) \in Int
    BY <1>1, <1>6 DEF Bound
  <1>9. EncSize(b) \in 1..Bound(BlockSize)
    BY <1>7, <1>8
  <1> QED  BY <1>3, <1>5, <1>6, <1>9 DEF b, from, to

LEMMA LeftIsFile ==
  ASSUME NEW d \in Seq(Byte), NEW f \in Seq(SinkSegments), LeftOf(d, f)
  PROVE  IsFile(f)
  <1>1. SinkSegments \subseteq Segments(Bodies)
    BY DEF SinkSegments, Segments, Bodies
  <1>2. f \in Seq(Segments(Bodies))
    BY <1>1, SeqMonotonic
  <1>3. \A j \in 1..Len(f) : IF f[j] = Part THEN j = Len(f) ELSE f[j].kind = KindAt(j)
    BY SegmentKind DEF LeftOf
  (* No block that EncodeBlock makes has no bytes. *)
  <1>4. ASSUME NEW j \in 1..Len(f), f[j].kind = "blockHeader" PROVE f[j].newSize # 0
    <2>1. f[j] = Segment(d, j)
      BY <1>4 DEF LeftOf, Part
    <2>2. Len(f) \in Nat /\ j \in Nat /\ j # 1 /\ j % 2 = 0
      BY <1>4, <2>1, LenProperties DEF Segment, Header, Payload
    <2> DEFINE k == j \div 2 - 1
    <2>3. k \in Nat /\ j = 2 * k + 2 /\ j \in 2..Len(f)
      BY <2>2
    <2>4. k * BlockSize < Len(d)
      BY <2>3 DEF LeftOf
    <2> HIDE DEF k
    <2>5. f[j] = BlockHeader(EncSize(Block(d, k + 1)), Len(Block(d, k + 1)))
      BY <2>1, <2>3, BlockSegments
    <2>6. EncSize(Block(d, k + 1)) # 0
      BY <2>3, <2>4, BlockBytes, BlockSizePositive DEF Bound
    <2> QED  BY <2>5, <2>6 DEF BlockHeader
  <1> QED  BY <1>2, <1>3, <1>4 DEF IsFile

(* A block of which the payload is there is good, and is a block of d.       *)
LEMMA LeftBlock ==
  ASSUME NEW d \in Seq(Byte), NEW f, LeftOf(d, f), Len(f) \in Nat,
         NEW k \in Nat, 2 * k + 3 <= Len(f), f[2 * k + 3] # Part
  PROVE  /\ HeaderGood(f) /\ BlockGood(f, k + 1)
         /\ BlockData(f, k + 1) = Block(d, k + 1)
         /\ k * BlockSize < Len(d)
  <1> DEFINE b == Block(d, k + 1)
             j == 2 * k + 2
  <1>1. /\ f[1] = Segment(d, 1)
        /\ f[2 * k + 2] = Segment(d, 2 * k + 2)
        /\ f[2 * k + 3] = Segment(d, 2 * k + 3)
    <2>1. 1 # Len(f) /\ 2 * k + 2 # Len(f) /\ 1 \in 1..Len(f) /\ 2 * k + 2 \in 1..Len(f)
          /\ 2 * k + 3 \in 1..Len(f)
      OBVIOUS
    <2> QED  BY <2>1 DEF LeftOf
  <1>2. f[1] = Header(BlockSize)
    BY <1>1 DEF Segment
  <1>3. HeaderGood(f) /\ f[1].blockSize = BlockSize
    BY <1>2, FormatAssumption DEF HeaderGood, Header
  <1>4. k * BlockSize < Len(d)
    <2>1. 2 * k + 2 \in 2..Len(f) /\ (2 * k + 2) \div 2 - 1 = k
      OBVIOUS
    <2> QED  BY <2>1 DEF LeftOf
  <1>5. /\ b \in Seq(Byte) /\ Len(b) \in 1..BlockSize
        /\ EncSize(b) \in 0..Bound(BlockSize) /\ Len(b) \in 0..Bound(BlockSize)
    <2>1. b \in Seq(Byte) /\ Len(b) \in 1..BlockSize /\ EncSize(b) \in 0..Bound(BlockSize)
      BY <1>4, BlockBytes
    <2>2. BlockSize <= Bound(BlockSize) /\ BlockSize \in Nat /\ Bound(BlockSize) \in Int
      BY BlockSizePositive DEF Bound
    <2> QED  BY <2>1, <2>2
  <1>6. /\ f[j] = BlockHeader(EncSize(b), Len(b))
        /\ f[j + 1] = Payload(EncSize(b), Enc(b))
    <2>1. j + 1 = 2 * k + 3
      OBVIOUS
    <2> QED  BY <1>1, <2>1, BlockSegments
  <1> HIDE DEF b
  <1>7. /\ f[j].newSize = EncSize(b) /\ f[j].origSize = Len(b)
        /\ f[j + 1].kind = "payload" /\ f[j + 1].body.tag = "enc" /\ f[j + 1].body.data = b
    BY <1>6 DEF BlockHeader, Payload, Enc
  <1>8. j + 1 <= Len(f) /\ j = 2 * k + 2 /\ Len(b) <= BlockSize
    BY <1>5
  <1> HIDE DEF j
  <1>9. SizesInBounds(f[j], f[1].blockSize)
    BY <1>3, <1>5, <1>7 DEF SizesInBounds
  <1>10. BlockGood(f, k + 1) /\ BlockData(f, k + 1) = f[j + 1].body.data
    BY <1>3, <1>7, <1>8, <1>9, BlockGoodAt, ZenonT(60)
  <1> QED  BY <1>3, <1>4, <1>7, <1>10 DEF b

(* The first m blocks of d hold its first m * BlockSize bytes.               *)
LEMMA BytesOfBlocks ==
  ASSUME NEW d \in Seq(Byte), NEW f, NEW m \in Nat,
         \A k \in Nat : k < m => /\ k * BlockSize < Len(d)
                                 /\ BlockData(f, k + 1) = Block(d, k + 1)
  PROVE  Bytes(f, m) = SubSeq(d, 1, MinOf(m * BlockSize, Len(d)))
  <1> DEFINE Agrees(x) == Bytes(f, x) = SubSeq(d, 1, MinOf(x * BlockSize, Len(d)))
             T        == {x \in Nat : x <= m => Agrees(x)}
  <1>1. Len(d) \in Nat /\ BlockSize \in Nat \ {0}
    BY LenProperties, BlockSizePositive
  <1>2. 0 \in T
    <2>1. MinOf(0 * BlockSize, Len(d)) = 0
      BY <1>1 DEF MinOf
    <2>2. Agrees(0)
      <3>1. SubSeq(d, 1, 0) = <<>>
        BY SubSeqEmpty
      <3> QED  BY <2>1, <3>1, BytesNone
    <2> HIDE DEF Agrees
    <2> QED  BY <2>2
  <1>3. ASSUME NEW x \in T PROVE x + 1 \in T
    <2>1. x \in Nat /\ x + 1 \in Nat
      OBVIOUS
    <2>2. CASE ~(x + 1 <= m)
      BY <2>1, <2>2
    <2>3. CASE x + 1 <= m
      <3>1. x <= m /\ x < m
        BY <2>1, <2>3
      <3>2. Agrees(x)
        BY <3>1
      <3> DEFINE p == x * BlockSize
                 t == MinOf((x + 1) * BlockSize, Len(d))
      <3>3. p \in Nat /\ p < Len(d) /\ (x + 1) * BlockSize = p + BlockSize
        BY <1>1, <2>1, <3>1, MulNatural, MulSuccessor
      <3>4. MinOf(x * BlockSize, Len(d)) = p
        BY <1>1, <3>3 DEF MinOf
      <3>5. t \in p..Len(d)
        BY <1>1, <3>3 DEF MinOf
      <3>6. BlockData(f, x + 1) = SubSeq(d, p + 1, t)
        BY <2>1, <3>1, <3>3, BlockBytes
      <3>7. Bytes(f, x + 1) = Bytes(f, x) \o BlockData(f, x + 1)
        <4>1. \A k \in 1..x + 1 : BlockData(f, k) \in Seq(Byte)
          <5> SUFFICES ASSUME NEW k \in 1..x + 1 PROVE BlockData(f, k) \in Seq(Byte)
            OBVIOUS
          <5> DEFINE l == k - 1
          <5>1. l \in Nat /\ l < m /\ k = l + 1
            BY <2>1, <2>3
          <5> HIDE DEF l
          <5>2. BlockData(f, l + 1) = Block(d, l + 1) /\ Block(d, l + 1) \in Seq(Byte)
            BY <5>1, BlockBytes
          <5> QED  BY <5>1, <5>2
        <4> QED  BY <2>1, <4>1, BytesNext
      <3> HIDE DEF p, t, T
      <3>8. SubSeq(d, 1, p) \o SubSeq(d, p + 1, t) = SubSeq(d, 1, t)
        <4>1. 1 \in 1..Len(d) + 1 /\ p \in 1 - 1..Len(d) /\ t \in p..Len(d)
          BY <1>1, <3>3, <3>5
        <4> QED  BY <4>1, ConcatAdjacentSubSeq
      <3>9. Bytes(f, x + 1) = SubSeq(d, 1, t)
        BY <3>2, <3>4, <3>6, <3>7, <3>8
      <3>10. Agrees(x + 1)
        BY <3>9 DEF t
      <3> HIDE DEF Agrees
      <3> QED  BY <2>1, <3>10 DEF T
    <2> QED  BY <2>2, <2>3
  <1>4. T = Nat
    <2> HIDE DEF T
    <2>1. T \in SUBSET Nat
      BY DEF T
    <2> QED  BY <1>2, <1>3, <2>1, InductionInSet
  <1>5. m \in T
    <2> HIDE DEF T
    <2> QED  BY <1>4
  <1> QED  BY <1>5

(* What is left of a stream holds the first bytes of what was written.       *)
LEMMA ContentOfLeft ==
  ASSUME NEW d \in Seq(Byte), NEW f \in Seq(SinkSegments), LeftOf(d, f)
  PROVE  /\ GoodBlocks(f) \in Nat
         /\ Content(f) = SubSeq(d, 1, MinOf(GoodBlocks(f) * BlockSize, Len(d)))
  <1>1. IsFile(f) /\ Len(f) \in Nat /\ Len(d) \in Nat /\ BlockSize \in Nat \ {0}
    BY LeftIsFile, FileProperties, LenProperties, BlockSizePositive
  <1> DEFINE g == GoodBlocks(f)
  <1>2. CASE ~HeaderGood(f)
    <2>1. g = 0 /\ Content(f) = <<>>
      BY <1>2, NoHeader DEF GoodBlocks
    <2>2. MinOf(0 * BlockSize, Len(d)) = 0
      BY <1>1 DEF MinOf
    <2> QED  BY <2>1, <2>2, SubSeqEmpty
  <1>3. CASE HeaderGood(f)
    <2>1. g \in Nat /\ GoodUpTo(f, g)
      BY <1>1, <1>3, GoodBlocksProperties
    <2> HIDE DEF g
    <2>2. ASSUME NEW k \in Nat, k < g
          PROVE  k * BlockSize < Len(d) /\ BlockData(f, k + 1) = Block(d, k + 1)
      <3>1. BlockGood(f, k + 1)
        BY <2>1, <2>2 DEF GoodUpTo
      <3>2. 2 * k + 3 <= Len(f) /\ f[2 * k + 3].kind = "payload"
        <4>1. 2 * (k + 1) + 1 = 2 * k + 3
          OBVIOUS
        <4> QED  BY <3>1, <4>1 DEF BlockGood
      <3>3. f[2 * k + 3] # Part
        BY <3>2 DEF Part
      <3> QED  BY <1>1, <3>2, <3>3, LeftBlock
    <2>3. Bytes(f, g) = SubSeq(d, 1, MinOf(g * BlockSize, Len(d)))
      BY <2>1, <2>2, BytesOfBlocks
    <2> QED  BY <2>1, <2>3 DEF Content, g
  <1> QED  BY <1>2, <1>3

(* It is a beginning of them, cut between two blocks or not at all.          *)
LEMMA MultipleDivides == ASSUME NEW q \in Nat, NEW w \in Nat \ {0} PROVE (q * w) % w = 0
  OBVIOUS

LEMMA LeftDecodes ==
  ASSUME NEW d \in Seq(Byte), NEW f \in Seq(SinkSegments), LeftOf(d, f)
  PROVE  /\ IsPrefix(Content(f), d)
         /\ Content(f) = d \/ Len(Content(f)) % BlockSize = 0
         /\ Len(Content(f)) = MinOf(GoodBlocks(f) * BlockSize, Len(d))
  <1> DEFINE p == GoodBlocks(f) * BlockSize
             t == MinOf(p, Len(d))
  <1>1. GoodBlocks(f) \in Nat /\ Content(f) = SubSeq(d, 1, t)
    BY ContentOfLeft
  <1>2. p \in Nat /\ Len(d) \in Nat /\ p % BlockSize = 0
    BY <1>1, BlockSizePositive, MulNatural, LenProperties, MultipleDivides
  <1> HIDE DEF p
  <1>3. t \in 0..Len(d) /\ (t = p \/ t = Len(d))
    BY <1>2 DEF MinOf
  <1> HIDE DEF t
  <1>4. Len(SubSeq(d, 1, t)) = t
    BY <1>3, PrefixProperties
  <1>5. SubSeq(d, 1, Len(d)) = d
    BY SubSeqFull
  <1>6. SubSeq(SubSeq(d, 1, t), 1, t) = SubSeq(d, 1, t)
    BY <1>3, <1>4, PrefixProperties, SubSeqFull
  <1>7. IsPrefix(Content(f), d)
    BY <1>1, <1>3, <1>4, <1>6, SMTT(40) DEF IsPrefix
  <1>8. Content(f) = d \/ Len(Content(f)) % BlockSize = 0
    BY <1>1, <1>2, <1>3, <1>4, <1>5
  <1> QED  BY <1>1, <1>4, <1>7, <1>8 DEF t, p

-----------------------------------------------------------------------------
(* No segment is of a block without bytes, and the blocks counted are there. *)
Sent ==
  /\ \A j \in 2..Len(sink) : (j \div 2 - 1) * BlockSize < taken
  /\ blockCount > 0 => /\ 1 + 2 * blockCount <= Len(sink)
                       /\ \A j \in 1..1 + 2 * blockCount : sink[j] # Part

LEMMA InitSent == Init => Sent
  BY DEF Init, Sent

(* A segment more, of block j \div 2. *)
LEMMA SentMore ==
  ASSUME IInv, Sent, NEW seg, sink' \in {sink, Append(sink, seg), Append(sink, Part)},
         taken' = taken, blockCount' = blockCount,
         Len(sink) = 0 \/ ((Len(sink) + 1) \div 2 - 1) * BlockSize < taken
  PROVE  Sent'
  <1>1. sink \in Seq(SinkSegments) /\ Len(sink) \in Nat /\ blockCount \in Nat
    BY LenProperties DEF IInv, TypeOK
  <1>2. CASE sink' = sink
    BY <1>2 DEF Sent
  <1>3. ASSUME NEW s, sink' = Append(sink, s) PROVE Sent'
    <2>1. /\ Len(sink') = Len(sink) + 1
          /\ \A j \in 1..Len(sink) : sink'[j] = sink[j]
      BY <1>1, <1>3, SinkGrows
    <2>2. ASSUME NEW j \in 2..Len(sink') PROVE (j \div 2 - 1) * BlockSize < taken'
      <3>1. CASE j = Len(sink) + 1
        BY <1>1, <2>1, <3>1
      <3>2. CASE j # Len(sink) + 1
        <4>1. j \in 2..Len(sink)
          BY <1>1, <2>1, <3>2
        <4> QED  BY <4>1 DEF Sent
      <3> QED  BY <3>1, <3>2
    <2>3. blockCount' > 0 => /\ 1 + 2 * blockCount' <= Len(sink')
                             /\ \A j \in 1..1 + 2 * blockCount' : sink'[j] # Part
      <3> SUFFICES ASSUME blockCount > 0
                   PROVE  /\ 1 + 2 * blockCount <= Len(sink')
                          /\ \A j \in 1..1 + 2 * blockCount : sink'[j] # Part
        OBVIOUS
      <3>1. 1 + 2 * blockCount <= Len(sink)
        BY DEF Sent
      <3>2. \A j \in 1..1 + 2 * blockCount : sink[j] # Part
        BY DEF Sent
      <3>3. \A j \in 1..1 + 2 * blockCount : j \in 1..Len(sink)
        BY <1>1, <3>1
      <3> QED  BY <1>1, <2>1, <3>1, <3>2, <3>3
    <2> QED  BY <2>2, <2>3 DEF Sent
  <1> QED  BY <1>2, <1>3

LEMMA SentStep == ASSUME IInv, Sent, [Next]_vars PROVE Sent'
  <1>1. CASE CallWrite \/ CallClose \/ WriteReturns \/ CloseFlush \/ CloseReturns \/ UNCHANGED vars
    <2>1. UNCHANGED <<sink, taken, blockCount>>
      BY <1>1 DEF CallWrite, CallClose, Call, WriteReturns, CloseFlush, CloseReturns, vars
    <2> QED  BY <2>1 DEF Sent
  <1>2. CASE WriteHeader
    <2>1. pc = "header" /\ sink = <<>> /\ Len(sink) = 0
      BY <1>2 DEF WriteHeader, IInv, Position
    <2> QED  BY <1>2, <2>1, SentMore DEF WriteHeader, SinkTakes, SinkFails
  <1>3. CASE Copy
    <2>1. taken <= taken' /\ taken \in Nat /\ taken' \in Int /\ UNCHANGED <<sink, blockCount>>
      <3>1. n \in Nat /\ n <= BlockSize /\ taken \in Nat /\ given \in Nat /\ taken < given
        BY <1>3, BlockSizePositive, InputAssumption, LenProperties DEF IInv, TypeOK, Copy
      <3> QED  BY <1>3, <3>1, BlockSizePositive DEF Copy, MinOf
    <2>2. \A j \in 2..Len(sink) : (j \div 2 - 1) * BlockSize \in Int
      BY BlockSizePositive, MulSuccessor
    <2> QED  BY <2>1, <2>2, SMTT(40) DEF Sent
  <1>4. CASE FlushHeader
    <2>1. /\ err = "nil" /\ wroteHdr /\ n > 0 /\ taken = blockCount * BlockSize + n
          /\ Len(sink) = 1 + 2 * blockCount /\ blockCount \in Nat /\ n \in Nat
      BY <1>4, BlockSizePositive DEF FlushHeader, IInv, Position, Buffered, TypeOK
    <2>2. (Len(sink) + 1) \div 2 - 1 = blockCount
      BY <2>1
    <2>3. blockCount * BlockSize < taken
      BY <2>1, BlockSizePositive, MulNatural
    <2> QED  BY <1>4, <2>2, <2>3, SentMore DEF FlushHeader, SinkTakes, SinkFails
  <1>5. CASE FlushPayload
    <2>1. /\ err = "nil" /\ wroteHdr /\ taken = blockCount * BlockSize + Len(buf.data)
          /\ Len(sink) = 2 + 2 * blockCount /\ blockCount \in Nat /\ Len(buf.data) \in 1..BlockSize
      BY <1>5 DEF FlushPayload, IInv, Position, TypeOK
    <2>2. (Len(sink) + 1) \div 2 - 1 = blockCount
      BY <2>1
    <2>3. blockCount * BlockSize < taken
      <3>1. blockCount * BlockSize \in Nat
        BY <2>1, BlockSizePositive, MulNatural
      <3> DEFINE p == blockCount * BlockSize
                 l == Len(buf.data)
      <3>2. taken = p + l /\ p \in Nat /\ l \in Nat /\ l >= 1
        BY <2>1, <3>1
      <3> HIDE DEF p, l
      <3>3. p < taken
        BY <3>2
      <3> QED  BY <3>3 DEF p
    <2>4. CASE SinkFails /\ UNCHANGED blockCount
      BY <1>5, <2>2, <2>3, <2>4, SentMore DEF FlushPayload, SinkFails
    <2> DEFINE seg == Payload(EncSize(buf.data), buf)
    <2>5. CASE SinkTakes(seg) /\ blockCount' = blockCount + 1
      <3>1. /\ Len(sink') = Len(sink) + 1 /\ sink'[Len(sink) + 1] = seg
            /\ \A j \in 1..Len(sink) : sink'[j] = sink[j]
        BY <2>5, SinkGrows DEF SinkTakes, IInv, TypeOK
      <3>2. \A j \in 1..Len(sink) : sink[j] # Part
        BY <2>1, SegmentKind DEF IInv, SinkIsStreamPrefix
      <3>3. seg # Part
        BY DEF Payload, Part
      <3> HIDE DEF seg
      <3>4. \A j \in 1..1 + 2 * blockCount' : sink'[j] # Part
        BY <2>1, <2>5, <3>1, <3>2, <3>3
      <3>5. ASSUME NEW j \in 2..Len(sink') PROVE (j \div 2 - 1) * BlockSize < taken'
        <4>0. taken' = taken
          BY <1>5 DEF FlushPayload
        <4>1. CASE j = Len(sink) + 1
          BY <2>2, <2>3, <4>0, <4>1
        <4>2. CASE j # Len(sink) + 1
          <5>1. j \in 2..Len(sink)
            BY <2>1, <3>1, <4>2
          <5> QED  BY <4>0, <5>1 DEF Sent
        <4> QED  BY <4>1, <4>2
      <3>6. 1 + 2 * blockCount' <= Len(sink')
        BY <2>1, <2>5, <3>1
      <3> QED  BY <3>4, <3>5, <3>6 DEF Sent
    <2> QED  BY <1>5, <2>4, <2>5 DEF FlushPayload
  <1> QED  BY <1>1, <1>2, <1>3, <1>4, <1>5 DEF Next, Step

-----------------------------------------------------------------------------
(* The bytes that have been taken. *)
LEMMA DataProperties ==
  ASSUME TypeOK
  PROVE  Data \in Seq(Byte) /\ Len(Data) = taken /\ taken \in Nat
  <1>1. taken \in 0..Len(Input) /\ taken \in Nat
    BY InputAssumption, LenProperties DEF TypeOK
  <1> QED  BY <1>1, InputAssumption, PrefixProperties DEF Data

LEMMA SinkIsLeft == ASSUME IInv, Sent PROVE LeftOf(Data, sink)
  BY DataProperties DEF IInv, SinkIsStreamPrefix, Sent, LeftOf

(* What is left of a stream, cut, is what is left of it, too. *)
LEMMA CutSegments ==
  ASSUME NEW d \in Seq(Byte), NEW s \in Seq(SinkSegments), LeftOf(d, s), NEW f,
         \/ \E k \in 0..Len(s) : f = SubSeq(s, 1, k)
         \/ \E k \in 0..Len(s) - 1 : f = Append(SubSeq(s, 1, k), Part)
  PROVE  f \in Seq(SinkSegments) /\ LeftOf(d, f)
  <1>1. Len(s) \in Nat /\ Part \in SinkSegments
    BY LenProperties DEF SinkSegments, Segments
  <1>2. ASSUME NEW k \in 0..Len(s), f = SubSeq(s, 1, k)
        PROVE  f \in Seq(SinkSegments) /\ LeftOf(d, f)
    <2>1. f \in Seq(SinkSegments) /\ Len(f) = k /\ \A j \in 1..k : f[j] = s[j]
      BY <1>2, PrefixProperties, SubSeqProperties
    <2>2. ASSUME NEW j \in 1..Len(f)
          PROVE  f[j] = Segment(d, j) \/ (f[j] = Part /\ j = Len(f))
      <3>1. j \in 1..Len(s) /\ f[j] = s[j] /\ (j = Len(s) => j = Len(f))
        BY <1>1, <2>1
      <3> QED  BY <3>1 DEF LeftOf
    <2>3. ASSUME NEW j \in 2..Len(f) PROVE (j \div 2 - 1) * BlockSize < Len(d)
      <3>1. j \in 2..Len(s)
        BY <1>1, <2>1
      <3> QED  BY <3>1 DEF LeftOf
    <2> QED  BY <2>1, <2>2, <2>3 DEF LeftOf
  <1>3. ASSUME NEW k \in 0..Len(s) - 1, f = Append(SubSeq(s, 1, k), Part)
        PROVE  f \in Seq(SinkSegments) /\ LeftOf(d, f)
    <2> DEFINE h == SubSeq(s, 1, k)
    <2>1. h \in Seq(SinkSegments) /\ Len(h) = k /\ \A j \in 1..k : h[j] = s[j]
      BY <1>1, PrefixProperties, SubSeqProperties
    <2>2. f = Append(h, Part)
      BY <1>3
    <2>3. k + 1 <= Len(s) /\ k \in Nat
      BY <1>1
    <2> HIDE DEF h
    <2>4. /\ f \in Seq(SinkSegments) /\ Len(f) = k + 1 /\ f[k + 1] = Part
          /\ \A j \in 1..k : f[j] = s[j]
      BY <1>1, <2>1, <2>2, AppendProperties
    <2>5. ASSUME NEW j \in 1..Len(f)
          PROVE  f[j] = Segment(d, j) \/ (f[j] = Part /\ j = Len(f))
      <3>1. CASE j = k + 1
        BY <2>4, <3>1
      <3>2. CASE j # k + 1
        <4>1. j \in 1..Len(s) /\ j # Len(s) /\ f[j] = s[j]
          BY <1>1, <2>3, <2>4, <3>2
        <4> QED  BY <4>1 DEF LeftOf
      <3> QED  BY <3>1, <3>2
    <2>6. ASSUME NEW j \in 2..Len(f) PROVE (j \div 2 - 1) * BlockSize < Len(d)
      <3>1. j \in 2..Len(s)
        BY <1>1, <2>3, <2>4
      <3> QED  BY <3>1 DEF LeftOf
    <2> QED  BY <2>4, <2>5, <2>6 DEF LeftOf
  <1> QED  BY <1>2, <1>3

LEMMA RemainsAreLeft ==
  ASSUME IInv, Sent, NEW f \in Remains
  PROVE  f \in Seq(SinkSegments) /\ LeftOf(Data, f)
  <1>1. sink \in Seq(SinkSegments) /\ LeftOf(Data, sink) /\ Data \in Seq(Byte)
    BY SinkIsLeft, DataProperties DEF IInv, TypeOK
  <1>2. \/ \E k \in 0..Len(sink) : f = SubSeq(sink, 1, k)
        \/ \E k \in 0..Len(sink) - 1 : f = Append(SubSeq(sink, 1, k), Part)
    BY DEF Remains
  <1> QED  BY <1>1, <1>2, CutSegments

(* The blocks counted are good. *)
LEMMA CountedAreGood == ASSUME IInv, Sent PROVE blockCount <= GoodBlocks(sink)
  <1>1. /\ sink \in Seq(SinkSegments) /\ Len(sink) \in Nat /\ LeftOf(Data, sink)
        /\ Data \in Seq(Byte) /\ blockCount \in Nat /\ IsFile(sink)
    BY SinkIsLeft, LenProperties, DataProperties, LeftIsFile DEF IInv, TypeOK
  <1>2. CASE blockCount = 0
    BY <1>1, <1>2, ContentOfLeft
  <1>3. CASE blockCount # 0
    <2>1. /\ 1 + 2 * blockCount <= Len(sink)
          /\ \A j \in 1..1 + 2 * blockCount : sink[j] # Part
      BY <1>1, <1>3 DEF Sent
    <2>2. ASSUME NEW k \in 1..blockCount PROVE HeaderGood(sink) /\ BlockGood(sink, k)
      <3> DEFINE l == k - 1
      <3>1. l \in Nat /\ k = l + 1 /\ 2 * l + 3 \in 1..1 + 2 * blockCount
        BY <1>1
      <3> HIDE DEF l
      <3>2. 2 * l + 3 <= Len(sink) /\ sink[2 * l + 3] # Part
        BY <1>1, <2>1, <3>1
      <3> QED  BY <1>1, <3>1, <3>2, LeftBlock
    <2>3. 1 \in 1..blockCount
      BY <1>1, <1>3
    <2>4. HeaderGood(sink) /\ GoodUpTo(sink, blockCount)
      BY <2>2, <2>3 DEF GoodUpTo
    <2> QED  BY <1>1, <2>4, GoodBlocksProperties
  <1> QED  BY <1>2, <1>3

(* The whole stream is intact and holds every byte. *)
LEMMA WholeStream ==
  ASSUME NEW d \in Seq(Byte), NEW s \in Seq(SinkSegments), LeftOf(d, s), s = Stream(d)
  PROVE  Intact(s) /\ Content(s) = d
  <1> DEFINE m   == NumBlocks(d)
             g   == GoodBlocks(s)
             len == Len(d)
  <1>1. Len(s) \in Nat /\ IsFile(s) /\ len \in Nat /\ BlockSize \in Nat \ {0}
    BY LenProperties, LeftIsFile, BlockSizePositive
  <1>2. m \in Nat /\ len <= m * BlockSize
    <2>1. len + BlockSize - 1 \in Nat
      BY <1>1
    <2> DEFINE x == len + BlockSize - 1
    <2>2. x \div BlockSize \in Int /\ x < BlockSize * (x \div BlockSize) + BlockSize
      BY <1>1, <2>1, QuotientBounds
    <2>3. m = x \div BlockSize
      BY <1>1 DEF NumBlocks
    <2>4. m \in Int /\ x < BlockSize * m + BlockSize
      BY <2>2, <2>3
    <2>5. x \div BlockSize >= 0
      BY <1>1, <2>1
    <2>6. BlockSize * m = m * BlockSize /\ BlockSize * m \in Int
      BY <1>1, <2>4, MulSuccessor
    <2> HIDE DEF m
    <2> QED  BY <1>1, <2>3, <2>4, <2>5, <2>6
  <1> HIDE DEF m
  <1>3. Len(s) = 1 + 2 * m /\ \A j \in 1..Len(s) : s[j] = Segment(d, j)
    BY <1>1, <1>2 DEF Stream, m
  <1>4. s[1] = Header(BlockSize) /\ s # <<>>
    BY <1>1, <1>2, <1>3 DEF Segment
  <1>5. HeaderGood(s)
    BY <1>4, FormatAssumption DEF HeaderGood, Header
  <1>6. GoodUpTo(s, m)
    <2> SUFFICES ASSUME NEW k \in 1..m PROVE BlockGood(s, k)
      BY DEF GoodUpTo
    <2> DEFINE l == k - 1
    <2>1. l \in Nat /\ k = l + 1 /\ 2 * l + 3 \in 1..Len(s)
      BY <1>2, <1>3
    <2> HIDE DEF l
    <2>2. 2 * l + 3 <= Len(s) /\ s[2 * l + 3] # Part
      BY <1>1, <1>3, <2>1, SegmentKind
    <2> QED  BY <1>1, <2>1, <2>2, LeftBlock
  <1>7. g = m
    <2>1. g \in Nat /\ m <= g /\ GoodUpTo(s, g)
      BY <1>1, <1>2, <1>5, <1>6, GoodBlocksProperties
    <2> HIDE DEF g
    <2>2. CASE g = 0
      BY <1>2, <2>1, <2>2
    <2>3. CASE g # 0
      <3>1. BlockGood(s, g)
        BY <2>1, <2>3 DEF GoodUpTo
      <3>2. 2 * g + 1 <= Len(s)
        BY <3>1 DEF BlockGood
      <3> QED  BY <1>2, <1>3, <2>1, <3>2
    <2> QED  BY <2>2, <2>3
  <1>8. Content(s) = SubSeq(d, 1, MinOf(m * BlockSize, len))
    BY <1>7, ContentOfLeft
  <1>9. MinOf(m * BlockSize, len) = len
    BY <1>1, <1>2, MulNatural DEF MinOf
  <1>10. SubSeq(d, 1, len) = d
    BY SubSeqFull
  <1> QED  BY <1>3, <1>5, <1>7, <1>8, <1>9, <1>10 DEF Intact

LEMMA ClosedIsIntact ==
  ASSUME IInv, Sent, err = "closed"
  PROVE  Intact(sink) /\ Content(sink) = SubSeq(Input, 1, given)
  <1>1. /\ sink \in Seq(SinkSegments) /\ LeftOf(Data, sink) /\ Data \in Seq(Byte)
        /\ sink = Stream(Data) /\ taken = given
    BY SinkIsLeft, DataProperties DEF IInv, TypeOK, Position
  <1> QED  BY <1>1, WholeStream DEF Data

(***************************************************************************)
(* Wherever the writing program stops and wherever the file is then cut,   *)
(* what a decoder gets back is a beginning of what was written, cut        *)
(* between two blocks; the blocks counted are all there, and after Close   *)
(* has returned nil so is every byte (writer.go).                          *)
(***************************************************************************)
THEOREM StoppedWriterIsRecoverable == Spec => []StoppedStreamDecodes
  <1>1. Init => Sent
    BY InitSent
  <1>2. IInv /\ Sent /\ [Next]_vars => Sent'
    BY SentStep
  <1>3. IInv /\ Sent => StoppedStreamDecodes
    <2> SUFFICES ASSUME IInv, Sent PROVE StoppedStreamDecodes
      OBVIOUS
    <2>1. /\ Data \in Seq(Byte) /\ Len(Data) = taken /\ taken \in Nat /\ blockCount \in Nat
          /\ sink \in Seq(SinkSegments) /\ LeftOf(Data, sink) /\ BlockSize \in Nat \ {0}
      BY DataProperties, SinkIsLeft, BlockSizePositive DEF IInv, TypeOK
    <2>2. ASSUME NEW f \in Remains
          PROVE  /\ IsPrefix(Content(f), Data)
                 /\ Intact(f) => Content(f) = Data \/ Len(Content(f)) % BlockSize = 0
      BY <2>1, <2>2, RemainsAreLeft, LeftDecodes
    <2>3. Len(Content(sink)) >= MinOf(blockCount * BlockSize, taken)
      <3>1. /\ Len(Content(sink)) = MinOf(GoodBlocks(sink) * BlockSize, taken)
            /\ GoodBlocks(sink) \in Nat /\ blockCount <= GoodBlocks(sink)
        BY <2>1, LeftDecodes, ContentOfLeft, CountedAreGood
      <3>2. /\ blockCount * BlockSize <= GoodBlocks(sink) * BlockSize
            /\ blockCount * BlockSize \in Nat /\ GoodBlocks(sink) * BlockSize \in Nat
        BY <2>1, <3>1, MulMonotonic, MulNatural
      <3> DEFINE p == blockCount * BlockSize
                 q == GoodBlocks(sink) * BlockSize
      <3> HIDE DEF p, q
      <3>3. p <= q /\ p \in Nat /\ q \in Nat
        BY <3>2 DEF p, q
      <3>4. MinOf(q, taken) >= MinOf(p, taken)
        BY <2>1, <3>3 DEF MinOf
      <3> QED  BY <3>1, <3>4 DEF p, q
    <2>4. err = "closed" => Intact(sink) /\ Content(sink) = SubSeq(Input, 1, given)
      BY ClosedIsIntact
    <2> QED  BY <2>2, <2>3, <2>4 DEF StoppedStreamDecodes
  <1> QED  BY <1>1, <1>2, <1>3, WriterInvariant, PTL DEF Spec

-----------------------------------------------------------------------------
(* The command line.                                                         *)
LEMMA FeedsAre == UserData \in Feeds /\ HeaderBytes \in Feeds /\ Feeds \subseteq Seq(Byte)
  BY CommandLineAssumption DEF Feeds

LEMMA UserDataAre == UserData \in Seq(Byte)
  BY FeedsAre

(* Its files are those of the format. *)
LEMMA FileHeaderGood == ASSUME NEW f PROVE Decoder!HeaderGood(f) <=> HeaderGood(f)
  BY DEF HeaderGood, Decoder!HeaderGood, ValidBlockSize, Decoder!ValidBlockSize

LEMMA FileBlockGood == ASSUME NEW f, NEW k PROVE Decoder!BlockGood(f, k) <=> BlockGood(f, k)
  BY DEF BlockGood, Decoder!BlockGood, Bound, Decoder!Bound

LEMMA FileGoodBlocks == ASSUME NEW f PROVE Decoder!GoodBlocks(f) = GoodBlocks(f)
  <1>1. {m \in 0..Len(f) : \A k \in 1..m : Decoder!BlockGood(f, k)}
          = {m \in 0..Len(f) : \A k \in 1..m : BlockGood(f, k)}
    BY FileBlockGood
  <1>2. ASSUME NEW T PROVE Decoder!Max(T) = Max(T)
    BY DEF Max, Decoder!Max
  <1> DEFINE T == {m \in 0..Len(f) : \A k \in 1..m : BlockGood(f, k)}
  <1>3. GoodBlocks(f) = IF HeaderGood(f) THEN Max(T) ELSE 0
    BY DEF GoodBlocks
  <1>4. Decoder!GoodBlocks(f) = IF Decoder!HeaderGood(f) THEN Decoder!Max(T) ELSE 0
    BY <1>1 DEF Decoder!GoodBlocks
  <1> HIDE DEF T
  <1> QED  BY <1>2, <1>3, <1>4, FileHeaderGood

LEMMA FileContent == ASSUME NEW f PROVE Decoder!Content(f) = Content(f)
  <1>1. ASSUME NEW ss PROVE Decoder!FlattenSeq(ss) = FlattenSeq(ss)
    BY DEF FlattenSeq, Decoder!FlattenSeq
  <1> QED  BY <1>1, FileGoodBlocks
           DEF Content, Decoder!Content, Bytes, Decoder!Bytes, BlockData, Decoder!BlockData

LEMMA FileIntact == ASSUME NEW f PROVE Decoder!Intact(f) <=> Intact(f)
  BY FileHeaderGood, FileGoodBlocks DEF Intact, Decoder!Intact

LEMMA FileSegments ==
  ASSUME NEW d
  PROVE  /\ \A j : Decoder!Segment(d, j) = Segment(d, j)
         /\ Decoder!Part = Part
  <1>1. \A j : Decoder!Segment(d, j) = Segment(d, j)
    BY DEF Segment, Block, MinOf, Header, BlockHeader, Payload, Enc,
       Decoder!Segment, Decoder!Block, Decoder!MinOf, Decoder!Header,
       Decoder!BlockHeader, Decoder!Payload, Decoder!Enc
  <1>2. Decoder!Part = Part
    BY DEF Part, Decoder!Part
  <1> QED  BY <1>1, <1>2

LEMMA EncoderSegments ==
  ASSUME NEW e, NEW d
  PROVE  /\ \A j : Encoder(e)!Segment(d, j) = Segment(d, j)
         /\ Encoder(e)!Part = Part
         /\ Encoder(e)!Stream(d) = Stream(d)
  <1>1. \A j : Encoder(e)!Segment(d, j) = Segment(d, j)
    BY DEF Segment, Block, MinOf, Header, BlockHeader, Payload, Enc,
       Encoder!Segment, Encoder!Block, Encoder!MinOf, Encoder!Header,
       Encoder!BlockHeader, Encoder!Payload, Encoder!Enc
  <1>2. Encoder(e)!Part = Part
    BY DEF Part, Encoder!Part
  <1>3. Encoder(e)!Stream(d) = Stream(d)
    BY <1>1 DEF Stream, NumBlocks, Encoder!Stream, Encoder!NumBlocks
  <1> QED  BY <1>1, <1>2, <1>3

LEMMA FileLeftOf == ASSUME NEW d, NEW f PROVE Decoder!LeftOf(d, f) <=> LeftOf(d, f)
  BY FileSegments DEF LeftOf, Decoder!LeftOf

LEMMA FileSinkSegments == ArchiveSegments = SinkSegments
  BY DEF ArchiveSegments, SinkSegments, Segments, Part

-----------------------------------------------------------------------------
(* Beginnings of a sequence of bytes. *)
LEMMA BeginningIs ==
  ASSUME NEW s \in Seq(Byte), NEW k \in 0..Len(s)
  PROVE  /\ SubSeq(s, 1, k) \in Seq(Byte) /\ Len(SubSeq(s, 1, k)) = k
         /\ IsPrefix(SubSeq(s, 1, k), s)
  <1> DEFINE t == SubSeq(s, 1, k)
  <1>1. t \in Seq(Byte) /\ Len(t) = k /\ Len(s) \in Nat
    BY PrefixProperties, LenProperties
  <1>2. SubSeq(t, 1, k) = t
    BY <1>1, SubSeqFull
  <1> HIDE DEF t
  <1>3. SubSeq(t, 1, Len(t)) = SubSeq(s, 1, Len(t))
    <2>1. SubSeq(s, 1, Len(t)) = t
      BY <1>1 DEF t
    <2> QED  BY <1>1, <1>2, <2>1
  <1> QED  BY <1>1, <1>3 DEF IsPrefix, t

LEMMA PrefixIsBeginning ==
  ASSUME NEW s \in Seq(Byte), NEW t \in Seq(Byte), IsPrefix(t, s)
  PROVE  Len(t) \in 0..Len(s) /\ t = SubSeq(s, 1, Len(t))
  <1>1. Len(t) \in Nat /\ Len(s) \in Nat
    BY LenProperties
  <1>2. Len(t) <= Len(s) /\ SubSeq(t, 1, Len(t)) = SubSeq(s, 1, Len(t))
    BY DEF IsPrefix
  <1>3. SubSeq(t, 1, Len(t)) = t
    BY SubSeqFull
  <1> QED  BY <1>1, <1>2, <1>3

LEMMA BeginningOfBeginning ==
  ASSUME NEW s \in Seq(Byte), NEW k \in 0..Len(s), NEW l \in 0..k
  PROVE  SubSeq(SubSeq(s, 1, k), 1, l) = SubSeq(s, 1, l)
  <1>1. /\ SubSeq(s, 1, k) \in Seq(Byte) /\ Len(SubSeq(s, 1, k)) = k
        /\ SubSeq(s, 1, l) \in Seq(Byte) /\ Len(SubSeq(s, 1, l)) = l
        /\ \A i \in 1..k : SubSeq(s, 1, k)[i] = s[i]
        /\ \A i \in 1..l : SubSeq(s, 1, l)[i] = s[i]
    <2>1. Len(s) \in Nat /\ \A i \in 1..k : s[i] \in Byte
      BY LenProperties, ElementOfSeq
    <2>2. \A i \in 1..l : s[i] \in Byte
      BY <2>1
    <2> QED  BY <2>1, <2>2, SubSeqProperties
  <1> DEFINE t == SubSeq(s, 1, k)
             u == SubSeq(s, 1, l)
  <1>2. /\ t \in Seq(Byte) /\ Len(t) = k /\ u \in Seq(Byte) /\ Len(u) = l
        /\ \A i \in 1..l : u[i] = t[i]
    BY <1>1
  <1> HIDE DEF t, u
  <1>3. /\ SubSeq(t, 1, l) \in Seq(Byte) /\ Len(SubSeq(t, 1, l)) = l
        /\ \A i \in 1..l : SubSeq(t, 1, l)[i] = t[i]
    <2>1. \A i \in 1..l : t[i] \in Byte
      BY <1>2, ElementOfSeq
    <2> QED  BY <2>1, SubSeqProperties
  <1>4. SubSeq(t, 1, l) = u
    BY <1>2, <1>3, SeqEqual
  <1> QED  BY <1>4 DEF t, u

LEMMA PrefixTransitive ==
  ASSUME NEW s \in Seq(Byte), NEW t \in Seq(Byte), NEW u \in Seq(Byte),
         IsPrefix(u, t), IsPrefix(t, s)
  PROVE  IsPrefix(u, s)
  <1>1. Len(t) \in 0..Len(s) /\ t = SubSeq(s, 1, Len(t)) /\ Len(u) \in 0..Len(t)
        /\ u = SubSeq(t, 1, Len(u)) /\ Len(s) \in Nat
    BY PrefixIsBeginning, LenProperties
  <1>2. SubSeq(SubSeq(s, 1, Len(t)), 1, Len(u)) = SubSeq(s, 1, Len(u))
    BY <1>1, BeginningOfBeginning
  <1>3. u = SubSeq(s, 1, Len(u)) /\ Len(u) \in 0..Len(s)
    BY <1>1, <1>2
  <1> QED  BY <1>3, BeginningIs

LEMMA EmptyIsPrefix == ASSUME NEW s \in Seq(Byte) PROVE IsPrefix(<<>>, s)
  <1>1. Len(s) \in Nat /\ 0 \in 0..Len(s) /\ SubSeq(s, 1, 0) = <<>>
    BY LenProperties, SubSeqEmpty
  <1> QED  BY <1>1, BeginningIs

(* The beginnings that the command line speaks of. *)
LEMMA BeginningsAre ==
  ASSUME NEW b
  PROVE  b \in Beginnings <=> b \in Seq(Byte) /\ \E d \in Feeds : IsPrefix(b, d)
  <1>1. ASSUME NEW d \in Feeds
        PROVE  b \in Prefixes(d) <=> b \in Seq(Byte) /\ IsPrefix(b, d)
    <2>1. Prefixes(d) = {SubSeq(d, 1, l) : l \in 0..Len(d)}
      BY DEF Prefixes
    <2>2. d \in Seq(Byte)
      BY FeedsAre
    <2> QED  BY <2>1, <2>2, BeginningIs, PrefixIsBeginning
  <1> QED  BY <1>1 DEF Beginnings

LEMMA BeginningTransitive ==
  ASSUME NEW s \in Beginnings, NEW t \in Seq(Byte), IsPrefix(t, s)
  PROVE  t \in Beginnings
  <1>1. PICK d \in Feeds : s \in Seq(Byte) /\ IsPrefix(s, d)
    BY BeginningsAre
  <1>2. d \in Seq(Byte)
    BY FeedsAre
  <1>3. IsPrefix(t, d)
    BY <1>1, <1>2, PrefixTransitive
  <1> QED  BY <1>3, BeginningsAre

LEMMA FeedsBegin ==
  <<>> \in Beginnings /\ UserData \in Beginnings /\ HeaderBytes \in Beginnings
  <1>1. ASSUME NEW d \in Feeds PROVE d \in Seq(Byte) /\ IsPrefix(d, d) /\ IsPrefix(<<>>, d)
    <2>1. d \in Seq(Byte) /\ Len(d) \in 0..Len(d) /\ SubSeq(d, 1, Len(d)) = d
      BY FeedsAre, LenProperties, SubSeqFull
    <2>2. IsPrefix(SubSeq(d, 1, Len(d)), d)
      BY <2>1, BeginningIs
    <2> QED  BY <2>1, <2>2, EmptyIsPrefix
  <1> QED  BY <1>1, FeedsAre, EmptySeq, BeginningsAre

(* What an archive in the making holds. *)
LEMMA NothingIsLeft == ASSUME NEW d PROVE LeftOf(d, <<>>) /\ LeftOf(d, <<Part>>)
  <1>1. Len(<<>>) = 0 /\ Len(<<Part>>) = 1 /\ <<Part>>[1] = Part
    OBVIOUS
  <1> QED  BY <1>1 DEF LeftOf

LEMMA ArchiveIs ==
  ASSUME NEW s
  PROVE  LeftOfArchive(s) <=>
           /\ s \in Seq(SinkSegments)
           /\ \E d \in Beginnings : d \in Seq(Byte) /\ LeftOf(d, s)
  BY FileSinkSegments, FileLeftOf, BeginningsAre DEF LeftOfArchive

LEMMA ArchiveContent ==
  ASSUME NEW s, LeftOfArchive(s)
  PROVE  /\ s \in Seq(SinkSegments) /\ IsFile(s)
         /\ Content(s) \in Seq(Byte) /\ Content(s) \in Beginnings
  <1>1. PICK d \in Beginnings : d \in Seq(Byte) /\ LeftOf(d, s)
    BY ArchiveIs
  <1>2. s \in Seq(SinkSegments)
    BY ArchiveIs
  <1>3. IsFile(s) /\ IsPrefix(Content(s), d)
    BY <1>1, <1>2, LeftIsFile, LeftDecodes
  <1> QED  BY <1>1, <1>2, <1>3, ContentType, BeginningTransitive

LEMMA TrivialArchives == LeftOfArchive(<<>>) /\ LeftOfArchive(<<Part>>)
  <1>1. <<>> \in Seq(SinkSegments) /\ <<Part>> \in Seq(SinkSegments) /\ <<>> \in Seq(Byte)
    <2>1. Part \in SinkSegments
      BY DEF SinkSegments, Segments
    <2> QED  BY <2>1, EmptySeq
  <1> QED  BY <1>1, FeedsBegin, NothingIsLeft, ArchiveIs

(* The files that are made from the data. *)
LEMMA MadePlain ==
  ASSUME NEW b \in Beginnings
  PROVE  Made(Plain(b)) /\ Plain(b) # Absent
  BY DEF Made, Plain, Absent

LEMMA ArchiveForm ==
  ASSUME NEW s
  PROVE  /\ s = <<>> => Archive(s) = Plain(<<>>)
         /\ s # <<>> => /\ Archive(s).form = "archive" /\ Archive(s).segments = s
         /\ Archive(s).form = "archive" => s # <<>>
         /\ Archive(s) # Absent
  BY DEF Archive, Plain, Absent

LEMMA MadeArchive ==
  ASSUME NEW s, LeftOfArchive(s)
  PROVE  Made(Archive(s))
  <1>1. CASE s = <<>>
    <2>2. Made(Plain(<<>>))
      BY FeedsBegin, MadePlain
    <2>3. Archive(s) = Plain(<<>>)
      BY <1>1, ArchiveForm
    <2> QED  BY <2>2, <2>3
  <1>2. CASE s # <<>>
    BY <1>2, ArchiveForm DEF Made
  <1> QED  BY <1>1, <1>2

LEMMA MadeAbsent == Made(Absent)
  BY DEF Made

LEMMA MadeIs ==
  ASSUME NEW f, Made(f)
  PROVE  \/ f = Absent
         \/ /\ f.form = "plain" /\ f = Plain(f.data)
            /\ f.data \in Seq(Byte) /\ f.data \in Beginnings /\ f # Absent
         \/ /\ f.form = "archive" /\ f = Archive(f.segments) /\ f.segments # <<>>
            /\ LeftOfArchive(f.segments) /\ f # Absent
  <1>1. f.form = "archive" /\ f = Archive(f.segments) => f.segments # <<>>
    BY ArchiveForm
  <1>2. Absent.form = "absent"
    BY DEF Absent
  <1> QED  BY <1>1, <1>2, BeginningsAre DEF Made

LEMMA SegmentsOfMade ==
  ASSUME NEW f, Made(f), f # Absent
  PROVE  LeftOfArchive(SegmentsOf(f))
  BY MadeIs, TrivialArchives DEF SegmentsOf

(* What is left of a file that is cut is such a file, too. *)
LEMMA ArchiveCuts ==
  ASSUME NEW f, f.form # "plain", NEW g \in Truncations(f)
  PROVE  \E h : /\ g = Archive(h)
                /\ \/ \E k \in 0..Len(f.segments) : h = SubSeq(f.segments, 1, k)
                   \/ \E k \in 0..Len(f.segments) - 1 :
                        h = Append(SubSeq(f.segments, 1, k), Part)
  <1> DEFINE s == f.segments
  <1>1. \/ \E k \in 0..Len(s) : g = Archive(SubSeq(s, 1, k))
        \/ \E k \in 0..Len(s) - 1 : g = Archive(Append(SubSeq(s, 1, k), Part))
    BY DEF Truncations
  <1> QED  BY <1>1

LEMMA CutIsMade ==
  ASSUME NEW f, Made(f), f # Absent, NEW g \in Truncations(f)
  PROVE  Made(g) /\ g # Absent
  <1>1. CASE f.form = "plain"
    <2>1. f.data \in Seq(Byte) /\ f.data \in Beginnings
      BY <1>1, MadeIs
    <2>2. PICK k \in 0..Len(f.data) : g = Plain(SubSeq(f.data, 1, k))
      BY <1>1 DEF Truncations
    <2>3. SubSeq(f.data, 1, k) \in Seq(Byte) /\ IsPrefix(SubSeq(f.data, 1, k), f.data)
      BY <2>1, BeginningIs
    <2>4. SubSeq(f.data, 1, k) \in Beginnings
      BY <2>1, <2>3, BeginningTransitive
    <2> QED  BY <2>2, <2>4, MadePlain
  <1>2. CASE f.form # "plain"
    <2> DEFINE s == f.segments
    <2>1. LeftOfArchive(s)
      BY <1>2, MadeIs
    <2>2. PICK d \in Beginnings : d \in Seq(Byte) /\ LeftOf(d, s)
      BY <2>1, ArchiveIs
    <2>3. s \in Seq(SinkSegments)
      BY <2>1, ArchiveIs
    <2>4. PICK h : /\ g = Archive(h)
                   /\ \/ \E k \in 0..Len(s) : h = SubSeq(s, 1, k)
                      \/ \E k \in 0..Len(s) - 1 : h = Append(SubSeq(s, 1, k), Part)
      BY <1>2, ArchiveCuts
    <2>5. h \in Seq(SinkSegments) /\ LeftOf(d, h)
      BY <2>2, <2>3, <2>4, CutSegments
    <2>6. LeftOfArchive(h)
      BY <2>2, <2>5, ArchiveIs
    <2> QED  BY <2>4, <2>6, MadeArchive, ArchiveForm
  <1> QED  BY <1>1, <1>2

-----------------------------------------------------------------------------
(* Any encoder: what it may add to what it has written.                      *)
LEMMA SegmentType ==
  ASSUME NEW d \in Seq(Byte), NEW i \in Nat \ {0},
         i = 1 \/ (i \div 2 - 1) * BlockSize < Len(d)
  PROVE  Segment(d, i) \in SinkSegments
  <1>1. BlockSize \in Nat \ {0}
    BY BlockSizePositive
  <1>2. CASE i = 1
    <2>1. Segment(d, i) = Header(BlockSize)
      BY <1>2 DEF Segment
    <2> QED  BY <1>1, <2>1 DEF Header, Segments, SinkSegments
  <1>3. CASE i # 1
    <2> DEFINE k == i \div 2 - 1
    <2>1. k \in Nat /\ i \div 2 = k + 1 /\ k * BlockSize < Len(d)
      BY <1>3
    <2> HIDE DEF k
    <2> DEFINE b == Block(d, k + 1)
    <2>2. b \in Seq(Byte) /\ Len(b) \in 1..BlockSize
      BY <2>1, BlockBytes
    <2>3. EncSize(b) \in Int
      BY <2>2, EncSizeType
    <2>4. Segment(d, i) = IF i % 2 = 0 THEN BlockHeader(EncSize(b), Len(b))
                          ELSE Payload(EncSize(b), Enc(b))
      BY <1>3, <2>1 DEF Segment
    <2> HIDE DEF b
    <2>5. BlockHeader(EncSize(b), Len(b)) \in SinkSegments
      BY <2>2, <2>3 DEF BlockHeader, SinkSegments, Segments
    <2>6. Payload(EncSize(b), Enc(b)) \in SinkSegments
      BY <2>2, <2>3 DEF Payload, Enc, SinkSegments, Segments
    <2> QED  BY <2>4, <2>5, <2>6
  <1> QED  BY <1>2, <1>3

LEMMA GrowingArchive ==
  ASSUME NEW d \in Seq(Byte), NEW w \in Seq(SinkSegments), LeftOf(d, w),
         \A j \in 1..Len(w) : w[j] # Part,
         NEW i, i = Len(w) + 1, i = 1 \/ (i \div 2 - 1) * BlockSize < Len(d),
         NEW seg, seg = Segment(d, i) \/ seg = Part
  PROVE  /\ Append(w, seg) \in Seq(SinkSegments)
         /\ LeftOf(d, Append(w, seg))
         /\ Len(Append(w, seg)) = i
         /\ \A j \in 1..Len(w) : Append(w, seg)[j] = w[j]
         /\ Append(w, seg)[i] = seg
  <1> DEFINE v == Append(w, seg)
  <1>1. Len(w) \in Nat /\ i \in Nat \ {0}
    BY LenProperties
  <1>2. Part \in SinkSegments
    BY DEF SinkSegments, Segments
  <1>3. seg \in SinkSegments
    BY <1>1, <1>2, SegmentType
  <1>4. /\ v \in Seq(SinkSegments) /\ Len(v) = i /\ v[i] = seg
        /\ \A j \in 1..Len(w) : v[j] = w[j]
    BY <1>3, AppendProperties
  <1> HIDE DEF v
  <1>5. ASSUME NEW j \in 1..Len(v) PROVE v[j] = Segment(d, j) \/ (v[j] = Part /\ j = Len(v))
    <2>1. CASE j = i
      BY <1>4, <2>1
    <2>2. CASE j # i
      <3>1. j \in 1..Len(w)
        BY <1>1, <1>4, <2>2
      <3> QED  BY <1>4, <3>1 DEF LeftOf
    <2> QED  BY <2>1, <2>2
  <1>6. ASSUME NEW j \in 2..Len(v) PROVE (j \div 2 - 1) * BlockSize < Len(d)
    <2>1. CASE j = i
      BY <2>1
    <2>2. CASE j # i
      <3>1. j \in 2..Len(w)
        BY <1>1, <1>4, <2>2
      <3> QED  BY <3>1 DEF LeftOf
    <2> QED  BY <2>1, <2>2
  <1>7. LeftOf(d, v)
    BY <1>5, <1>6 DEF LeftOf
  <1> QED  BY <1>4, <1>7 DEF v

(* When more bytes are taken, what was written stays what it was.            *)
LEMMA LeftIsStable ==
  ASSUME NEW b \in Seq(Byte), NEW t \in 0..Len(b), NEW u \in t..Len(b), NEW w \in Seq(SinkSegments),
         LeftOf(SubSeq(b, 1, t), w), \A j \in 1..Len(w) : w[j] # Part,
         \A j \in 2..Len(w) : (j \div 2) * BlockSize <= t
  PROVE  LeftOf(SubSeq(b, 1, u), w)
  <1>1. /\ b \in Seq(Byte) /\ Len(b) \in Nat /\ Len(w) \in Nat
        /\ u \in 0..Len(b) /\ BlockSize \in Nat \ {0}
    BY LenProperties, BlockSizePositive
  <1>2. Len(SubSeq(b, 1, t)) = t /\ Len(SubSeq(b, 1, u)) = u
    BY <1>1, PrefixProperties
  <1>3. ASSUME NEW j \in 1..Len(w) PROVE w[j] = Segment(SubSeq(b, 1, u), j)
    <2>1. w[j] = Segment(SubSeq(b, 1, t), j)
      BY DEF LeftOf
    <2>2. j \in Nat \ {0} /\ (j = 1 \/ (j \div 2) * BlockSize <= t)
      BY <1>1
    <2> QED  BY <1>1, <2>1, <2>2, SegmentStable
  <1>4. ASSUME NEW j \in 2..Len(w) PROVE (j \div 2 - 1) * BlockSize < u
    <2>1. (j \div 2 - 1) * BlockSize < t
      BY <1>2 DEF LeftOf
    <2>2. (j \div 2 - 1) * BlockSize \in Int
      BY <1>1, MulSuccessor
    <2> DEFINE p == (j \div 2 - 1) * BlockSize
    <2> HIDE DEF p
    <2>3. p < t /\ p \in Int
      BY <2>1, <2>2 DEF p
    <2>4. p < u
      BY <1>1, <2>3
    <2> QED  BY <2>4 DEF p
  <1> QED  BY <1>2, <1>3, <1>4 DEF LeftOf

FullBlocks == \A j \in 2..Len(written) : (j \div 2) * BlockSize <= read
Unbroken   == \A j \in 1..Len(written) : written[j] # Part

EncodedSoFar == source.form = "plain" =>
  /\ read <= Len(source.data)
  /\ LeftOf(TakenBytes, written)
  /\ status \in {"open", "ending"} => Unbroken
  /\ FullBlocks \/ read = Len(source.data)
  /\ status \in {"ending", "closed"} => read = Len(source.data)
  /\ status = "closed" => written = Stream(TakenBytes)

DecodedSoFar ==
  /\ IsPrefix(plain, Content(segments))
  /\ status = "done" => plain = Content(segments) /\ (segments = <<>> \/ Intact(segments))

LEMMA EncodingIs == (Encoding <=> EncodedSoFar) /\ (Encoding' <=> EncodedSoFar')
  <1>1. \A d, f : Decoder!LeftOf(d, f) <=> LeftOf(d, f)
    BY FileLeftOf
  <1>2. Encoding <=> EncodedSoFar
    BY <1>1 DEF Encoding, EncodedSoFar, Unbroken, FullBlocks
  <1>3. Encoding' <=> EncodedSoFar'
    BY <1>1 DEF Encoding, EncodedSoFar, Unbroken, FullBlocks
  <1> QED  BY <1>2, <1>3

LEMMA DecodingIs == (Decoding <=> DecodedSoFar) /\ (Decoding' <=> DecodedSoFar')
  <1>1. \A f : Decoder!Content(f) = Content(f) /\ (Decoder!Intact(f) <=> Intact(f))
    BY FileContent, FileIntact
  <1>2. Decoding <=> DecodedSoFar
    BY <1>1 DEF Decoding, DecodedSoFar
  <1>3. Decoding' <=> DecodedSoFar'
    BY <1>1 DEF Decoding, DecodedSoFar
  <1> QED  BY <1>2, <1>3

(* What is known of the encoder that it holds for every step.                *)
EncoderTypes ==
  /\ read \in Nat
  /\ written \in Seq(SinkSegments)

LEMMA TakenBytesAre ==
  ASSUME source.data \in Seq(Byte), read \in 0..Len(source.data)
  PROVE  /\ TakenBytes \in Seq(Byte) /\ Len(TakenBytes) = read
         /\ IsPrefix(TakenBytes, source.data)
  BY BeginningIs DEF TakenBytes

LEMMA EncoderStep ==
  ASSUME NEW d \in Feeds, IsPrefix(source.data, d), Encoder(d)!Next,
         EncoderTypes, EncodedSoFar, source.form = "plain", source' = source,
         source.data \in Seq(Byte),
         read' <= Len(source.data), status' \in {"ending", "closed"} => read' = Len(source.data)
  PROVE  /\ EncoderTypes' /\ EncodedSoFar'
         /\ status \in {"open", "ending"}
         /\ status' \in {"open", "ending", "closed", "failed"}
  <1>1. /\ TakenBytes \in Seq(Byte) /\ Len(TakenBytes) = read /\ read \in Nat
        /\ Len(source.data) \in Nat /\ written \in Seq(SinkSegments)
        /\ Len(written) \in Nat /\ BlockSize \in Nat \ {0} /\ read <= Len(source.data)
    <2>1. Len(source.data) \in Nat /\ read \in Nat /\ read <= Len(source.data)
      BY LenProperties DEF EncoderTypes, EncodedSoFar
    <2> QED  BY <2>1, TakenBytesAre, LenProperties, BlockSizePositive DEF EncoderTypes
  <1>2. Encoder(d)!Data = TakenBytes
    <2>1. d \in Seq(Byte) /\ Len(source.data) \in 0..Len(d)
          /\ source.data = SubSeq(d, 1, Len(source.data)) /\ read \in 0..Len(source.data)
      BY <1>1, FeedsAre, PrefixIsBeginning
    <2>2. SubSeq(SubSeq(d, 1, Len(source.data)), 1, read) = SubSeq(d, 1, read)
      BY <2>1, BeginningOfBeginning
    <2> QED  BY <2>1, <2>2 DEF Encoder!Data, TakenBytes
  <1>3. CASE Encoder(d)!Take
    <2>1. /\ status = "open" /\ read' \in read..Len(source.data) /\ status' \in {"open", "ending"}
          /\ written' = written
      <3>1. d \in Seq(Byte) /\ Len(d) \in Nat
        BY FeedsAre, LenProperties
      <3> QED  BY <1>1, <1>3, <3>1 DEF Encoder!Take
    <2>2. LeftOf(TakenBytes, written) /\ Unbroken /\ (FullBlocks \/ read = Len(source.data))
      BY <2>1 DEF EncodedSoFar
    <2>3. LeftOf(TakenBytes', written) /\ (FullBlocks' \/ read' = Len(source.data))
      <3>1. CASE FullBlocks
        <4>1. LeftOf(SubSeq(source.data, 1, read), written)
          BY <2>2 DEF TakenBytes
        <4>2. /\ \A j \in 1..Len(written) : written[j] # Part
              /\ \A j \in 2..Len(written) : (j \div 2) * BlockSize <= read
          BY <2>2, <3>1 DEF Unbroken, FullBlocks
        <4>3. read \in 0..Len(source.data)
          BY <1>1
        <4>4. LeftOf(SubSeq(source.data, 1, read'), written)
          BY <1>1, <2>1, <4>1, <4>2, <4>3, LeftIsStable
        <4>5. ASSUME NEW j \in 2..Len(written) PROVE (j \div 2) * BlockSize <= read'
          <5> DEFINE p == (j \div 2) * BlockSize
          <5>1. p <= read /\ p \in Nat
            BY <1>1, <4>2, MulNatural
          <5> HIDE DEF p
          <5>2. p <= read'
            BY <1>1, <2>1, <5>1
          <5> QED  BY <5>2 DEF p
        <4> QED  BY <2>1, <4>4, <4>5 DEF TakenBytes, FullBlocks
      <3>2. CASE read = Len(source.data)
        <4>1. read' = read
          BY <1>1, <2>1, <3>2
        <4> QED  BY <2>2, <3>2, <4>1 DEF TakenBytes
      <3> QED  BY <2>2, <3>1, <3>2
    <2>4. EncoderTypes'
      <3>1. read' \in Nat
        BY <1>1, <2>1
      <3> QED  BY <2>1, <3>1 DEF EncoderTypes
    <2>5. EncodedSoFar'
      BY <2>1, <2>2, <2>3 DEF EncodedSoFar, Unbroken
    <2> QED  BY <2>1, <2>4, <2>5
  <1> DEFINE i == Len(written) + 1
  (* The next segment may be written. *)
  <1>4. ASSUME status \in {"open", "ending"}, Encoder(d)!Ready(i), read' = read,
               NEW seg, seg = Segment(TakenBytes, i) \/ seg = Part,
               written' = Append(written, seg)
        PROVE  /\ EncoderTypes' /\ LeftOf(TakenBytes', written')
               /\ FullBlocks' \/ read' = Len(source'.data)
               /\ seg # Part => Unbroken'
    <2>1. LeftOf(TakenBytes, written) /\ Unbroken /\ (FullBlocks \/ read = Len(source.data))
      BY <1>4 DEF EncodedSoFar
    <2>2. \/ i = 1
          \/ (i \div 2) * BlockSize <= read
          \/ status = "ending" /\ (i \div 2 - 1) * BlockSize < read
      BY <1>4 DEF Encoder!Ready
    <2>3. i = 1 \/ (i \div 2 - 1) * BlockSize < read
      <3>1. CASE i # 1 /\ (i \div 2) * BlockSize <= read
        <4> DEFINE k == i \div 2
        <4>1. k \in Int
          BY <1>1
        <4> HIDE DEF k
        <4>2. (k - 1) * BlockSize = k * BlockSize - BlockSize /\ k * BlockSize \in Int
          BY <1>1, <4>1, MulSuccessor
        <4> DEFINE p == k * BlockSize
        <4>3. p <= read
          BY <3>1 DEF k
        <4> HIDE DEF p
        <4>4. (k - 1) * BlockSize = p - BlockSize /\ p \in Int
          BY <4>2 DEF p
        <4>5. p - BlockSize < read
          BY <1>1, <4>3, <4>4
        <4> QED  BY <4>4, <4>5 DEF k
      <3> QED  BY <2>2, <3>1
    <2>4. i \in Nat /\ i = Len(written) + 1
      BY <1>1
    <2> HIDE DEF i
    <2>5. \A j \in 1..Len(written) : written[j] # Part
      BY <2>1 DEF Unbroken
    <2>6. /\ written' \in Seq(SinkSegments) /\ LeftOf(TakenBytes, written')
          /\ Len(written') = i /\ written'[i] = seg
          /\ \A j \in 1..Len(written) : written'[j] = written[j]
      <3>1. i = 1 \/ (i \div 2 - 1) * BlockSize < Len(TakenBytes)
        BY <1>1, <2>3
      <3>2. /\ TakenBytes \in Seq(Byte) /\ written \in Seq(SinkSegments)
            /\ LeftOf(TakenBytes, written) /\ i = Len(written) + 1
            /\ seg = Segment(TakenBytes, i) \/ seg = Part
            /\ written' = Append(written, seg)
        BY <1>1, <1>4, <2>1, <2>4
      <3> QED  BY <2>5, <3>1, <3>2, GrowingArchive
    <2>7. FullBlocks' \/ read' = Len(source'.data)
      <3>1. CASE FullBlocks /\ (i = 1 \/ (i \div 2) * BlockSize <= read)
        <4>1. ASSUME NEW j \in 2..Len(written') PROVE (j \div 2) * BlockSize <= read
          <5>1. CASE j = i
            BY <3>1, <5>1
          <5>2. CASE j # i
            <6>1. j \in 2..Len(written)
              BY <1>1, <2>4, <2>6, <5>2
            <6> QED  BY <3>1, <6>1 DEF FullBlocks
          <5> QED  BY <5>1, <5>2
        <4> QED  BY <1>4, <4>1 DEF FullBlocks
      <3>2. CASE status = "ending"
        BY <1>4, <3>2 DEF EncodedSoFar
      <3> QED  BY <1>4, <2>1, <2>2, <3>1, <3>2
    <2>8. seg # Part => Unbroken'
      <3> SUFFICES ASSUME seg # Part, NEW j \in 1..Len(written') PROVE written'[j] # Part
        BY DEF Unbroken
      <3>1. CASE j = i
        BY <2>6, <3>1
      <3>2. CASE j # i
        <4>1. j \in 1..Len(written)
          BY <1>1, <2>4, <2>6, <3>2
        <4> QED  BY <2>5, <2>6, <4>1
      <3> QED  BY <3>1, <3>2
    <2>9. TakenBytes' = TakenBytes
      BY <1>4 DEF TakenBytes
    <2>10. EncoderTypes'
      BY <1>4, <2>6 DEF EncoderTypes
    <2> QED  BY <2>6, <2>7, <2>8, <2>9, <2>10
  <1>5. CASE Encoder(d)!Emit
    <2> DEFINE seg == Segment(TakenBytes, i)
    <2>1. /\ status \in {"open", "ending"} /\ Encoder(d)!Ready(i) /\ read' = read
          /\ written' = Append(written, seg)
          /\ \/ status' = status
             \/ status = "ending" /\ written' = Stream(TakenBytes) /\ status' = "closed"
      <3>1. \A b : /\ Encoder(d)!Stream(b) = Stream(b)
                   /\ \A j : Encoder(d)!Segment(b, j) = Segment(b, j)
        BY EncoderSegments
      <3> QED  BY <1>2, <1>5, <3>1 DEF Encoder!Emit, Encoder!Running
    <2>2. seg # Part
      BY SegmentKind
    <2> HIDE DEF i
    <2>3. seg = Segment(TakenBytes, i) \/ seg = Part
      OBVIOUS
    <2> HIDE DEF seg
    <2>4. /\ EncoderTypes' /\ LeftOf(TakenBytes', written')
          /\ FullBlocks' \/ read' = Len(source'.data)
          /\ Unbroken'
      BY <1>4, <2>1, <2>2, <2>3
    <2>5. TakenBytes' = TakenBytes /\ (status = "ending" => read = Len(source.data))
      BY <2>1 DEF TakenBytes, EncodedSoFar
    <2>6. EncodedSoFar'
      BY <2>1, <2>4, <2>5 DEF EncodedSoFar
    <2> QED  BY <2>1, <2>4, <2>6
  <1>6. CASE Encoder(d)!Close
    <2>1. /\ status \in {"open", "ending"} /\ written = Stream(TakenBytes)
          /\ status' = "closed" /\ read' = read /\ written' = written
      <3>1. \A b : Encoder(d)!Stream(b) = Stream(b)
        BY EncoderSegments
      <3> QED  BY <1>2, <1>6, <3>1 DEF Encoder!Close, Encoder!Running
    <2>2. TakenBytes' = TakenBytes /\ (FullBlocks' <=> FullBlocks)
      BY <2>1 DEF TakenBytes, FullBlocks
    <2> QED  BY <2>1, <2>2 DEF EncodedSoFar, EncoderTypes
  <1>7. CASE Encoder(d)!Fail
    <2>1. /\ status \in {"open", "ending"} /\ status' = "failed" /\ read' = read
          /\ \/ written' = written
             \/ Encoder(d)!Ready(i) /\ written' = Append(written, Part)
      <3>1. Encoder(d)!Part = Part
        BY EncoderSegments
      <3> QED  BY <1>7, <3>1 DEF Encoder!Fail, Encoder!Running
    <2>2. CASE written' = written
      <3>1. TakenBytes' = TakenBytes /\ (FullBlocks' <=> FullBlocks)
        BY <2>1, <2>2 DEF TakenBytes, FullBlocks
      <3> QED  BY <2>1, <2>2, <3>1 DEF EncodedSoFar, EncoderTypes
    <2>3. CASE Encoder(d)!Ready(i) /\ written' = Append(written, Part)
      <3>1. /\ EncoderTypes' /\ LeftOf(TakenBytes', written')
            /\ FullBlocks' \/ read' = Len(source'.data)
        <4> HIDE DEF i
        <4> QED  BY <1>4, <2>1, <2>3
      <3> QED  BY <2>1, <3>1 DEF EncodedSoFar
    <2> QED  BY <2>1, <2>2, <2>3
  <1> QED  BY <1>3, <1>5, <1>6, <1>7 DEF Encoder!Next

(* What an unfinished archive has lost is whole blocks.                      *)
LEMMA SourceTaken ==
  ASSUME source.data \in Seq(Byte), read = Len(source.data)
  PROVE  TakenBytes = source.data
  BY SubSeqFull DEF TakenBytes

LEMMA WrittenContent ==
  ASSUME EncoderTypes, EncodedSoFar, source.form = "plain", source.data \in Seq(Byte)
  PROVE  /\ Content(written) \in Seq(Byte) /\ IsPrefix(Content(written), source.data)
         /\ Content(written) = source.data \/ Len(Content(written)) % BlockSize = 0
  <1> DEFINE g == GoodBlocks(written)
  <1>1. /\ TakenBytes \in Seq(Byte) /\ Len(TakenBytes) = read /\ read \in Nat
        /\ written \in Seq(SinkSegments) /\ LeftOf(TakenBytes, written)
        /\ Len(written) \in Nat /\ BlockSize \in Nat \ {0}
    <2>1. Len(source.data) \in Nat /\ read \in 0..Len(source.data)
      BY LenProperties DEF EncoderTypes, EncodedSoFar
    <2> QED  BY <2>1, TakenBytesAre, LenProperties, BlockSizePositive
             DEF EncoderTypes, EncodedSoFar
  <1>2. /\ Content(written) = TakenBytes \/ Len(Content(written)) % BlockSize = 0
        /\ Content(written) \in Seq(Byte) /\ IsPrefix(Content(written), TakenBytes)
        /\ Len(Content(written)) = MinOf(g * BlockSize, Len(TakenBytes))
        /\ g \in Nat /\ IsFile(written)
    BY <1>1, LeftDecodes, ContentOfLeft, LeftIsFile, ContentType
  <1>3. IsPrefix(Content(written), source.data)
    <2>1. IsPrefix(TakenBytes, source.data)
      <3>1. read \in 0..Len(source.data)
        BY <1>1, LenProperties DEF EncodedSoFar
      <3> QED  BY <3>1, TakenBytesAre
    <2> QED  BY <1>1, <1>2, <2>1, PrefixTransitive
  <1>4. CASE read = Len(source.data)
    BY <1>2, <1>3, <1>4, SourceTaken
  <1>5. CASE FullBlocks
    <2>1. g * BlockSize <= read
      <3>1. CASE g = 0
        <4>1. 0 * BlockSize <= read
          BY <1>1
        <4> QED  BY <3>1, <4>1
      <3>2. CASE g # 0
        <4>1. HeaderGood(written)
          BY <3>2 DEF GoodBlocks
        <4>2. BlockGood(written, g)
          BY <1>2, <3>2, <4>1, GoodBlocksProperties DEF GoodUpTo
        <4>3. 2 * g + 1 <= Len(written)
          BY <4>2 DEF BlockGood
        <4> HIDE DEF g
        <4>4. 2 * g + 1 \in 2..Len(written) /\ (2 * g + 1) \div 2 = g
          BY <1>1, <1>2, <3>2, <4>3
        <4>5. ((2 * g + 1) \div 2) * BlockSize <= read
          BY <1>5, <4>4 DEF FullBlocks
        <4> QED  BY <4>4, <4>5
      <3> QED  BY <3>1, <3>2
    <2> HIDE DEF g
    <2>2. g * BlockSize \in Nat /\ (g * BlockSize) % BlockSize = 0
      BY <1>1, <1>2, MulNatural, MultipleDivides
    <2> DEFINE p == g * BlockSize
    <2>3. p <= read /\ p \in Nat /\ p % BlockSize = 0 /\ Len(Content(written)) = MinOf(p, read)
      BY <1>1, <1>2, <2>1, <2>2
    <2> HIDE DEF p
    <2>4. Len(Content(written)) = p
      BY <1>1, <2>3 DEF MinOf
    <2> QED  BY <1>2, <1>3, <2>3, <2>4
  <1> QED  BY <1>4, <1>5 DEF EncodedSoFar

(* Any decoder: what it delivers.                                            *)
LEMMA DecoderStep ==
  ASSUME LeftOfArchive(segments), plain \in Seq(Byte), DecodedSoFar, Decoder!Next
  PROVE  /\ segments' = segments /\ plain' \in Seq(Byte) /\ DecodedSoFar'
         /\ status = "open" /\ status' \in {"open", "done", "refused", "ioFailed"}
  <1> DEFINE c == Content(segments)
  <1>1. c \in Seq(Byte) /\ IsPrefix(plain, c) /\ Len(plain) \in Nat /\ Len(c) \in Nat
    BY ArchiveContent, LenProperties DEF DecodedSoFar
  <1>2. Decoder!Content(segments) = c /\ (Decoder!Intact(segments) <=> Intact(segments))
    BY FileContent, FileIntact
  <1>3. IsPrefix(c, c)
    <2>1. SubSeq(c, 1, Len(c)) = c /\ Len(c) \in 0..Len(c)
      BY <1>1, SubSeqFull
    <2> HIDE DEF c
    <2>2. IsPrefix(SubSeq(c, 1, Len(c)), c)
      BY <1>1, <2>1, BeginningIs
    <2> QED  BY <2>1, <2>2
  <1>4. ASSUME NEW j \in Len(plain)..Len(c)
        PROVE  SubSeq(c, 1, j) \in Seq(Byte) /\ IsPrefix(SubSeq(c, 1, j), c)
    <2>1. j \in 0..Len(c)
      BY <1>1
    <2> HIDE DEF c
    <2> QED  BY <1>1, <2>1, BeginningIs
  <1>5. CASE Decoder!Deliver
    <2>1. /\ status = "open" /\ status' = "open" /\ segments' = segments
          /\ \E j \in Len(plain)..Len(c) : plain' = SubSeq(c, 1, j)
      BY <1>2, <1>5 DEF Decoder!Deliver
    <2> QED  BY <1>4, <2>1 DEF DecodedSoFar
  <1>6. CASE Decoder!Finish
    <2>1. /\ status = "open" /\ status' = "done" /\ segments' = segments /\ plain' = c
          /\ segments = <<>> \/ Intact(segments)
      BY <1>2, <1>6 DEF Decoder!Finish
    <2> QED  BY <1>1, <1>3, <2>1 DEF DecodedSoFar
  <1>7. CASE Decoder!Refuse
    <2>1. status = "open" /\ status' = "refused" /\ segments' = segments /\ plain' = plain
      BY <1>7 DEF Decoder!Refuse
    <2> QED  BY <1>1, <2>1 DEF DecodedSoFar
  <1>8. CASE Decoder!IoFail
    <2>1. /\ status = "open" /\ status' = "ioFailed" /\ segments' = segments
          /\ \E j \in Len(plain)..Len(c) : plain' = SubSeq(c, 1, j)
      BY <1>2, <1>8 DEF Decoder!IoFail
    <2> QED  BY <1>4, <2>1 DEF DecodedSoFar
  <1> QED  BY <1>5, <1>6, <1>7, <1>8 DEF Decoder!Next

-----------------------------------------------------------------------------
(* The invariant of the command line, without what follows from it while a   *)
(* run is under way.                                                         *)

Core == CommandTypeOK /\ Encoding /\ Decoding /\ Running /\ DataSurvives /\ SuccessIsWhole

LEMMA CommandTypes ==
  ASSUME NEW c \in Commands
  PROVE  /\ c.mode \in {"encode", "decode", "test"}
         /\ {c.stdout, c.force, c.rm} \subseteq BOOLEAN
         /\ c.args \in Seq(Names)
  BY CommandLineAssumption

LEMMA NamesAre == NoFile \notin Names
  BY CommandLineAssumption

LEMMA PlainIs == ASSUME NEW b PROVE Plain(b).form = "plain" /\ Plain(b).data = b
  BY DEF Plain

LEMMA CodecUnchanged ==
  ASSUME Encoding, Decoding, UNCHANGED <<source, read, written, segments, plain, status>>
  PROVE  Encoding' /\ Decoding'
  BY DEF Encoding, Decoding, TakenBytes

(* A codec that has not begun. *)
LEMMA NewCodec ==
  ASSUME Made(source'), LeftOfArchive(segments'),
         read' = 0, written' = <<>>, plain' = <<>>, status' = "open"
  PROVE  Encoding' /\ Decoding'
  <1>1. EncodedSoFar'
    <2>1. source'.form = "plain" => source'.data \in Seq(Byte)
      BY MadeIs, PlainIs DEF Absent
    <2>2. source'.form = "plain" => read' <= Len(source'.data)
      BY <2>1, LenProperties
    <2>3. Len(<<>>) = 0
      OBVIOUS
    <2> QED  BY <2>2, <2>3, NothingIsLeft DEF EncodedSoFar, Unbroken, FullBlocks
  <1>2. DecodedSoFar'
    BY ArchiveContent, EmptyIsPrefix DEF DecodedSoFar
  <1> QED  BY <1>1, <1>2, EncodingIs, DecodingIs

LEMMA BytesAreMade ==
  /\ Made(Plain(<<>>)) /\ Plain(<<>>) # Absent
  /\ Made(Plain(UserData)) /\ Plain(UserData) # Absent
  /\ Made(OwnHeader) /\ OwnHeader # Absent
  <1>1. OwnHeader = Plain(<<>>) \/ OwnHeader = Plain(HeaderBytes)
    BY DEF OwnHeader
  <1> QED  BY <1>1, FeedsBegin, MadePlain

LEMMA EmptySequences ==
  /\ <<>> \in Seq(ArchiveSegments) /\ <<>> \in Seq(Byte) /\ 0 \in Nat
  BY EmptySeq

LEMMA InitCore == ASSUME CommandInit PROVE Core
  <1>1. /\ fs = [x \in Names |-> fs[x]] /\ \A x \in Names : Made(fs[x])
        /\ \E x \in Names : Holds(fs[x])
    BY DirectoryAssumption DEF CommandInit
  <1>2. CommandTypeOK
    <2>1. 0 \in 0..MaxRuns
      <3>1. MaxRuns \in {MiB, Int32Span, MaxJobs, MaxRuns}
        OBVIOUS
      <3>2. {MiB, Int32Span, MaxJobs, MaxRuns} \subseteq Nat
        BY CommandLineAssumption
      <3>3. MaxRuns \in Nat
        BY <3>1, <3>2
      <3> QED  BY <3>3
    <2>2. Made(source) /\ source # Absent /\ LeftOfArchive(segments)
      BY BytesAreMade, TrivialArchives DEF CommandInit, NoCodec
    <2>3. read \in Nat /\ written \in Seq(ArchiveSegments) /\ plain \in Seq(Byte)
      BY EmptySequences DEF CommandInit, NoCodec
    <2> QED  BY <1>1, <2>1, <2>2, <2>3 DEF CommandInit, NoCodec, CommandTypeOK
  <1>3. EncodedSoFar
    <2>1. /\ source = Plain(<<>>) /\ read = 0 /\ written = <<>> /\ status = "open"
          /\ Len(<<>>) = 0
      BY DEF CommandInit, NoCodec
    <2>2. source.data = <<>>
      BY <2>1, PlainIs
    <2> QED  BY <2>1, <2>2, NothingIsLeft DEF EncodedSoFar, Unbroken, FullBlocks
  <1>4. DecodedSoFar
    <2>1. Content(<<>>) \in Seq(Byte)
      BY TrivialArchives, ArchiveContent
    <2> QED  BY <2>1, EmptyIsPrefix DEF CommandInit, NoCodec, DecodedSoFar
  <1>5. Running /\ DataSurvives /\ SuccessIsWhole
    BY <1>1 DEF CommandInit, Running, DataSurvives, SuccessIsWhole
  <1> QED  BY <1>2, <1>3, <1>4, <1>5, EncodingIs, DecodingIs DEF Core

(* A run that fails, or is killed, leaves everything as it is.               *)
LEMMA FailCore ==
  ASSUME Core, NEW how \in {"1", "killed"}, End(how), UNCHANGED <<fs, unsafe, unflushed>>
  PROVE  Core'
  <1>1. UNCHANGED <<source, read, written, segments, plain, status>>
    BY DEF End, codecVars
  <1>2. Encoding' /\ Decoding'
    BY <1>1, CodecUnchanged DEF Core
  <1>3. CommandTypeOK'
    BY <1>1 DEF Core, CommandTypeOK, End
  <1>4. Running' /\ SuccessIsWhole'
    BY DEF End, Running, SuccessIsWhole
  <1>5. DataSurvives'
    BY DEF Core, DataSurvives
  <1> QED  BY <1>2, <1>3, <1>4, <1>5 DEF Core

LEMMA ResolvedFiles ==
  ASSUME NEW c \in Commands, NEW f \in ResolveFiles(c),
         c.mode = "encode" /\ c.args # <<>> => c.args[1] \in DOMAIN Suffixed
  PROVE  /\ f.input \in Names \cup {NoFile} /\ f.output \in Names \cup {NoFile}
         /\ c.mode = "encode" => /\ f.output # NoFile => f.input # NoFile
                                 /\ f.input # NoFile => c.args # <<>> /\ f.input = c.args[1]
         /\ c.mode = "test" => f.output = NoFile
  <1> DEFINE args == c.args
             only == args[1]
  <1>1. args \in Seq(Names) /\ Len(args) \in Nat
    BY CommandTypes, LenProperties
  <1>2. /\ c.mode = "encode" /\ args # <<>> => only \in DOMAIN Suffixed
        /\ f \in IF Len(args) > 2 THEN {}
                ELSE IF Len(args) = 0 THEN {[input |-> NoFile, output |-> NoFile]}
                ELSE IF c.mode = "test" THEN {[input |-> only, output |-> NoFile]}
                ELSE IF Len(args) = 2 THEN {[input |-> only, output |-> args[2]]}
                ELSE IF c.stdout THEN {[input |-> only, output |-> NoFile]}
                ELSE IF c.mode = "encode" THEN {[input |-> only, output |-> Suffixed[only]]}
                ELSE {[input |-> only, output |-> x] :
                        x \in {x \in DOMAIN Suffixed : Suffixed[x] = only}}
    BY DEF ResolveFiles
  <1>3. (args # <<>> <=> c.args # <<>>) /\ only = c.args[1]
    OBVIOUS
  <1>4. NoFile \notin Names /\ c.mode \in {"encode", "decode", "test"}
    BY CommandTypes, NamesAre
  <1> HIDE DEF args
  <1>5. Len(args) = 0 \/ (Len(args) \in {1, 2} /\ args # <<>> /\ only \in Names)
    <2>1. Len(args) <= 2
      BY <1>1, <1>2
    <2>2. Len(args) # 0 => 1 \in 1..Len(args) /\ args # <<>>
      BY <1>1
    <2>3. Len(args) # 0 => args[1] \in Names
      BY <1>1, <2>2, ElementOfSeq
    <2> DEFINE l == Len(args)
    <2>4. l \in Nat /\ l <= 2
      BY <1>1, <2>1
    <2> HIDE DEF l
    <2>5. l = 0 \/ l \in {1, 2}
      BY <2>4
    <2> QED  BY <2>2, <2>3, <2>5 DEF l
  <1>6. CASE Len(args) = 0
    <2>1. f = [input |-> NoFile, output |-> NoFile]
      BY <1>6, <1>2
    <2> QED  BY <2>1
  <1>7. CASE Len(args) # 0 /\ c.mode = "test"
    <2>1. f = [input |-> only, output |-> NoFile]
      BY <1>5, <1>7, <1>2
    <2> QED  BY <1>5, <1>7, <1>3, <2>1
  <1>8. CASE Len(args) = 2 /\ c.mode # "test"
    <2>1. f = [input |-> only, output |-> args[2]]
      BY <1>1, <1>8, <1>2
    <2>2. args[2] \in Names
      BY <1>1, <1>8, ElementOfSeq
    <2>3. f.input = only /\ f.output = args[2]
      BY <2>1
    <2> QED  BY <1>5, <1>8, <1>3, <1>4, <2>2, <2>3
  <1>9. CASE Len(args) = 1 /\ c.mode # "test"
    <2>1. CASE c.stdout
      <3>1. f = [input |-> only, output |-> NoFile]
        BY <1>1, <1>9, <2>1, <1>2
      <3>2. f.input = only /\ f.output = NoFile
        BY <3>1
      <3> QED  BY <1>5, <1>9, <1>3, <3>2
    <2>2. CASE ~c.stdout /\ c.mode = "encode"
      <3>1. f = [input |-> only, output |-> Suffixed[only]]
        BY <1>1, <1>9, <2>2, <1>2
      <3>2. Suffixed[only] \in Names
        BY <1>5, <1>9, <1>2, <2>2, CommandLineAssumption
      <3>3. f.input = only /\ f.output = Suffixed[only]
        BY <3>1
      <3> QED  BY <1>5, <1>9, <1>3, <1>4, <2>2, <3>2, <3>3
    <2>3. CASE ~c.stdout /\ c.mode = "decode"
      <3>1. PICK x \in DOMAIN Suffixed : f = [input |-> only, output |-> x]
        BY <1>1, <1>9, <2>3, <1>2
      <3>2. x \in Names
        BY CommandLineAssumption
      <3>3. f.input = only /\ f.output = x
        BY <3>1
      <3> QED  BY <1>5, <1>9, <1>3, <1>4, <2>3, <3>2, <3>3
    <2> QED  BY <1>9, <1>4, <2>1, <2>2, <2>3
  <1> QED  BY <1>5, <1>6, <1>7, <1>8, <1>9

(* A run begins. *)
LEMMA BeginCore == ASSUME Core, NEW c \in Commands, Begin(c) PROVE Core'
  <1>1. /\ at = "idle" /\ cmd' = c /\ before' = fs /\ fs' = fs /\ unsafe' = unsafe
        /\ unflushed' = FALSE /\ runs < MaxRuns /\ runs' = runs + 1
        /\ source' = Plain(<<>>) /\ read' = 0 /\ written' = <<>>
        /\ segments' = <<>> /\ plain' = <<>> /\ status' = "open"
        /\ c.mode = "encode" /\ c.args # <<>> =>
             c.args[1] \in DOMAIN Suffixed /\ fs[c.args[1]].form # "archive"
    BY DEF Begin
  <1>2. \/ \E f \in ResolveFiles(c) : /\ input' = f.input /\ output' = f.output
                                      /\ at' = "open" /\ exit' = "none"
        \/ input' = NoFile /\ output' = NoFile /\ at' = "idle" /\ exit' = "1"
    BY DEF Begin
  <1>3. Made(source') /\ source' # Absent /\ LeftOfArchive(segments')
    BY <1>1, BytesAreMade, TrivialArchives
  <1>4. Encoding' /\ Decoding'
    BY <1>1, <1>3, NewCodec
  <1>5. /\ input' \in Names \cup {NoFile} /\ output' \in Names \cup {NoFile}
        /\ at' \in {"idle", "open"} /\ exit' \in {"1", "none"}
        /\ at' = "open" =>
             /\ exit' = "none"
             /\ c.mode = "encode" => /\ output' # NoFile => input' # NoFile
                                     /\ input' # NoFile => fs[input'].form # "archive"
             /\ c.mode = "test" => output' = NoFile
    BY <1>1, <1>2, ResolvedFiles
  <1>6. CommandTypeOK'
    <2>1. runs' \in 0..MaxRuns
      <3>1. runs \in 0..MaxRuns
        BY DEF Core, CommandTypeOK
      <3>2. MaxRuns \in {MiB, Int32Span, MaxJobs, MaxRuns}
        OBVIOUS
      <3>3. {MiB, Int32Span, MaxJobs, MaxRuns} \subseteq Nat
        BY CommandLineAssumption
      <3>4. MaxRuns \in Nat
        BY <3>2, <3>3
      <3> QED  BY <1>1, <3>1, <3>4
    <2>2. /\ fs = [x \in Names |-> fs[x]] /\ \A x \in Names : Made(fs[x])
          /\ unsafe \in BOOLEAN
      BY DEF Core, CommandTypeOK
    <2>3. read' \in Nat /\ written' \in Seq(ArchiveSegments) /\ plain' \in Seq(Byte)
      BY <1>1, EmptySequences
    <2> QED  BY <1>1, <1>3, <1>5, <2>1, <2>2, <2>3 DEF CommandTypeOK
  <1>7. Running'
    <2> SUFFICES ASSUME at' = "open" PROVE Started' /\ Preparing'
      BY <1>5 DEF Running
    <2>1. unsafe \/ \E x \in Names : Holds(fs[x])
      BY DEF Core, DataSurvives
    <2>2. Started'
      BY <1>1, <1>5, <2>1 DEF Started
    <2>3. Preparing'
      BY <1>1 DEF Preparing, NoCodec
    <2> QED  BY <2>2, <2>3
  <1>8. DataSurvives' /\ SuccessIsWhole'
    BY <1>1, <1>5 DEF Core, DataSurvives, SuccessIsWhole
  <1> QED  BY <1>4, <1>6, <1>7, <1>8 DEF Core

LEMMA OpenInputCore == ASSUME Core, OpenInput PROVE Core'
  <1>1. CASE input # NoFile /\ Fatal
    BY <1>1, FailCore DEF Fatal
  <1>2. CASE /\ input # NoFile => fs[input] # Absent
             /\ Goto("create")
             /\ UNCHANGED <<fs, codecVars, unsafe>>
    <2>1. /\ at = "open" /\ at' = "create"
          /\ UNCHANGED <<cmd, input, output, exit, before, unflushed, runs, fs, unsafe>>
          /\ UNCHANGED <<source, read, written, segments, plain, status>>
      BY <1>2 DEF OpenInput, Goto, codecVars
    <2>2. Encoding' /\ Decoding'
      BY <2>1, CodecUnchanged DEF Core
    <2>3. CommandTypeOK'
      BY <2>1 DEF Core, CommandTypeOK
    <2>4. Started /\ Preparing
      BY <2>1 DEF Core, Running
    <2>5. Started' /\ Preparing'
      BY <1>2, <2>1, <2>4 DEF Started, Preparing, NoCodec
    <2>6. Running' /\ DataSurvives' /\ SuccessIsWhole'
      BY <2>1, <2>5 DEF Core, Running, Started, DataSurvives, SuccessIsWhole
    <2> QED  BY <2>2, <2>3, <2>6 DEF Core
  <1> QED  BY <1>1, <1>2 DEF OpenInput

(* What the codec reads, and what a step of it does to the directory.        *)
LEMMA SourceIs ==
  ASSUME CommandTypeOK, Started, Working
  PROVE  cmd.mode = "encode" => /\ source.form = "plain" /\ source = Plain(source.data)
                                /\ source.data \in Seq(Byte) /\ source.data \in Beginnings
  <1> SUFFICES ASSUME cmd.mode = "encode"
               PROVE  source.form = "plain"
    BY MadeIs DEF CommandTypeOK
  <1>1. CASE input = NoFile
    BY <1>1, PlainIs DEF Working
  <1>2. CASE input # NoFile /\ input = output
    BY <1>2, PlainIs DEF Working, OwnHeader
  <1>3. CASE input # NoFile /\ input # output
    <2>1. input \in Names /\ Made(before[input])
      BY <1>3 DEF CommandTypeOK
    <2>2. source = before[input] /\ before[input] # Absent /\ before[input].form # "archive"
      BY <1>3 DEF Working, Started
    <2> QED  BY <2>1, <2>2, MadeIs
  <1> QED  BY <1>1, <1>2, <1>3

LEMMA FileWritten ==
  ASSUME fs = [x \in Names |-> fs[x]], output \in Names \cup {NoFile}, NEW f,
         fs' = IF output = NoFile THEN fs ELSE [fs EXCEPT ![output] = f]
  PROVE  /\ fs' = [x \in Names |-> fs'[x]]
         /\ \A x \in Names : x = output /\ output # NoFile => fs'[x] = f
         /\ \A x \in Names : x # output \/ output = NoFile => fs'[x] = fs[x]
  OBVIOUS

LEMMA CreateOutputCore == ASSUME Core, CreateOutput PROVE Core'
  <1>1. CASE output # NoFile /\ Fatal
    BY <1>1, FailCore DEF Fatal
  <1>2. CASE ~(output # NoFile /\ Fatal)
    <2>1. /\ at = "create" /\ at' = "process"
          /\ UNCHANGED <<cmd, input, output, exit, before, unflushed, runs>>
          /\ UNCHANGED <<read, written, plain, status>>
          /\ output # NoFile => fs[output] = Absent \/ cmd.force
          /\ fs' = IF output = NoFile THEN fs ELSE [fs EXCEPT ![output] = Plain(<<>>)]
          /\ unsafe' = (unsafe \/ (output # NoFile /\ cmd.force /\ ~HeldBeside(output)))
          /\ source' = IF input = NoFile THEN Plain(UserData)
                       ELSE IF input = output THEN OwnHeader ELSE fs[input]
          /\ segments' = IF cmd.mode = "encode" THEN <<>> ELSE SegmentsOf(source')
      BY <1>2 DEF CreateOutput, Goto, MayCreate
    <2>2. CommandTypeOK /\ Started /\ Preparing
      BY <2>1 DEF Core, Running
    <2>3. /\ read = 0 /\ written = <<>> /\ plain = <<>> /\ status = "open" /\ fs = before
          /\ input # NoFile => fs[input] # Absent
      BY <2>1, <2>2 DEF Preparing, NoCodec
    <2>4. /\ fs = [x \in Names |-> fs[x]] /\ output \in Names \cup {NoFile}
          /\ input \in Names \cup {NoFile} /\ NoFile \notin Names
          /\ \A x \in Names : Made(fs[x])
      BY <2>2, NamesAre DEF CommandTypeOK
    <2>5. /\ fs' = [x \in Names |-> fs'[x]]
          /\ \A x \in Names : fs'[x] = IF x = output THEN Plain(<<>>) ELSE fs[x]
      <3>1. /\ fs' = [x \in Names |-> fs'[x]]
            /\ \A x \in Names : x = output /\ output # NoFile => fs'[x] = Plain(<<>>)
            /\ \A x \in Names : x # output \/ output = NoFile => fs'[x] = fs[x]
        BY <2>1, <2>4, FileWritten
      <3> QED  BY <2>4, <3>1
    <2>6. \A x \in Names : Made(fs'[x])
      BY <2>4, <2>5, BytesAreMade
    <2>7. /\ source' = IF input = NoFile THEN Plain(UserData)
                       ELSE IF input = output THEN OwnHeader ELSE before[input]
          /\ Made(source') /\ source' # Absent
      <3>1. CASE input = NoFile
        BY <2>1, <3>1, BytesAreMade
      <3>2. CASE input # NoFile
        BY <2>1, <2>3, <2>4, <3>2, BytesAreMade
      <3> QED  BY <3>1, <3>2
    <2>8. LeftOfArchive(segments')
      BY <2>1, <2>7, TrivialArchives, SegmentsOfMade
    <2>9. Encoding' /\ Decoding'
      BY <2>1, <2>3, <2>7, <2>8, NewCodec
    <2>10. unsafe \in BOOLEAN /\ unsafe' \in BOOLEAN
      BY <2>1, <2>2 DEF CommandTypeOK
    <2>11. CommandTypeOK'
      BY <2>1, <2>2, <2>5, <2>6, <2>7, <2>8, <2>10 DEF CommandTypeOK
    <2>12. Started'
      BY <2>1, <2>2 DEF Started
    <2>13. unsafe' \/ \E x \in Names \ {output} : Holds(fs[x])
      <3> SUFFICES ASSUME ~unsafe', ~HeldBeside(output) PROVE FALSE
        BY DEF HeldBeside
      <3>1. ~unsafe /\ (output # NoFile => fs[output] = Absent)
        BY <2>1
      <3>2. PICK x \in Names : Holds(fs[x])
        BY <3>1 DEF Core, DataSurvives
      <3>3. ~Holds(Absent)
        BY DEF Holds, Absent, Plain
      <3>4. x # output
        BY <2>4, <3>1, <3>2, <3>3
      <3> QED  BY <3>2, <3>4 DEF HeldBeside
    <2>14. Working'
      <3>1. Product' = Plain(<<>>)
        BY <2>1, <2>3, ArchiveForm DEF Product
      <3>2. output # NoFile => before[output] = Absent \/ cmd.force
        BY <2>1, <2>3
      <3>3. ~Removed' /\ OwnHeader' = OwnHeader
        BY <2>1 DEF Removed, OwnHeader
      <3>4. \A x \in Names : fs'[x] = IF x = output THEN Product' ELSE before[x]
        BY <2>3, <2>5, <3>1
      <3>5. unsafe' \/ \E x \in Names \ {output} : Holds(before[x])
        BY <2>3, <2>13
      <3> QED  BY <2>1, <2>3, <2>7, <3>2, <3>3, <3>4, <3>5 DEF Working
    <2>15. DataSurvives'
      BY <2>5, <2>13 DEF DataSurvives
    <2>16. Running' /\ SuccessIsWhole'
      BY <2>1, <2>12, <2>14 DEF Running, Started, SuccessIsWhole
    <2> QED  BY <2>9, <2>11, <2>15, <2>16 DEF Core
  <1> QED  BY <1>1, <1>2

LEMMA CodecStepCore ==
  ASSUME Core, at = "process",
         UNCHANGED <<at, cmd, input, output, source, segments>>,
         UNCHANGED <<exit, before, unsafe, unflushed, runs>>,
         Made(Product'),
         fs' = IF output = NoFile THEN fs ELSE [fs EXCEPT ![output] = Product'],
         Encoding', Decoding',
         read' \in Nat, written' \in Seq(ArchiveSegments), plain' \in Seq(Byte),
         cmd.mode = "encode" => status' \in {"open", "ending", "closed", "failed"},
         cmd.mode # "encode" => status' \in {"open", "done", "refused", "ioFailed"}
  PROVE  Core'
  <1>1. CommandTypeOK /\ Started /\ Working /\ ~Removed
    BY DEF Core, Running, Removed
  <1>2. /\ fs = [x \in Names |-> fs[x]] /\ output \in Names \cup {NoFile}
        /\ NoFile \notin Names /\ \A x \in Names : Made(fs[x])
    BY <1>1, NamesAre DEF CommandTypeOK
  <1>3. \A x \in Names : fs[x] = IF x = output THEN Product ELSE before[x]
    BY <1>1 DEF Working
  <1>4. /\ fs' = [x \in Names |-> fs'[x]]
        /\ \A x \in Names : fs'[x] = IF x = output THEN Product' ELSE before[x]
    <2>1. /\ fs' = [x \in Names |-> fs'[x]]
          /\ \A x \in Names : x = output /\ output # NoFile => fs'[x] = Product'
          /\ \A x \in Names : x # output \/ output = NoFile => fs'[x] = fs[x]
      BY <1>2, FileWritten
    <2> QED  BY <1>2, <1>3, <2>1
  <1>5. CommandTypeOK'
    <2>1. \A x \in Names : Made(fs'[x])
      BY <1>1, <1>4 DEF CommandTypeOK
    <2>2. status' \in {"open", "ending", "closed", "failed", "done", "refused", "ioFailed"}
      OBVIOUS
    <2> QED  BY <1>1, <1>4, <2>1, <2>2 DEF CommandTypeOK
  <1>6. Started'
    BY <1>1 DEF Started
  <1>7. Working'
    <2>1. ~Removed' /\ at' = "process" /\ OwnHeader' = OwnHeader
      BY DEF Removed, OwnHeader
    <2>2. /\ input # NoFile => before[input] # Absent
          /\ source = IF input = NoFile THEN Plain(UserData)
                      ELSE IF input = output THEN OwnHeader ELSE before[input]
          /\ segments = IF cmd.mode = "encode" THEN <<>> ELSE SegmentsOf(source)
          /\ output # NoFile => before[output] = Absent \/ cmd.force
          /\ unsafe \/ \E x \in Names \ {output} : Holds(before[x])
      BY <1>1 DEF Working
    <2> QED  BY <1>4, <2>1, <2>2 DEF Working
  <1>8. DataSurvives'
    <2> SUFFICES ASSUME ~unsafe PROVE \E x \in Names : Holds(fs'[x])
      BY DEF DataSurvives
    <2>1. PICK x \in Names \ {output} : Holds(before[x])
      BY <1>1 DEF Working
    <2> QED  BY <1>4, <2>1
  <1>9. Running' /\ SuccessIsWhole'
    BY <1>6, <1>7 DEF Running, Started, SuccessIsWhole
  <1> QED  BY <1>5, <1>8, <1>9 DEF Core

LEMMA CompressCore == ASSUME Core, Compress PROVE Core'
  <1>1. /\ at = "process" /\ cmd.mode = "encode"
        /\ \E d \in Feeds : IsPrefix(source.data, d) /\ Encoder(d)!Next
        /\ read' <= Len(source.data)
        /\ status' \in {"ending", "closed"} => read' = Len(source.data)
        /\ fs' = IF output = NoFile THEN fs ELSE [fs EXCEPT ![output] = Archive(written')]
        /\ UNCHANGED <<at, cmd, input, output, source, segments, plain>>
        /\ UNCHANGED <<exit, before, unsafe, unflushed, runs>>
    BY DEF Compress, Written
  <1>2. CommandTypeOK /\ Started /\ Working
    BY <1>1 DEF Core, Running
  <1>3. source.form = "plain" /\ source.data \in Seq(Byte) /\ source.data \in Beginnings
    BY <1>1, <1>2, SourceIs
  <1>4. EncoderTypes /\ EncodedSoFar /\ DecodedSoFar
    <2>1. read \in Nat /\ written \in Seq(SinkSegments)
      BY <1>2, FileSinkSegments DEF CommandTypeOK
    <2>2. Encoding /\ Decoding
      BY DEF Core
    <2> QED  BY <2>1, <2>2, EncodingIs, DecodingIs DEF EncoderTypes
  <1>5. /\ EncoderTypes' /\ EncodedSoFar'
        /\ status' \in {"open", "ending", "closed", "failed"}
    <2>1. PICK d \in Feeds : IsPrefix(source.data, d) /\ Encoder(d)!Next
      BY <1>1
    <2> QED  BY <1>1, <1>3, <1>4, <2>1, EncoderStep
  <1>6. DecodedSoFar'
    BY <1>1, <1>4, <1>5 DEF DecodedSoFar
  <1>7. Encoding' /\ Decoding'
    BY <1>5, <1>6, EncodingIs, DecodingIs
  <1>8. read' \in Nat /\ written' \in Seq(ArchiveSegments) /\ plain' \in Seq(Byte)
    BY <1>1, <1>2, <1>5, FileSinkSegments DEF EncoderTypes, CommandTypeOK
  <1>9. Made(Archive(written'))
    <2>1. TakenBytes' \in Seq(Byte) /\ TakenBytes' \in Beginnings
      <3>1. Len(source.data) \in Nat /\ read' \in 0..Len(source.data)
        BY <1>1, <1>3, <1>8, LenProperties
      <3>2. /\ SubSeq(source.data, 1, read') \in Seq(Byte)
            /\ IsPrefix(SubSeq(source.data, 1, read'), source.data)
        BY <1>3, <3>1, BeginningIs
      <3>3. TakenBytes' = SubSeq(source.data, 1, read')
        BY <1>1 DEF TakenBytes
      <3> QED  BY <1>3, <3>2, <3>3, BeginningTransitive
    <2>2. LeftOf(TakenBytes', written') /\ written' \in Seq(SinkSegments)
      BY <1>1, <1>3, <1>5 DEF EncodedSoFar, EncoderTypes
    <2>3. LeftOfArchive(written')
      BY <2>1, <2>2, ArchiveIs
    <2> QED  BY <2>3, MadeArchive
  <1>10. Product' = Archive(written')
    BY <1>1 DEF Product
  <1> QED  BY <1>1, <1>5, <1>7, <1>8, <1>9, <1>10, CodecStepCore

LEMMA DecompressCore == ASSUME Core, Decompress PROVE Core'
  <1>1. /\ at = "process" /\ cmd.mode \in {"decode", "test"} /\ Decoder!Next
        /\ fs' = IF output = NoFile THEN fs ELSE [fs EXCEPT ![output] = Plain(plain')]
        /\ UNCHANGED <<at, cmd, input, output, source, read, written>>
        /\ UNCHANGED <<exit, before, unsafe, unflushed, runs>>
    BY DEF Decompress
  <1>2. CommandTypeOK
    BY DEF Core
  <1>3. LeftOfArchive(segments) /\ plain \in Seq(Byte)
    BY <1>2 DEF CommandTypeOK
  <1>4. EncodedSoFar /\ DecodedSoFar
    <2>1. Encoding /\ Decoding
      BY DEF Core
    <2> QED  BY <2>1, EncodingIs, DecodingIs
  <1>5. /\ segments' = segments /\ plain' \in Seq(Byte) /\ DecodedSoFar'
        /\ status = "open" /\ status' \in {"open", "done", "refused", "ioFailed"}
    BY <1>1, <1>3, <1>4, DecoderStep
  <1>6. EncodedSoFar'
    <2>1. /\ TakenBytes' = TakenBytes /\ (FullBlocks' <=> FullBlocks) /\ (Unbroken' <=> Unbroken)
      BY <1>1 DEF TakenBytes, FullBlocks, Unbroken
    <2> QED  BY <1>1, <1>4, <1>5, <2>1 DEF EncodedSoFar
  <1>7. Encoding' /\ Decoding'
    BY <1>5, <1>6, EncodingIs, DecodingIs
  <1>8. Made(Plain(plain'))
    <2>1. IsPrefix(plain', Content(segments))
      BY <1>5 DEF DecodedSoFar
    <2>2. Content(segments) \in Seq(Byte) /\ Content(segments) \in Beginnings
      BY <1>3, ArchiveContent
    <2>3. plain' \in Beginnings
      BY <1>5, <2>1, <2>2, BeginningTransitive
    <2> QED  BY <2>3, MadePlain
  <1>9. Product' = Plain(plain')
    BY <1>1 DEF Product
  <1>10. read' \in Nat /\ written' \in Seq(ArchiveSegments)
    BY <1>1, <1>2 DEF CommandTypeOK
  <1> QED  BY <1>1, <1>5, <1>7, <1>8, <1>9, <1>10, CodecStepCore

(* process has returned. *)
LEMMA ProcessDoneCore == ASSUME Core, ProcessDone PROVE Core'
  <1>1. /\ at = "process" /\ Succeeded
        /\ at' = IF cmd.rm /\ input # NoFile THEN "remove" ELSE "close"
        /\ UNCHANGED <<cmd, input, output, exit, before, unflushed, runs, fs, unsafe>>
        /\ UNCHANGED <<source, read, written, segments, plain, status>>
    BY DEF ProcessDone, Goto, codecVars
  <1>2. Encoding' /\ Decoding'
    BY <1>1, CodecUnchanged DEF Core
  <1>3. at' \in {"remove", "close"}
    BY <1>1
  <1>4. CommandTypeOK'
    BY <1>1, <1>3 DEF Core, CommandTypeOK
  <1>5. Started /\ Working
    BY <1>1 DEF Core, Running
  <1>6. Started'
    BY <1>1, <1>5 DEF Started
  <1>7. Working'
    <2>1. /\ ~Removed /\ ~Removed' /\ Succeeded' /\ Product' = Product
          /\ OwnHeader' = OwnHeader
      BY <1>1 DEF Removed, Succeeded, Product, OwnHeader
    <2>2. at' = "remove" => cmd'.rm /\ input' # NoFile
      BY <1>1
    <2> QED  BY <1>1, <1>5, <2>1, <2>2 DEF Working
  <1>8. Running' /\ SuccessIsWhole'
    BY <1>3, <1>6, <1>7 DEF Running, Started, SuccessIsWhole
  <1>9. DataSurvives'
    BY <1>1 DEF Core, DataSurvives
  <1> QED  BY <1>2, <1>4, <1>8, <1>9 DEF Core

(* When the input held the data, the output then does.                       *)
LEMMA ProductHolds ==
  ASSUME Core, Started, Working, Succeeded,
         input # NoFile, input # output, Holds(before[input])
  PROVE  Holds(Product)
  <1> DEFINE f == before[input]
  <1>1. EncodedSoFar /\ DecodedSoFar /\ CommandTypeOK
    BY EncodingIs, DecodingIs DEF Core
  <1>2. source = f /\ status \in {"closed", "done"}
    BY DEF Working, Succeeded
  <1>3. \/ f = Plain(UserData)
        \/ f.form = "archive" /\ Intact(f.segments) /\ Content(f.segments) = UserData
    BY FileIntact, FileContent DEF Holds
  <1>4. UserData \in Seq(Byte)
    BY UserDataAre
  <1> HIDE DEF f
  <1>5. CASE cmd.mode = "encode"
    <2>1. status = "closed"
      BY <1>2, <1>5 DEF Working
    <2>2. source.form = "plain" /\ source.data \in Seq(Byte)
      BY <1>1, <1>5, SourceIs
    <2>3. source.data = UserData
      BY <1>2, <1>3, <2>2, PlainIs
    <2>4. read = Len(source.data) /\ written = Stream(TakenBytes) /\ LeftOf(TakenBytes, written)
      BY <1>1, <2>1, <2>2 DEF EncodedSoFar
    <2>5. TakenBytes = UserData
      BY <2>2, <2>3, <2>4, SourceTaken
    <2>6. written \in Seq(SinkSegments)
      BY <1>1, FileSinkSegments DEF CommandTypeOK
    <2>7. Intact(written) /\ Content(written) = UserData
      BY <1>4, <2>4, <2>5, <2>6, WholeStream
    <2>8. written # <<>>
      BY <2>7 DEF Intact, HeaderGood
    <2>9. Product = Archive(written)
      BY <1>5 DEF Product
    <2>10. Product.form = "archive" /\ Product.segments = written
      BY <2>8, <2>9, ArchiveForm
    <2> QED  BY <2>7, <2>10, FileIntact, FileContent DEF Holds
  <1>6. CASE cmd.mode # "encode"
    <2>1. status = "done" /\ segments = SegmentsOf(f)
      BY <1>2, <1>6 DEF Working
    <2>2. plain = Content(segments) /\ (segments = <<>> \/ Intact(segments))
      BY <1>1, <2>1 DEF DecodedSoFar
    <2>3. plain = UserData
      <3>1. CASE f = Plain(UserData)
        <4>1. segments = IF UserData = <<>> THEN <<>> ELSE <<Part>>
          BY <2>1, <3>1, PlainIs, FileSegments DEF SegmentsOf
        <4>2. ~Intact(<<Part>>) /\ <<Part>> # <<>>
          BY DEF Intact, HeaderGood, Part
        <4>3. segments = <<>> /\ UserData = <<>>
          BY <2>2, <4>1, <4>2
        <4>4. ~HeaderGood(<<>>)
          BY DEF HeaderGood
        <4> QED  BY <2>2, <4>3, <4>4, NoHeader
      <3>2. CASE f.form = "archive" /\ Content(f.segments) = UserData
        BY <2>1, <2>2, <3>2 DEF SegmentsOf
      <3> QED  BY <1>3, <3>1, <3>2
    <2>4. Product = Plain(UserData)
      BY <1>6, <2>3 DEF Product
    <2> QED  BY <2>4 DEF Holds
  <1> QED  BY <1>5, <1>6

LEMMA RemoveInputCore == ASSUME Core, RemoveInput PROVE Core'
  <1>1. CASE Fatal
    BY <1>1, FailCore DEF Fatal
  <1>2. CASE ~Fatal
    <2>1. /\ at = "remove" /\ at' = "close"
          /\ fs' = [fs EXCEPT ![input] = Absent]
          /\ unsafe' = (unsafe \/ (output \in {NoFile, input} /\ ~HeldBeside(input)))
          /\ UNCHANGED <<cmd, input, output, exit, before, unflushed, runs>>
          /\ UNCHANGED <<source, read, written, segments, plain, status>>
      BY <1>2 DEF RemoveInput, Goto, codecVars
    <2>2. Encoding' /\ Decoding'
      BY <2>1, CodecUnchanged DEF Core
    <2>3. CommandTypeOK /\ Started /\ Working /\ Succeeded /\ ~Removed
      BY <2>1 DEF Core, Running, Working, Removed
    <2>4. cmd.rm /\ input # NoFile /\ input \in Names /\ NoFile \notin Names
      BY <2>1, <2>3, NamesAre DEF Working, CommandTypeOK
    <2>5. \A x \in Names : fs[x] = IF x = output THEN Product ELSE before[x]
      BY <2>3 DEF Working
    <2>6. /\ fs' = [x \in Names |-> fs'[x]]
          /\ \A x \in Names : fs'[x] = IF x = input THEN Absent
                                       ELSE IF x = output THEN Product ELSE before[x]
      <3>1. fs = [x \in Names |-> fs[x]]
        BY <2>3 DEF CommandTypeOK
      <3>2. /\ fs' = [x \in Names |-> fs'[x]]
            /\ \A x \in Names : fs'[x] = IF x = input THEN Absent ELSE fs[x]
        BY <2>1, <2>4, <3>1
      <3> QED  BY <2>5, <3>2
    <2>7. CommandTypeOK'
      <3>1. \A x \in Names : Made(fs'[x])
        <4>1. \A x \in Names : Made(fs[x])
          BY <2>3 DEF CommandTypeOK
        <4> QED  BY <2>5, <2>6, <4>1, MadeAbsent
      <3>2. unsafe' \in BOOLEAN
        BY <2>1, <2>3 DEF CommandTypeOK
      <3> QED  BY <2>1, <2>3, <2>6, <3>1, <3>2 DEF CommandTypeOK
    <2>8. Started'
      BY <2>1, <2>3 DEF Started
    <2>9. Working'
      <3>1. Removed' /\ Succeeded' /\ Product' = Product /\ OwnHeader' = OwnHeader
        BY <2>1, <2>3, <2>4 DEF Removed, Succeeded, Product, OwnHeader
      <3>2. \A x \in Names : fs'[x] = IF Removed' /\ x = input' THEN Absent
                                      ELSE IF x = output' THEN Product' ELSE before'[x]
        BY <2>1, <2>6, <3>1
      <3>3. /\ output' # NoFile => before'[output'] = Absent \/ cmd'.force
            /\ unsafe' \/ \E x \in Names \ {output'} : Holds(before'[x])
        BY <2>1, <2>3 DEF Working
      <3> QED  BY <2>1, <2>3, <3>1, <3>2, <3>3 DEF Working
    <2>10. DataSurvives'
      <3> SUFFICES ASSUME ~unsafe' PROVE \E x \in Names : Holds(fs'[x])
        BY DEF DataSurvives
      <3>1. CASE HeldBeside(input)
        <4>1. PICK x \in Names \ {input} : Holds(fs[x])
          BY <3>1 DEF HeldBeside
        <4> QED  BY <2>5, <2>6, <4>1
      <3>2. CASE ~HeldBeside(input)
        <4>1. ~unsafe /\ output # NoFile /\ output # input
          BY <2>1, <3>2
        <4>2. output \in Names
          BY <2>3, <4>1 DEF CommandTypeOK
        <4>3. PICK x \in Names \ {output} : Holds(before[x])
          BY <2>3, <4>1 DEF Working
        <4>4. CASE x = input
          <5>1. Holds(Product)
            BY <2>3, <2>4, <4>1, <4>3, <4>4, ProductHolds
          <5> QED  BY <2>6, <4>1, <4>2, <5>1
        <4>5. CASE x # input
          BY <2>6, <4>3, <4>5
        <4> QED  BY <4>4, <4>5
      <3> QED  BY <3>1, <3>2
    <2>11. Running' /\ SuccessIsWhole'
      BY <2>1, <2>8, <2>9 DEF Running, Started, SuccessIsWhole
    <2> QED  BY <2>2, <2>7, <2>10, <2>11 DEF Core
  <1> QED  BY <1>1, <1>2

(* main returns, and the output may not have been written to its end.        *)
LEMMA CloseOutputIs ==
  ASSUME CloseOutput
  PROVE  /\ at = "close" /\ at' = "idle" /\ exit' = "0"
         /\ UNCHANGED <<cmd, input, output, before, runs>>
         /\ UNCHANGED <<source, read, written, segments, plain, status>>
         /\ \/ UNCHANGED <<fs, unsafe, unflushed>>
            \/ /\ output # NoFile /\ fs[output] # Absent
               /\ unsafe' = (unsafe \/ ~HeldBeside(output)) /\ unflushed' = TRUE
               /\ \E f \in Truncations(fs[output]) : fs' = [fs EXCEPT ![output] = f]
  BY DEF CloseOutput, End, codecVars

LEMMA CloseOutputCore == ASSUME Core, CloseOutput PROVE Core'
  <1>1. /\ at = "close" /\ at' = "idle" /\ exit' = "0"
        /\ UNCHANGED <<cmd, input, output, before, runs>>
        /\ UNCHANGED <<source, read, written, segments, plain, status>>
    BY CloseOutputIs
  <1>2. CommandTypeOK /\ Started /\ Working /\ Succeeded
    BY <1>1 DEF Core, Running, Working
  <1>3. Encoding' /\ Decoding'
    BY <1>1, CodecUnchanged DEF Core
  <1>4. CASE UNCHANGED <<fs, unsafe, unflushed>>
    <2>1. CommandTypeOK'
      BY <1>1, <1>2, <1>4 DEF CommandTypeOK
    <2>2. Running' /\ DataSurvives'
      BY <1>1, <1>4 DEF Core, Running, DataSurvives
    <2>3. SuccessIsWhole'
      <3>1. EncodedSoFar /\ DecodedSoFar
        BY EncodingIs, DecodingIs DEF Core
      <3>2. ASSUME input # output, cmd.mode = "encode", output # NoFile
            PROVE  fs[output] = Archive(Stream(before[input].data))
        <4>1. output \in Names /\ input # NoFile
          BY <1>2, <3>2 DEF CommandTypeOK, Started
        <4>2. source = before[input] /\ fs[output] = Archive(written)
          BY <1>2, <3>2, <4>1 DEF Working, Product
        <4>3. status = "closed"
          BY <1>2, <3>2 DEF Working, Succeeded
        <4>4. source.form = "plain" /\ source.data \in Seq(Byte)
          BY <1>2, <3>2, SourceIs
        <4>5. read = Len(source.data) /\ written = Stream(TakenBytes)
          BY <3>1, <4>3, <4>4 DEF EncodedSoFar
        <4>6. written = Stream(source.data)
          BY <4>4, <4>5, SourceTaken
        <4> QED  BY <4>2, <4>6, FileSegments
      <3>3. ASSUME input # output, cmd.mode = "decode", input # NoFile
            PROVE  LET s == SegmentsOf(before[input])
                   IN  /\ s = <<>> \/ Decoder!Intact(s)
                       /\ output # NoFile => fs[output] = Plain(Decoder!Content(s))
        <4>1. source = before[input] /\ segments = SegmentsOf(before[input])
          BY <1>2, <3>3 DEF Working
        <4>2. status = "done"
          BY <1>2, <3>3 DEF Working, Succeeded
        <4>3. plain = Content(segments) /\ (segments = <<>> \/ Intact(segments))
          BY <3>1, <4>2 DEF DecodedSoFar
        <4>4. output # NoFile => fs[output] = Plain(plain)
          <5>1. output # NoFile => output \in Names
            BY <1>2 DEF CommandTypeOK
          <5> QED  BY <1>2, <3>3, <5>1 DEF Working, Product
        <4> QED  BY <4>1, <4>3, <4>4, FileIntact, FileContent
      <3> QED  BY <1>1, <1>4, <3>2, <3>3 DEF SuccessIsWhole
    <2> QED  BY <1>3, <2>1, <2>2, <2>3 DEF Core
  <1>5. CASE ~UNCHANGED <<fs, unsafe, unflushed>>
    <2>1. /\ output # NoFile /\ fs[output] # Absent
          /\ unsafe' = (unsafe \/ ~HeldBeside(output)) /\ unflushed' = TRUE
          /\ \E f \in Truncations(fs[output]) : fs' = [fs EXCEPT ![output] = f]
      BY <1>5, CloseOutputIs
    <2>2. PICK f \in Truncations(fs[output]) : fs' = [fs EXCEPT ![output] = f]
      BY <2>1
    <2>3. output \in Names /\ fs = [x \in Names |-> fs[x]] /\ \A x \in Names : Made(fs[x])
      BY <1>2, <2>1 DEF CommandTypeOK
    <2>4. Made(f)
      BY <2>1, <2>3, CutIsMade
    <2>5. fs' = [x \in Names |-> fs'[x]] /\ \A x \in Names : Made(fs'[x])
      BY <2>2, <2>3, <2>4
    <2>6. unsafe' \in BOOLEAN /\ unflushed' \in BOOLEAN
      BY <1>2, <2>1 DEF CommandTypeOK
    <2>7. CommandTypeOK'
      BY <1>1, <1>2, <2>5, <2>6 DEF CommandTypeOK
    <2>8. DataSurvives'
      <3> SUFFICES ASSUME ~unsafe' PROVE \E x \in Names : Holds(fs'[x])
        BY DEF DataSurvives
      <3>1. PICK x \in Names \ {output} : Holds(fs[x])
        BY <2>1 DEF HeldBeside
      <3> QED  BY <2>2, <2>3, <3>1
    <2>9. Running' /\ SuccessIsWhole'
      BY <1>1, <2>1 DEF Running, SuccessIsWhole
    <2> QED  BY <1>3, <2>7, <2>8, <2>9 DEF Core
  <1> QED  BY <1>4, <1>5

LEMMA StepCore == ASSUME Core, [CommandNext]_commandVars PROVE Core'
  <1>1. CASE \E c \in Commands : Begin(c)
    BY <1>1, BeginCore
  <1>2. CASE OpenInput
    BY <1>2, OpenInputCore
  <1>3. CASE CreateOutput
    BY <1>3, CreateOutputCore
  <1>4. CASE Compress
    BY <1>4, CompressCore
  <1>5. CASE Decompress
    BY <1>5, DecompressCore
  <1>6. CASE ProcessFails
    BY <1>6, FailCore DEF ProcessFails, Fatal
  <1>7. CASE ProcessDone
    BY <1>7, ProcessDoneCore
  <1>8. CASE RemoveInput
    BY <1>8, RemoveInputCore
  <1>9. CASE CloseOutput
    BY <1>9, CloseOutputCore
  <1>10. CASE Killed
    BY <1>10, FailCore DEF Killed
  <1>11. CASE UNCHANGED commandVars
    <2>1. /\ UNCHANGED <<fs, cmd, input, output, at, exit, before, unsafe, unflushed, runs>>
          /\ UNCHANGED <<source, read, written, segments, plain, status>>
      BY <1>11 DEF commandVars, codecVars
    <2>2. Encoding' /\ Decoding'
      BY <2>1, CodecUnchanged DEF Core
    <2>3. CommandTypeOK'
      BY <2>1 DEF Core, CommandTypeOK
    <2>4. Running'
      BY <2>1 DEF Core, Running, Started, Preparing, NoCodec, Working, Removed,
         Product, Succeeded, OwnHeader
    <2>5. DataSurvives' /\ SuccessIsWhole'
      BY <2>1 DEF Core, DataSurvives, SuccessIsWhole
    <2> QED  BY <2>2, <2>3, <2>4, <2>5 DEF Core
  <1> QED  BY <1>1, <1>2, <1>3, <1>4, <1>5, <1>6, <1>7, <1>8, <1>9, <1>10, <1>11
           DEF CommandNext, Done

-----------------------------------------------------------------------------
(* What follows while a run is under way, and stays when it is over.         *)
Rest == OthersUntouched /\ LeftoversArePrefixes

LEMMA GivesIs ==
  ASSUME NEW f
  PROVE  /\ f.form = "archive" => Gives(f) = Content(f.segments)
         /\ f.form = "plain" => Gives(f) = f.data
         /\ f.form = "absent" => Gives(f) = <<>>
  BY FileContent DEF Gives

LEMMA MadeGives ==
  ASSUME NEW f, Made(f)
  PROVE  Gives(f) \in Seq(Byte) /\ Gives(f) \in Beginnings
  <1>1. Absent.form = "absent"
    BY DEF Absent
  <1> QED  BY <1>1, MadeIs, ArchiveContent, GivesIs, FeedsBegin, EmptySeq

(* What a changed file may give. *)
FromInput(f) ==
  /\ IsPrefix(Gives(f), InputGave)
  /\ f.form = "archive" /\ Intact(f.segments) =>
       Gives(f) = source.data \/ Len(Gives(f)) % BlockSize = 0

LEMMA LeftoversAre ==
  ASSUME CommandTypeOK, \A x \in Names : fs[x] # before[x] => FromInput(fs[x])
  PROVE  LeftoversArePrefixes
  <1>1. \A x \in Names : \E d \in Feeds : IsPrefix(Gives(fs[x]), d)
    BY MadeGives, BeginningsAre DEF CommandTypeOK
  <1> QED  BY <1>1, FileIntact DEF LeftoversArePrefixes, FromInput

LEMMA InitRest == ASSUME CommandInit PROVE Rest
  <1>1. CommandTypeOK /\ fs = before
    BY InitCore DEF CommandInit, Core
  <1>2. LeftoversArePrefixes
    BY <1>1, LeftoversAre
  <1> QED  BY <1>1, <1>2 DEF Rest, OthersUntouched

(* What a run writes gives a beginning of what its input gave.               *)
LEMMA EncoderGives ==
  ASSUME Core, at # "idle", Working, cmd.mode = "encode"
  PROVE  /\ source.form = "plain" /\ source.data \in Seq(Byte) /\ InputGave = source.data
         /\ EncoderTypes /\ EncodedSoFar
         /\ FromInput(Archive(written))
  <1>1. CommandTypeOK /\ Started
    BY DEF Core, Running
  <1>2. source.form = "plain" /\ source.data \in Seq(Byte)
    BY <1>1, SourceIs
  <1>3. InputGave = source.data
    BY <1>2, PlainIs, GivesIs DEF Working, InputGave
  <1>4. EncoderTypes /\ EncodedSoFar
    BY <1>1, FileSinkSegments, EncodingIs DEF Core, CommandTypeOK, EncoderTypes
  <1>5. /\ Content(written) \in Seq(Byte) /\ IsPrefix(Content(written), source.data)
        /\ Content(written) = source.data \/ Len(Content(written)) % BlockSize = 0
    BY <1>2, <1>4, WrittenContent
  <1>6. CASE written = <<>>
    <2>1. Archive(written) = Plain(<<>>)
      BY <1>6, ArchiveForm
    <2>2. Gives(Archive(written)) = <<>> /\ Archive(written).form = "plain"
      BY <2>1, PlainIs, GivesIs
    <2> QED  BY <1>2, <1>3, <1>4, <2>2, EmptyIsPrefix DEF FromInput
  <1>7. CASE written # <<>>
    <2>1. Archive(written).form = "archive" /\ Archive(written).segments = written
      BY <1>7, ArchiveForm
    <2> QED  BY <1>2, <1>3, <1>4, <1>5, <2>1, GivesIs DEF FromInput
  <1> QED  BY <1>2, <1>3, <1>4, <1>6, <1>7

LEMMA NoArchiveGives == Content(<<>>) = <<>> /\ Content(<<Part>>) = <<>>
  <1>1. ~HeaderGood(<<>>) /\ ~HeaderGood(<<Part>>)
    BY DEF HeaderGood, Part
  <1> QED  BY <1>1, NoHeader

LEMMA DecoderGives ==
  ASSUME Core, at # "idle", Working, cmd.mode # "encode"
  PROVE  InputGave \in Seq(Byte) /\ plain \in Seq(Byte) /\ IsPrefix(plain, InputGave)
  <1>1. CommandTypeOK /\ DecodedSoFar
    BY DecodingIs DEF Core
  <1>2. /\ plain \in Seq(Byte) /\ IsPrefix(plain, Content(segments))
        /\ segments = SegmentsOf(source) /\ Content(segments) \in Seq(Byte)
    BY <1>1, ArchiveContent DEF CommandTypeOK, DecodedSoFar, Working
  <1>3. OwnHeader = Plain(<<>>)
    BY DEF OwnHeader
  <1>4. InputGave \in Seq(Byte)
    <2>1. input \notin {NoFile, output} => Made(before[input])
      BY <1>1 DEF CommandTypeOK
    <2> QED  BY <1>3, <2>1, PlainIs, MadeGives, UserDataAre, EmptySeq DEF InputGave
  <1>5. CASE input \notin {NoFile, output} /\ before[input].form = "archive"
    <2>1. Content(segments) = InputGave
      BY <1>2, <1>5, GivesIs DEF SegmentsOf, Working, InputGave
    <2> QED  BY <1>2, <1>4, <2>1
  <1>6. CASE ~(input \notin {NoFile, output} /\ before[input].form = "archive")
    <2>1. source.form # "archive"
      BY <1>3, <1>6, PlainIs DEF Working
    <2>2. Content(segments) = <<>>
      BY <1>2, <2>1, NoArchiveGives, FileSegments DEF SegmentsOf
    <2>3. plain = <<>>
      <3>1. <<>> \in Seq(Byte) /\ Len(<<>>) = 0
        BY EmptySeq
      <3>2. Len(plain) \in 0..0 /\ plain = SubSeq(<<>>, 1, Len(plain))
        BY <1>2, <2>2, <3>1, PrefixIsBeginning
      <3> QED  BY <1>2, <3>1, <3>2, SubSeqEmpty
    <2> QED  BY <1>2, <1>4, <2>3, EmptyIsPrefix
  <1> QED  BY <1>5, <1>6

LEMMA RunningRest == ASSUME Core, at # "idle" PROVE Rest
  <1>1. CommandTypeOK /\ Started
    BY DEF Core, Running
  <1>2. CASE at \in {"open", "create"}
    <2>1. fs = before
      BY <1>2 DEF Core, Running, Preparing
    <2>2. LeftoversArePrefixes
      BY <1>1, <2>1, LeftoversAre
    <2> QED  BY <2>1, <2>2 DEF Rest, OthersUntouched
  <1>3. CASE at \notin {"open", "create"}
    <2>1. Working
      BY <1>3 DEF Core, Running
    <2>2. /\ \A x \in Names : fs[x] = IF Removed /\ x = input THEN Absent
                                      ELSE IF x = output THEN Product ELSE before[x]
          /\ Removed => cmd.rm /\ status \in {"closed", "done"}
          /\ output # NoFile => before[output] = Absent \/ cmd.force
      BY <2>1 DEF Working, Removed, Succeeded
    <2>3. OthersUntouched
      <3>1. NoFile \notin Names
        BY NamesAre
      <3> QED  BY <2>2, <3>1 DEF OthersUntouched
    <2>4. FromInput(Absent) /\ FromInput(Product)
      <3>1. Absent.form = "absent" /\ Gives(Absent) = <<>>
        BY GivesIs DEF Absent
      <3>2. CASE cmd.mode = "encode"
        <4>1. Product = Archive(written) /\ InputGave \in Seq(Byte)
          BY <2>1, <3>2, EncoderGives DEF Product
        <4> QED  BY <2>1, <3>1, <3>2, <4>1, EncoderGives, EmptyIsPrefix DEF FromInput
      <3>3. CASE cmd.mode # "encode"
        <4>1. InputGave \in Seq(Byte) /\ IsPrefix(plain, InputGave)
          BY <2>1, <3>3, DecoderGives
        <4>2. Product = Plain(plain)
          BY <3>3 DEF Product
        <4>3. Product.form = "plain" /\ Gives(Product) = plain
          BY <4>2, PlainIs, GivesIs
        <4> QED  BY <3>1, <4>1, <4>3, EmptyIsPrefix DEF FromInput
      <3> QED  BY <3>2, <3>3
    <2>5. LeftoversArePrefixes
      BY <1>1, <2>2, <2>4, LeftoversAre
    <2> QED  BY <2>3, <2>5 DEF Rest
  <1> QED  BY <1>2, <1>3

(* A step that ends a run, or that lets one begin. *)
LEMMA RestUnchanged ==
  ASSUME Rest, UNCHANGED <<fs, cmd, input, output, source, status, before>>
  PROVE  Rest'
  BY DEF Rest, OthersUntouched, LeftoversArePrefixes, InputGave, OwnHeader

LEMMA LeftoversThen ==
  ASSUME CommandTypeOK', \A x \in Names : fs'[x] # before'[x] => FromInput(fs[x])'
  PROVE  LeftoversArePrefixes'
  <1>1. \A x \in Names : \E d \in Feeds : IsPrefix(Gives(fs'[x]), d)
    BY MadeGives, BeginningsAre DEF CommandTypeOK
  <1> QED  BY <1>1, FileIntact DEF LeftoversArePrefixes, FromInput

(* A finished archive that is cut has lost its end, or whole blocks.         *)
LEMMA CutContent ==
  ASSUME NEW d \in Seq(Byte), NEW s \in Seq(SinkSegments), LeftOf(d, s),
         NEW g \in Truncations(Archive(s)), g.form = "archive"
  PROVE  /\ IsPrefix(Content(g.segments), d)
         /\ Content(g.segments) = d \/ Len(Content(g.segments)) % BlockSize = 0
  <1> DEFINE f == Archive(s)
  <1>1. f.form # "plain" /\ f.segments = s
    <2>1. CASE s = <<>>
      <3>1. f = Plain(<<>>)
        BY <2>1, ArchiveForm
      <3>2. f.form = "plain"
        BY <3>1, PlainIs
      <3> HIDE DEF f
      <3>3. \E k \in 0..Len(f.data) : g = Plain(SubSeq(f.data, 1, k))
        BY <3>2 DEF Truncations, f
      <3> QED  BY <3>3, PlainIs
    <2>2. CASE s # <<>>
      BY <2>2, ArchiveForm
    <2> QED  BY <2>1, <2>2
  <1>2. g \in Truncations(f)
    OBVIOUS
  <1> HIDE DEF f
  <1>3. PICK h : /\ g = Archive(h)
                 /\ \/ \E k \in 0..Len(s) : h = SubSeq(s, 1, k)
                    \/ \E k \in 0..Len(s) - 1 : h = Append(SubSeq(s, 1, k), Part)
    BY <1>1, <1>2, ArchiveCuts
  <1>4. g.segments = h
    BY <1>3, ArchiveForm
  <1>5. h \in Seq(SinkSegments) /\ LeftOf(d, h)
    BY <1>3, CutSegments
  <1> QED  BY <1>4, <1>5, LeftDecodes

LEMMA StepRest ==
  ASSUME Core, Core', Rest, [CommandNext]_commandVars, at' = "idle"
  PROVE  Rest'
  <1>1. CASE \E c \in Commands : Begin(c)
    <2>1. fs' = before' /\ CommandTypeOK'
      BY <1>1 DEF Begin, Core
    <2>2. LeftoversArePrefixes'
      BY <2>1, LeftoversThen
    <2> QED  BY <2>1, <2>2 DEF Rest, OthersUntouched
  <1>2. CASE \/ OpenInput \/ ProcessFails \/ Killed \/ UNCHANGED commandVars
             \/ ((CreateOutput \/ RemoveInput) /\ Fatal)
    <2>1. UNCHANGED <<fs, cmd, input, output, source, status, before>>
      BY <1>2 DEF OpenInput, ProcessFails, Killed, Fatal, End, Goto,
           commandVars, codecVars
    <2> QED  BY <2>1, RestUnchanged
  <1>3. CASE CloseOutput
    <2>1. CASE UNCHANGED fs
      BY <1>3, <2>1, CloseOutputIs, RestUnchanged
    <2>2. CASE ~UNCHANGED fs
      <3>1. /\ output # NoFile /\ fs[output] # Absent /\ at = "close"
            /\ UNCHANGED <<cmd, input, output, before, source, status>>
            /\ \E f \in Truncations(fs[output]) : fs' = [fs EXCEPT ![output] = f]
        BY <1>3, <2>2, CloseOutputIs
      <3>2. PICK f \in Truncations(fs[output]) : fs' = [fs EXCEPT ![output] = f]
        BY <3>1
      <3>3. CommandTypeOK /\ Started /\ Working /\ Succeeded /\ CommandTypeOK'
        BY <3>1 DEF Core, Running, Working
      <3>4. output \in Names /\ fs = [x \in Names |-> fs[x]]
        BY <3>1, <3>3 DEF CommandTypeOK
      <3>5. /\ fs'[output] = f
            /\ \A x \in Names : x # output => fs'[x] = fs[x]
        BY <3>2, <3>4
      <3>6. before[output] = Absent \/ cmd.force
        BY <3>1, <3>3 DEF Working
      <3>7. OthersUntouched'
        BY <3>1, <3>5, <3>6 DEF Rest, OthersUntouched
      <3>8. fs[output] = Product /\ InputGave' = InputGave
        BY <3>1, <3>3, <3>4 DEF Working, InputGave, OwnHeader
      <3>9. FromInput(f)
        <4>1. CASE cmd.mode = "encode"
          <5>1. /\ source.form = "plain" /\ source.data \in Seq(Byte)
                /\ InputGave = source.data /\ EncoderTypes /\ EncodedSoFar
            BY <3>1, <3>3, <4>1, EncoderGives
          <5>2. status = "closed" /\ fs[output] = Archive(written)
            BY <3>3, <3>8, <4>1 DEF Working, Succeeded, Product
          <5>3. LeftOf(source.data, written) /\ written \in Seq(SinkSegments)
            BY <5>1, <5>2, SourceTaken DEF EncodedSoFar, EncoderTypes
          <5>4. CASE f.form = "archive"
            <6>1. /\ IsPrefix(Content(f.segments), source.data)
                  /\ \/ Content(f.segments) = source.data
                     \/ Len(Content(f.segments)) % BlockSize = 0
              BY <5>1, <5>2, <5>3, <5>4, CutContent
            <6> QED  BY <5>1, <5>4, <6>1, GivesIs DEF FromInput
          <5>5. CASE f.form # "archive"
            <6>1. f = Plain(<<>>) \/ \E k \in 0..Len(<<>>) : f = Plain(SubSeq(<<>>, 1, k))
              <7>1. CASE written = <<>>
                <8>1. fs[output].form = "plain" /\ fs[output].data = <<>>
                  BY <5>2, <7>1, ArchiveForm, PlainIs
                <8>2. f \in Truncations(fs[output])
                  OBVIOUS
                <8> QED  BY <8>1, <8>2 DEF Truncations
              <7>2. CASE written # <<>>
                <8>1. fs[output].form # "plain"
                  BY <5>2, <7>2, ArchiveForm
                <8>2. PICK h : f = Archive(h)
                  BY <8>1, ArchiveCuts
                <8> QED  BY <5>5, <8>2, ArchiveForm
              <7> QED  BY <7>1, <7>2
            <6>2. f = Plain(<<>>)
              <7>1. Len(<<>>) = 0 /\ \A k \in 0..0 : SubSeq(<<>>, 1, k) = <<>>
                BY SubSeqEmpty
              <7> QED  BY <6>1, <7>1
            <6>3. f.form = "plain" /\ Gives(f) = <<>>
              BY <6>2, PlainIs, GivesIs
            <6> QED  BY <5>1, <6>3, EmptyIsPrefix DEF FromInput
          <5> QED  BY <5>4, <5>5
        <4>2. CASE cmd.mode # "encode"
          <5>1. InputGave \in Seq(Byte) /\ plain \in Seq(Byte) /\ IsPrefix(plain, InputGave)
            BY <3>1, <3>3, <4>2, DecoderGives
          <5>2. fs[output].form = "plain" /\ fs[output].data = plain
            BY <3>8, <4>2, PlainIs DEF Product
          <5>3. PICK k \in 0..Len(plain) : f = Plain(SubSeq(plain, 1, k))
            BY <5>2 DEF Truncations
          <5>4. /\ SubSeq(plain, 1, k) \in Seq(Byte) /\ IsPrefix(SubSeq(plain, 1, k), plain)
            BY <5>1, BeginningIs
          <5>5. IsPrefix(SubSeq(plain, 1, k), InputGave)
            BY <5>1, <5>4, PrefixTransitive
          <5>6. f.form = "plain" /\ Gives(f) = SubSeq(plain, 1, k)
            BY <5>3, PlainIs, GivesIs
          <5> QED  BY <5>5, <5>6 DEF FromInput
        <4> QED  BY <4>1, <4>2
      <3>10. ASSUME NEW x \in Names, fs'[x] # before'[x] PROVE FromInput(fs[x])'
        <4>1. CASE x = output
          BY <3>1, <3>5, <3>8, <3>9, <4>1 DEF FromInput
        <4>2. CASE x # output
          <5>1. fs'[x] = fs[x] /\ fs[x] # before[x]
            BY <3>1, <3>5, <3>10, <4>2
          <5>2. FromInput(fs[x])
            BY <5>1, FileIntact DEF Rest, LeftoversArePrefixes, FromInput
          <5> QED  BY <3>1, <3>8, <5>1, <5>2 DEF FromInput
        <4> QED  BY <4>1, <4>2
      <3>11. LeftoversArePrefixes'
        BY <3>3, <3>10, LeftoversThen
      <3> QED  BY <3>7, <3>11 DEF Rest
    <2> QED  BY <2>1, <2>2
  <1> QED  BY <1>1, <1>2, <1>3 DEF CommandNext, Done, CreateOutput, RemoveInput, Goto,
           Compress, Decompress, ProcessDone

-----------------------------------------------------------------------------
(* The inductive invariant of the command, over its runs: what a run has     *)
(* told the encoder or the decoder and has made of it, and what the runs     *)
(* before it left in the directory.  Under way, Rest follows from Core; it   *)
(* has to be carried over the step that ends the run, and while none is.     *)
UnderWay == at # "idle"

THEOREM CommandInvariant == CommandSpec => []Inv
  <1>1. CommandInit => Core /\ Rest
    BY InitCore, InitRest
  <1>2. Core /\ [CommandNext]_commandVars => Core'
    BY StepCore
  <1>3. Core /\ UnderWay => Rest
    BY RunningRest DEF UnderWay
  <1>4. Core /\ Core' /\ Rest /\ [CommandNext]_commandVars /\ ~UnderWay' => Rest'
    BY StepRest DEF UnderWay
  <1>5. Core /\ Rest => Inv
    BY DEF Core, Rest, Inv
  <1> QED  BY <1>1, <1>2, <1>3, <1>4, <1>5, PTL DEF CommandSpec

(* DataSurvives: whatever commands the user enters and wherever they fail or *)
(* are killed, the data stays in the directory, plain or as a whole archive, *)
(* unless the last file that held it was overwritten with -f, was removed as *)
(* an input without another output file, or was not closed without an error. *)
THEOREM CommandKeepsTheData == CommandSpec => []DataSurvives
  <1>1. Inv => DataSurvives
    BY DEF Inv
  <1> QED  BY <1>1, CommandInvariant, PTL

(* SuccessIsWhole: a run that ends with 0 has written the whole archive of   *)
(* its input, or all that an intact archive holds.                           *)
THEOREM CommandSuccessIsWhole == CommandSpec => []SuccessIsWhole
  <1>1. Inv => SuccessIsWhole
    BY DEF Inv
  <1> QED  BY <1>1, CommandInvariant, PTL

(* OthersUntouched: a run changes nothing but its output file, and removes   *)
(* nothing but its input, with -rm and after it has succeeded.               *)
THEOREM CommandTouchesNothingElse == CommandSpec => []OthersUntouched
  <1>1. Inv => OthersUntouched
    BY DEF Inv
  <1> QED  BY <1>1, CommandInvariant, PTL

(* LeftoversArePrefixes: what a run leaves behind, however it ended, gives   *)
(* only a beginning of what its input gave (or of a stream header, if it     *)
(* compressed a file onto itself in parallel), and a loss goes unnoticed     *)
(* only between two blocks.                                                  *)
THEOREM CommandLeavesPrefixes == CommandSpec => []LeftoversArePrefixes
  <1>1. Inv => LeftoversArePrefixes
    BY DEF Inv
  <1> QED  BY <1>1, CommandInvariant, PTL
=============================================================================
