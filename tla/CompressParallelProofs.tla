----------------------- MODULE CompressParallelProofs -----------------------
(***************************************************************************)
(* Proofs about CompressParallel, for every input, block size, compressor  *)
(* and number of workers, and every order in which the goroutines run: the *)
(* output begins the stream that the format prescribes, and is all of it   *)
(* once compressParallel has returned nil; and compressParallel implements *)
(* the same abstract encoder as the Writer.                                *)
(***************************************************************************)
EXTENDS CompressParallel, Bzip3FormatTheorems

(* Slot s belongs to the main goroutine, which may read into it: nothing is  *)
(* in its buffer, or a block that has been written.                          *)
Free(s) == \/ buffers[s] = Raw(<<>>)
           \/ \E k \in 1..Len(out) : out[k] = Payload(newSizes[s], buffers[s])

(* Slot s holds b: read, being encoded by its goroutine, or encoded.         *)
Holds(s, b) ==
  /\ origSizes[s] = Len(b) /\ Len(b) # 0
  /\ IF pc \in {"read", "spawn"} THEN buffers[s] = Raw(b)
     ELSE CASE worker[s] = "started"  -> buffers[s] = Raw(b)
            [] worker[s] = "encoding" -> buffers[s] = Busy(b)
            [] worker[s] = "done"     -> buffers[s] = Enc(b) /\ newSizes[s] = EncSize(b)
            [] OTHER                  -> FALSE

(* The round that begins after block b of the input: the first n slots hold  *)
(* its blocks, those below i have been written.  All blocks read are whole,  *)
(* but for the last one when the end of the input has been met.              *)
Round(b) ==
  /\ Len(out) = 1 + 2 * (b + i) + (IF pc = "writePayload" THEN 1 ELSE 0)
  /\ pos <= (b + n) * BlockSize /\ (b + n) * BlockSize < pos + BlockSize
  /\ ~eof => pos = (b + n) * BlockSize
  /\ pc = "read" => n < Workers /\ (eof => n = 0)
  /\ pc # "read" => n > 0 /\ (n < Workers => eof)
  /\ pc \in {"read", "spawn", "wait"} => i = 0
  /\ pc \in {"writeHeader", "writePayload"} => i < n
  /\ \A s \in Slot : s < n => Holds(s, Block(Data, b + s + 1))
  /\ \A s \in Slot : s < i \/ n <= s => Free(s)

InRound == pc \in {"read", "spawn", "wait", "writeHeader", "writePayload"}

Position ==
  /\ result = "none" <=> pc # "returned"
  /\ pc = "header" => /\ out = <<>> /\ pos = 0 /\ n = 0 /\ i = 0 /\ ~eof
                      /\ \A s \in Slot : buffers[s] = Raw(<<>>)
  /\ InRound => \E b \in 0..Len(out) : Round(b)
  /\ \A s \in Slot : worker[s] \in {"started", "encoding"} => pc = "wait" /\ s < n

IInv == TypeOK /\ Position /\ OutIsStreamPrefix /\ NilMeansComplete

-----------------------------------------------------------------------------
OutSegments == Segments(BufferContent)

LEMMA WorkersNatural == /\ Workers \in Nat \ {0, 1}
                        /\ 0 \in Slot
                        /\ \A s : s \in Slot <=> s \in Nat /\ s < Workers
  BY WorkersAssumption DEF Slot

(* Products in the position of a round. *)
LEMMA BlocksBefore ==
  ASSUME NEW k \in Nat
  PROVE  /\ k * BlockSize \in Nat
         /\ (k + 1) * BlockSize = k * BlockSize + BlockSize
         /\ 0 * BlockSize = 0
  BY BlockSizePositive, MulNatural, MulSuccessor

LEMMA DataPrefix ==
  ASSUME TypeOK
  PROVE  /\ Data \in Seq(Byte) /\ Len(Data) = pos
         /\ Len(Input) \in Nat /\ pos \in 0..Len(Input)
  BY InputAssumption, PrefixProperties, LenProperties DEF TypeOK, Data

(* What a Write leaves in the output. *)
LEMMA OutGrows ==
  ASSUME TypeOK, NEW seg \in OutSegments, out' = Append(out, seg)
  PROVE  /\ out' \in Seq(OutSegments)
         /\ Len(out) \in Nat /\ Len(out') = Len(out) + 1
         /\ out'[Len(out) + 1] = seg
         /\ \A k \in 1..Len(out) : out'[k] = out[k]
  BY AppendProperties, LenProperties DEF TypeOK, OutSegments

LEMMA PrefixExtended ==
  ASSUME TypeOK, OutIsStreamPrefix, result = "none", pos' = pos,
         NEW seg \in OutSegments, out' = Append(out, seg),
         seg = Segment(Data, Len(out) + 1)
  PROVE  OutIsStreamPrefix' /\ \A k \in 1..Len(out') : out'[k] = Segment(Data, k)
  <1>1. \A k \in 1..Len(out) : out'[k] = Segment(Data, k)
    BY OutGrows DEF OutIsStreamPrefix
  <1>2. Len(out') = Len(out) + 1 /\ out'[Len(out) + 1] = seg /\ Len(out) \in Nat
    BY OutGrows
  <1>3. \A k \in 1..Len(out') : out'[k] = Segment(Data, k)
    BY <1>1, <1>2
  <1>4. Data' = Data
    BY DEF Data
  <1> QED  BY <1>3, <1>4 DEF OutIsStreamPrefix

(* A slot that is free stays so while more is written. *)
LEMMA FreeStays ==
  ASSUME TypeOK, NEW s \in Slot, Free(s),
         buffers'[s] = buffers[s], newSizes'[s] = newSizes[s],
         out' = out \/ \E seg \in OutSegments : out' = Append(out, seg)
  PROVE  Free(s)'
  <1>1. CASE buffers[s] = Raw(<<>>)
    BY <1>1 DEF Free
  <1>2. CASE \E k \in 1..Len(out) : out[k] = Payload(newSizes[s], buffers[s])
    <2>1. PICK k \in 1..Len(out) : out[k] = Payload(newSizes[s], buffers[s])
      BY <1>2
    <2>2. k \in 1..Len(out') /\ out'[k] = out[k]
      BY OutGrows
    <2>3. out'[k] = Payload(newSizes'[s], buffers'[s])
      BY <2>1, <2>2
    <2> QED  BY <2>2, <2>3 DEF Free
  <1> QED  BY <1>1, <1>2 DEF Free

(* The program gives up. *)
LEMMA ReturnInv ==
  ASSUME IInv, pc # "wait", pc' = "returned", result' \in {"readErr", "writeErr"},
         out' = out \/ (result' = "writeErr" /\ out' = Append(out, Part)), result = "none",
         UNCHANGED <<pos, eof, buffers, origSizes, newSizes, worker, n, i>>
  PROVE  IInv'
  <1>1. Part \in OutSegments
    BY DEF OutSegments, Segments
  <1>2. TypeOK'
    BY <1>1, OutGrows DEF IInv, TypeOK, OutSegments
  <1>3. Position'
    BY DEF IInv, Position, InRound
  <1>4. OutIsStreamPrefix'
    <2>1. \A k \in 1..Len(out) : out[k] = Segment(Data, k)
      BY DEF IInv, OutIsStreamPrefix
    <2>2. Data' = Data
      BY DEF Data
    <2>3. CASE out' = out
      BY <2>1, <2>2, <2>3 DEF OutIsStreamPrefix
    <2>4. CASE result' = "writeErr" /\ out' = Append(out, Part)
      BY <1>1, <2>1, <2>2, <2>4, OutGrows DEF OutIsStreamPrefix, IInv
    <2> QED  BY <2>3, <2>4
  <1>5. NilMeansComplete'
    BY DEF NilMeansComplete
  <1> QED  BY <1>2, <1>3, <1>4, <1>5 DEF IInv

-----------------------------------------------------------------------------
(* The invariant holds at first. *)
LEMMA InitInv == Init => IInv
  <1> SUFFICES ASSUME Init PROVE IInv
    OBVIOUS
  <1>1. TypeOK
    <2>1. <<>> \in Seq(Segments(BufferContent)) /\ Raw(<<>>) \in BufferContent
      BY EmptySeq DEF Raw, BufferContent
    <2>2. pos \in 0..Len(Input) /\ 0 \in 0..BlockSize /\ n \in 0..Workers /\ i \in Slot
      BY InputAssumption, LenProperties, BlockSizePositive, WorkersNatural DEF Init
    <2>3. /\ buffers \in [Slot -> BufferContent] /\ origSizes \in [Slot -> 0..BlockSize]
          /\ newSizes \in [Slot -> Int]
          /\ worker \in [Slot -> {"none", "started", "encoding", "done"}]
      BY <2>1, <2>2 DEF Init
    <2>4. eof \in BOOLEAN
      BY Zenon DEF Init
    <2> QED  BY <2>1, <2>2, <2>3, <2>4 DEF Init, TypeOK
  <1>2. Position
    BY DEF Init, Position, InRound
  <1>3. OutIsStreamPrefix /\ NilMeansComplete
    BY DEF Init, OutIsStreamPrefix, NilMeansComplete
  <1> QED  BY <1>1, <1>2, <1>3 DEF IInv

LEMMA WriteHeaderInv == ASSUME IInv, WriteHeader PROVE IInv'
  <1>1. /\ pc = "header" /\ result = "none" /\ out = <<>> /\ pos = 0 /\ n = 0 /\ i = 0 /\ eof = FALSE
        /\ \A s \in Slot : buffers[s] = Raw(<<>>) /\ worker[s] \notin {"started", "encoding"}
        /\ UNCHANGED <<pos, eof, buffers, origSizes, newSizes, worker, n, i>>
    BY DEF WriteHeader, IInv, Position, TypeOK
  <1>2. CASE WriteFails
    BY <1>1, <1>2, ReturnInv DEF WriteFails, Return
  <1>3. CASE out' = Append(out, Header(BlockSize)) /\ pc' = "read" /\ UNCHANGED result
    <2>1. Header(BlockSize) \in OutSegments
      BY BlockSizePositive DEF Header, Segments, OutSegments
    <2>2. TypeOK'
      BY <1>1, <1>3, <2>1, OutGrows DEF IInv, TypeOK, OutSegments
    <2>3. Len(out) = 0 /\ Len(out') = 1
      BY <1>1, <1>3, <2>1, OutGrows DEF IInv
    <2>4. OutIsStreamPrefix'
      BY <1>1, <1>3, <2>1, <2>3, PrefixExtended DEF IInv, Segment
    <2>5. Round(0)'
      <3>1. \A s \in Slot : Free(s)' /\ ~(s < n')
        BY <1>1, WorkersNatural DEF Free
      <3>2. (0 + 0) * BlockSize = 0
        BY BlockSizePositive
      <3>3. /\ Len(out') = 1 + 2 * (0 + i')
            /\ pos' = 0 /\ n' = 0 /\ i' = 0 /\ eof' = FALSE /\ pc' = "read" /\ n' < Workers
        BY <1>1, <1>3, <2>3, WorkersNatural
      <3>4. /\ pos' <= (0 + n') * BlockSize /\ (0 + n') * BlockSize < pos' + BlockSize
            /\ pos' = (0 + n') * BlockSize
        BY <3>2, <3>3, BlockSizePositive
      <3> QED  BY <3>1, <3>3, <3>4 DEF Round
    <2>6. Position'
      <3>1. 0 \in 0..Len(out')
        BY <2>3
      <3> QED  BY <1>1, <1>3, <2>5, <3>1 DEF Position
    <2> QED  BY <1>1, <1>3, <2>2, <2>4, <2>6 DEF IInv, NilMeansComplete
  <1> QED  BY <1>2, <1>3 DEF WriteHeader

-----------------------------------------------------------------------------
(* A block is read into slot n: what the other slots hold is as it was.      *)
LEMMA ReadInto ==
  ASSUME IInv, pc = "read", ~eof, NEW b \in Nat, Round(b), NEW m \in 1..BlockSize,
         pos + m <= Len(Input),
         buffers' = [buffers EXCEPT ![n] = Raw(SubSeq(Input, pos + 1, pos + m))],
         origSizes' = [origSizes EXCEPT ![n] = m],
         pos' = pos + m, n' = n + 1, pc' \in {"read", "spawn"}, eof' \in BOOLEAN,
         result' = result,
         UNCHANGED <<out, newSizes, worker, i>>
  PROVE  /\ TypeOK' /\ OutIsStreamPrefix'
         /\ \A s \in Slot : s < n' => Holds(s, Block(Data, b + s + 1))'
         /\ \A s \in Slot : n' <= s => Free(s)'
         /\ pos' = (b + n) * BlockSize + m
  <1> DEFINE blk == SubSeq(Input, pos + 1, pos + m)
  <1>1. n \in Nat /\ n < Workers /\ n \in Slot /\ i = 0 /\ result = "none"
    <2>1. n \in Nat /\ n < Workers
      BY WorkersNatural DEF IInv, TypeOK, Round
    <2>2. i = 0
      BY DEF Round
    <2>3. result = "none"
      BY DEF IInv, Position
    <2> QED  BY <2>1, <2>2, <2>3, WorkersNatural
  <1>2. pos = (b + n) * BlockSize /\ b + n \in Nat /\ Len(out) = 1 + 2 * b
    BY <1>1 DEF Round
  <1>3. pos \in 0..Len(Input) /\ pos' \in 0..Len(Input) /\ pos' \in pos..Len(Input) /\ Len(Input) \in Nat
    BY DataPrefix, BlockSizePositive DEF IInv
  <1>4. Block(Data', b + n + 1) = blk /\ blk \in Seq(Byte) /\ Len(blk) = m
    <2>1. (b + n) * BlockSize + 1 = pos + 1 /\ pos' = pos + m
      BY <1>2
    <2>2. pos' = (b + n) * BlockSize + m
      BY <1>2
    <2>3. /\ Block(SubSeq(Input, 1, pos'), b + n + 1) = SubSeq(Input, (b + n) * BlockSize + 1, pos')
          /\ SubSeq(Input, (b + n) * BlockSize + 1, pos') \in Seq(Byte)
          /\ Len(SubSeq(Input, (b + n) * BlockSize + 1, pos')) = m
      <3> DEFINE k == b + n
      <3>1. k \in Nat /\ pos' = k * BlockSize + m /\ pos' \in 0..Len(Input)
        BY <1>2, <1>3, <2>2
      <3> HIDE DEF k
      <3>2. /\ Block(SubSeq(Input, 1, pos'), k + 1) = SubSeq(Input, k * BlockSize + 1, pos')
            /\ SubSeq(Input, k * BlockSize + 1, pos') \in Seq(Byte)
            /\ Len(SubSeq(Input, k * BlockSize + 1, pos')) = m
        BY <3>1, LastBlock, InputAssumption
      <3> QED  BY <3>2 DEF k
    <2> QED  BY <2>1, <2>3 DEF Data
  <1>5. Raw(blk) \in BufferContent
    BY <1>4 DEF Raw, BufferContent
  <1> HIDE DEF blk
  <1>6. /\ buffers' = [buffers EXCEPT ![n] = Raw(blk)]
        /\ buffers \in [Slot -> BufferContent] /\ origSizes \in [Slot -> 0..BlockSize]
    BY DEF blk, IInv, TypeOK
  <1>7. TypeOK'
    <2>1. buffers' \in [Slot -> BufferContent] /\ origSizes' \in [Slot -> 0..BlockSize]
      BY <1>1, <1>5, <1>6, BlockSizePositive
    <2>2. n' \in 0..Workers
      BY <1>1, WorkersNatural
    <2> QED  BY <1>1, <1>3, <2>1, <2>2 DEF IInv, TypeOK
  <1>8. OutIsStreamPrefix'
    <2> SUFFICES ASSUME NEW k \in 1..Len(out)
                 PROVE  out[k] = Segment(Data', k)
      BY DEF OutIsStreamPrefix
    <2>1. out[k] = Segment(Data, k)
      BY <1>1 DEF IInv, OutIsStreamPrefix
    <2>2. k \in Nat \ {0} /\ k \div 2 \in Nat /\ k \div 2 <= b + n
      BY <1>1, <1>2
    <2>3. (k \div 2) * BlockSize <= (b + n) * BlockSize
      BY <1>2, <2>2, BlockSizePositive, MulMonotonic
    <2>4. (k \div 2) * BlockSize <= pos
      BY <1>2, <2>3
    <2>5. Segment(SubSeq(Input, 1, pos), k) = Segment(SubSeq(Input, 1, pos'), k)
      BY <1>3, <2>2, <2>4, SegmentStable, InputAssumption
    <2> QED  BY <2>1, <2>5 DEF Data
  <1>9. ASSUME NEW s \in Slot, s < n'
        PROVE  Holds(s, Block(Data, b + s + 1))'
    <2>1. CASE s = n
      <3>1. origSizes'[s] = m /\ buffers'[s] = Raw(blk)
        BY <1>1, <1>6, <2>1
      <3> QED  BY <1>4, <2>1, <3>1 DEF Holds
    <2>2. CASE s # n
      <3>1. s \in Nat /\ s < n /\ origSizes'[s] = origSizes[s] /\ buffers'[s] = buffers[s]
        BY <1>1, <1>6, <1>9, <2>2, WorkersNatural
      <3>2. Holds(s, Block(Data, b + s + 1))
        BY <3>1 DEF Round
      <3>3. b + s + 1 \in Nat \ {0} /\ b + s + 1 <= b + n
        BY <1>1, <3>1
      <3>4. (b + s + 1) * BlockSize <= pos
        BY <1>2, <3>3, BlockSizePositive, MulMonotonic
      <3>5. Block(Data, b + s + 1) = Block(Data', b + s + 1)
        BY <1>3, <3>3, <3>4, BlockStable, InputAssumption DEF Data
      <3> QED  BY <3>1, <3>2, <3>5 DEF Holds
    <2> QED  BY <2>1, <2>2
  <1>10. ASSUME NEW s \in Slot, n' <= s
         PROVE  Free(s)'
    <2>1. s # n /\ n <= s
      BY <1>1, <1>10, WorkersNatural
    <2>2. Free(s) /\ buffers'[s] = buffers[s] /\ newSizes'[s] = newSizes[s]
      BY <1>6, <2>1 DEF Round
    <2> QED  BY <2>2, FreeStays DEF IInv
  <1> QED  BY <1>2, <1>7, <1>8, <1>9, <1>10

LEMMA ReadBlockInv == ASSUME IInv, ReadBlock PROVE IInv'
  <1>1. PICK b \in 0..Len(out) : Round(b)
    BY DEF ReadBlock, IInv, Position, InRound
  <1>2. b \in Nat /\ n \in Nat /\ n < Workers /\ i = 0 /\ result = "none" /\ b + n \in Nat
    BY <1>1, WorkersNatural DEF ReadBlock, IInv, TypeOK, Round, Position
  <1>3. /\ pc = "read" /\ eof = FALSE /\ eof' = FALSE /\ pos' = pos + BlockSize /\ n' = n + 1
        /\ pc' = IF n + 1 = Workers THEN "spawn" ELSE "read"
        /\ UNCHANGED <<out, newSizes, worker, i, result>>
    BY DEF ReadBlock, RoundFull, IInv, TypeOK
  <1>4. BlockSize \in 1..BlockSize /\ pos + BlockSize <= Len(Input)
    BY BlockSizePositive, DataPrefix DEF ReadBlock, IInv
  <1>5. /\ TypeOK' /\ OutIsStreamPrefix'
        /\ \A s \in Slot : s < n' => Holds(s, Block(Data, b + s + 1))'
        /\ \A s \in Slot : n' <= s => Free(s)'
        /\ pos' = (b + n) * BlockSize + BlockSize
    <2>1. /\ buffers' = [buffers EXCEPT ![n] = Raw(SubSeq(Input, pos + 1, pos + BlockSize))]
          /\ origSizes' = [origSizes EXCEPT ![n] = BlockSize]
      BY DEF ReadBlock
    <2>2. pc' \in {"read", "spawn"} /\ eof' \in BOOLEAN /\ ~eof
      BY <1>3
    <2> QED  BY <1>1, <1>2, <1>3, <1>4, <2>1, <2>2, ReadInto
  <1>6. (b + n') * BlockSize = (b + n) * BlockSize + BlockSize /\ (b + n) * BlockSize \in Nat
    <2>1. b + n' = (b + n) + 1
      BY <1>2, <1>3
    <2> QED  BY <1>2, <2>1, BlocksBefore
  <1>7. Round(b)'
    <2>1. Len(out') = 1 + 2 * (b + i') + (IF pc' = "writePayload" THEN 1 ELSE 0)
      BY <1>1, <1>3 DEF Round
    <2>2. /\ pos' <= (b + n') * BlockSize /\ (b + n') * BlockSize < pos' + BlockSize
          /\ pos' = (b + n') * BlockSize
      BY <1>5, <1>6, BlockSizePositive
    <2>3. /\ pc' = "read" => n' < Workers
          /\ pc' # "read" => n' > 0 /\ ~(n' < Workers)
      BY <1>2, <1>3, WorkersNatural
    <2>4. ~eof' /\ i' = 0 /\ pc' \in {"read", "spawn"}
      BY <1>2, <1>3
    <2>5. \A s \in Slot : ~(s < i')
      BY <2>4, WorkersNatural
    <2> QED  BY <1>5, <2>1, <2>2, <2>3, <2>4, <2>5 DEF Round
  <1>8. Position'
    BY <1>1, <1>2, <1>3, <1>7, WorkersNatural DEF Position, IInv
  <1> QED  BY <1>2, <1>3, <1>5, <1>8 DEF IInv, NilMeansComplete

(* At the end of the input the round has a short last block or none more.    *)
LEMMA ReadEndInv == ASSUME IInv, ReadEnd PROVE IInv'
  <1>1. PICK b \in 0..Len(out) : Round(b)
    BY DEF ReadEnd, IInv, Position, InRound
  <1>2. /\ b \in Nat /\ n \in Nat /\ n < Workers /\ i = 0 /\ result = "none" /\ pc = "read"
        /\ b + n \in Nat /\ Len(out) = 1 + 2 * b /\ n \in Slot
    <2>1. n \in Nat /\ n < Workers /\ pc = "read" /\ b \in Nat
      BY <1>1, WorkersNatural DEF ReadEnd, IInv, TypeOK, Round
    <2>2. i = 0 /\ Len(out) = 1 + 2 * b
      BY <1>1, <2>1 DEF Round
    <2>3. result = "none"
      BY <2>1 DEF IInv, Position
    <2> QED  BY <2>1, <2>2, <2>3, WorkersNatural
  <1>3. PICK m \in (IF eof THEN {0} ELSE 0..MinOf(BlockSize - 1, Len(Input) - pos)) :
          /\ origSizes' = [origSizes EXCEPT ![n] = m]
          /\ buffers' = IF m > 0 THEN [buffers EXCEPT ![n] = Raw(SubSeq(Input, pos + 1, pos + m))]
                        ELSE buffers
          /\ pos' = pos + m
          /\ n' = IF m > 0 THEN n + 1 ELSE n
    BY DEF ReadEnd
  <1>4. /\ m \in Nat /\ m < BlockSize /\ (m > 0 => ~eof /\ pos + m <= Len(Input))
        /\ pos \in Nat
    BY BlockSizePositive, DataPrefix DEF MinOf, IInv
  <1>5. /\ eof' = TRUE /\ UNCHANGED <<out, newSizes, worker, i>>
        /\ IF n' = 0 THEN pc' = "returned" /\ result' = "nil" ELSE pc' = "spawn" /\ result' = result
    BY DEF ReadEnd, Return
  <1>6. \A s \in Slot : worker'[s] \notin {"started", "encoding"}
    BY <1>2, <1>5 DEF IInv, Position
  <1>7. (b + n) * BlockSize \in Nat /\ ((b + n) + 1) * BlockSize = (b + n) * BlockSize + BlockSize
    BY <1>2, BlocksBefore
  <1>8. CASE m > 0
    <2>1. n' = n + 1 /\ pc' = "spawn" /\ result' = result /\ m \in 1..BlockSize
      BY <1>2, <1>3, <1>4, <1>5, <1>8, BlockSizePositive
    <2>2. /\ TypeOK' /\ OutIsStreamPrefix'
          /\ \A s \in Slot : s < n' => Holds(s, Block(Data, b + s + 1))'
          /\ \A s \in Slot : n' <= s => Free(s)'
          /\ pos' = (b + n) * BlockSize + m
      <3>1. /\ buffers' = [buffers EXCEPT ![n] = Raw(SubSeq(Input, pos + 1, pos + m))]
            /\ origSizes' = [origSizes EXCEPT ![n] = m] /\ pos' = pos + m
        BY <1>3, <1>8
      <3>2. pc' \in {"read", "spawn"} /\ eof' \in BOOLEAN /\ ~eof /\ pos + m <= Len(Input)
        BY <1>4, <1>5, <1>8, <2>1
      <3> QED  BY <1>1, <1>2, <1>5, <2>1, <3>1, <3>2, ReadInto
    <2>3. b + n' = (b + n) + 1
      BY <1>2, <2>1
    <2>4. /\ pos' <= (b + n') * BlockSize /\ (b + n') * BlockSize < pos' + BlockSize
      BY <1>4, <1>7, <1>8, <2>1, <2>2, <2>3, BlockSizePositive, SMTT(40)
    <2>5. \A s \in Slot : ~(s < i')
      BY <1>2, <1>5, WorkersNatural
    <2>6. Round(b)'
      BY <1>2, <1>5, <2>1, <2>2, <2>4, <2>5 DEF Round
    <2>7. Position'
      BY <1>1, <1>2, <1>5, <1>6, <2>1, <2>6 DEF Position
    <2> QED  BY <1>2, <1>5, <2>1, <2>2, <2>7 DEF IInv, NilMeansComplete
  <1>9. CASE m = 0
    <2>1. /\ buffers' = buffers /\ pos' = pos /\ n' = n /\ Data' = Data
          /\ \A s \in Slot : s # n => origSizes'[s] = origSizes[s]
          /\ origSizes' \in [Slot -> 0..BlockSize]
      BY <1>2, <1>3, <1>4, <1>9, BlockSizePositive DEF Data, IInv, TypeOK
    <2>2. TypeOK'
      BY <1>2, <1>5, <2>1 DEF IInv, TypeOK
    <2>3. OutIsStreamPrefix'
      BY <1>2, <1>5, <2>1 DEF IInv, OutIsStreamPrefix
    <2>4. CASE n = 0
      <3>1. NumBlocks(Data) = b
        <4>1. pos <= b * BlockSize /\ b * BlockSize < pos + BlockSize
          <5>1. b + n = b
            BY <1>2, <2>4
          <5> QED  BY <1>1, <5>1 DEF Round
        <4> QED  BY <1>2, <4>1, DataPrefix, NumBlocksFromEnd DEF IInv
      <3>2. \A k \in 1..Len(out) : out[k] = Segment(Data, k)
        BY <1>2 DEF IInv, OutIsStreamPrefix
      <3>3. out = Stream(Data)
        BY <1>2, <3>1, <3>2, StreamFromSegments DEF IInv, TypeOK
      <3>4. NilMeansComplete'
        BY <1>5, <2>1, <3>3 DEF NilMeansComplete
      <3>5. Position'
        BY <1>5, <1>6, <2>1, <2>4 DEF Position, InRound
      <3> QED  BY <2>2, <2>3, <3>4, <3>5 DEF IInv
    <2>5. CASE n # 0
      <3>1. pc' = "spawn" /\ result' = "none" /\ n' > 0 /\ i' = 0 /\ eof' = TRUE
        BY <1>2, <1>5, <2>1, <2>5
      <3>2. ASSUME NEW s \in Slot, s < n'
            PROVE  Holds(s, Block(Data, b + s + 1))'
        <4>1. s # n /\ s < n
          BY <1>2, <2>1, <3>2, WorkersNatural
        <4>2. Holds(s, Block(Data, b + s + 1))
          BY <1>1, <4>1 DEF Round
        <4> QED  BY <1>2, <2>1, <3>1, <4>1, <4>2 DEF Holds
      <3>3. ASSUME NEW s \in Slot, n' <= s
            PROVE  Free(s)'
        BY <1>1, <1>5, <2>1, <3>3, FreeStays DEF Round, IInv
      <3>4. \A s \in Slot : ~(s < i')
        BY <3>1, WorkersNatural
      <3>5. pos' <= (b + n') * BlockSize /\ (b + n') * BlockSize < pos' + BlockSize
        BY <1>1, <2>1 DEF Round
      <3>6. Round(b)'
        BY <1>2, <1>5, <3>1, <3>2, <3>3, <3>4, <3>5 DEF Round
      <3>7. Position'
        BY <1>1, <1>5, <1>6, <3>1, <3>6 DEF Position
      <3> QED  BY <2>2, <2>3, <3>1, <3>7 DEF IInv, NilMeansComplete
    <2> QED  BY <2>4, <2>5
  <1> QED  BY <1>4, <1>8, <1>9

LEMMA ReadFailsInv == ASSUME IInv, ReadFails PROVE IInv'
  BY ReturnInv DEF ReadFails, Return, IInv, Position

-----------------------------------------------------------------------------
LEMMA SpawnInv == ASSUME IInv, Spawn PROVE IInv'
  <1>1. PICK b \in 0..Len(out) : Round(b)
    BY DEF Spawn, IInv, Position, InRound
  <1>2. /\ pc = "spawn" /\ pc' = "wait" /\ result = "none"
        /\ \A s \in Slot : worker'[s] = IF s < n THEN "started" ELSE "none"
        /\ UNCHANGED <<pos, eof, out, buffers, origSizes, newSizes, n, i, result>>
    BY DEF Spawn, IInv, Position
  <1>3. TypeOK'
    BY <1>2 DEF Spawn, IInv, TypeOK
  <1>4. \A s \in Slot : s < n => Holds(s, Block(Data, b + s + 1))'
    BY <1>1, <1>2 DEF Round, Holds, Data
  <1>5. \A s \in Slot : s < i \/ n <= s => Free(s)'
    BY <1>1, <1>2 DEF Round, Free
  <1>6. Round(b)'
    BY <1>1, <1>2, <1>4, <1>5 DEF Round
  <1>7. Position'
    BY <1>2, <1>6 DEF Position
  <1> QED  BY <1>2, <1>3, <1>7 DEF IInv, OutIsStreamPrefix, NilMeansComplete, Data

(* A goroutine works on its own slot only. *)
LEMMA GoroutineInv ==
  ASSUME IInv, NEW s \in Slot, worker[s] \in {"started", "encoding"},
         NEW b \in 0..Len(out), Round(b),
         NEW w \in {"encoding", "done"}, NEW c \in BufferContent, NEW z \in Int,
         worker' = [worker EXCEPT ![s] = w],
         buffers' = [buffers EXCEPT ![s] = c],
         newSizes' = [newSizes EXCEPT ![s] = z],
         Holds(s, Block(Data, b + s + 1))',
         UNCHANGED <<pos, eof, out, origSizes, n, i, pc, result>>
  PROVE  IInv'
  <1>1. pc = "wait" /\ s < n /\ i = 0 /\ result = "none"
    <2>1. pc = "wait" /\ s < n
      BY DEF IInv, Position
    <2>2. i = 0 /\ result = "none"
      BY <2>1 DEF IInv, Position, Round
    <2> QED  BY <2>1, <2>2
  <1>2. \A r \in Slot : r # s => /\ worker'[r] = worker[r] /\ buffers'[r] = buffers[r]
                                 /\ newSizes'[r] = newSizes[r]
    BY DEF IInv, TypeOK
  <1>3. TypeOK'
    BY DEF IInv, TypeOK
  <1>4. ASSUME NEW r \in Slot, r < n
        PROVE  Holds(r, Block(Data, b + r + 1))'
    <2>1. CASE r = s
      BY <2>1
    <2>2. CASE r # s
      BY <1>1, <1>2, <1>4, <2>2 DEF Round, Holds, Data
    <2> QED  BY <2>1, <2>2
  <1>5. ASSUME NEW r \in Slot, r < i \/ n <= r
        PROVE  Free(r)'
    <2>1. r # s
      BY <1>1, <1>5, WorkersNatural DEF IInv, TypeOK
    <2> QED  BY <1>2, <1>5, <2>1 DEF Round, Free
  <1>6. Round(b)'
    BY <1>1, <1>4, <1>5 DEF Round
  <1>7. Position'
    BY <1>1, <1>2, <1>6 DEF IInv, Position
  <1> QED  BY <1>1, <1>3, <1>7 DEF IInv, OutIsStreamPrefix, NilMeansComplete, Data

LEMMA EncodeInv == ASSUME IInv, NEW s \in Slot, Goroutine(s) PROVE IInv'
  <1>1. worker[s] \in {"started", "encoding"}
    BY DEF Goroutine, BeginEncode, EndEncode
  <1>2. pc = "wait" /\ s < n
    BY <1>1 DEF IInv, Position
  <1>3. PICK b \in 0..Len(out) : Round(b)
    BY <1>2 DEF IInv, Position, InRound
  <1> DEFINE blk == Block(Data, b + s + 1)
  <1>4. Holds(s, blk) /\ origSizes[s] = Len(blk) /\ Len(blk) # 0
    BY <1>2, <1>3 DEF Round, Holds
  <1>5. origSizes[s] \in 0..BlockSize /\ buffers[s] \in BufferContent /\ newSizes[s] \in Int
    BY DEF IInv, TypeOK
  <1>6. buffers[s].data = blk /\ blk \in Seq(Byte)
    <2>1. buffers[s].data \in Seq(Byte)
      BY <1>5 DEF BufferContent
    <2>2. buffers[s].data = blk
      BY <1>1, <1>2, <1>4 DEF Holds, Raw, Busy
    <2> QED  BY <2>1, <2>2
  <1>7. Busy(blk) \in BufferContent /\ Enc(blk) \in BufferContent
    BY <1>6 DEF Busy, Enc, BufferContent
  <1>8. CASE BeginEncode(s)
    <2>1. SubSeq(blk, 1, Len(blk)) = blk
      BY <1>6, SubSeqFull
    <2>2. /\ worker' = [worker EXCEPT ![s] = "encoding"]
          /\ buffers' = [buffers EXCEPT ![s] = Busy(blk)]
          /\ newSizes' = [newSizes EXCEPT ![s] = newSizes[s]]
          /\ UNCHANGED <<pos, eof, out, origSizes, n, i, pc, result>>
      BY <1>4, <1>6, <1>8, <2>1 DEF BeginEncode, IInv, TypeOK
    <2>3. Holds(s, blk)'
      <3>1. worker'[s] = "encoding" /\ buffers'[s] = Busy(blk) /\ Data' = Data
        BY <2>2 DEF IInv, TypeOK, Data
      <3> QED  BY <1>2, <1>4, <2>2, <3>1 DEF Holds
    <2> QED  BY <1>1, <1>3, <1>5, <1>7, <2>2, <2>3, GoroutineInv
  <1>9. CASE EndEncode(s)
    <2>1. Len(blk) \in 1..BlockSize
      BY <1>4, <1>5, BlockSizePositive
    <2>2. EncSize(blk) \in Int
      BY <1>6, <2>1, EncSizeType
    <2>3. /\ worker' = [worker EXCEPT ![s] = "done"]
          /\ buffers' = [buffers EXCEPT ![s] = Enc(blk)]
          /\ newSizes' = [newSizes EXCEPT ![s] = EncSize(blk)]
          /\ UNCHANGED <<pos, eof, out, origSizes, n, i, pc, result>>
      BY <1>6, <1>9 DEF EndEncode
    <2>4. Holds(s, blk)'
      <3>1. /\ worker'[s] = "done" /\ buffers'[s] = Enc(blk) /\ newSizes'[s] = EncSize(blk)
            /\ Data' = Data
        BY <2>3 DEF IInv, TypeOK, Data
      <3> QED  BY <1>2, <1>4, <2>3, <3>1 DEF Holds
    <2> QED  BY <1>1, <1>3, <1>7, <2>2, <2>3, <2>4, GoroutineInv
  <1> QED  BY <1>8, <1>9 DEF Goroutine

-----------------------------------------------------------------------------
LEMMA WaitInv == ASSUME IInv, Wait PROVE IInv'
  <1>1. PICK b \in 0..Len(out) : Round(b)
    BY DEF Wait, IInv, Position, InRound
  <1>2. /\ pc = "wait" /\ pc' = "writeHeader" /\ result = "none" /\ i = 0 /\ i' = 0
        /\ \A s \in Slot : worker[s] \notin {"started", "encoding"}
        /\ UNCHANGED <<pos, eof, out, buffers, origSizes, newSizes, worker, n, result>>
    <2>1. pc = "wait" /\ \A s \in Slot : worker[s] \notin {"started", "encoding"}
      BY DEF Wait, AllDone
    <2> QED  BY <1>1, <2>1 DEF Wait, Round, IInv, Position
  <1>3. TypeOK'
    BY <1>2 DEF IInv, TypeOK
  <1>4. \A s \in Slot : s < n => Holds(s, Block(Data, b + s + 1))'
    BY <1>1, <1>2 DEF Round, Holds, Data
  <1>5. \A s \in Slot : s < i \/ n <= s => Free(s)'
    BY <1>1, <1>2 DEF Round, Free
  <1>6. n > 0
    BY <1>1, <1>2 DEF Round
  <1>7. Round(b)'
    BY <1>1, <1>2, <1>4, <1>5, <1>6 DEF Round
  <1>8. Position'
    BY <1>2, <1>7 DEF Position
  <1> QED  BY <1>2, <1>3, <1>8 DEF IInv, OutIsStreamPrefix, NilMeansComplete, Data

(* What is in the slot that is written next. *)
LEMMA NextToWrite ==
  ASSUME IInv, pc \in {"writeHeader", "writePayload"}, NEW b \in 0..Len(out), Round(b)
  PROVE  /\ b \in Nat /\ n \in Nat /\ i \in Nat /\ i < n /\ n <= Workers /\ i \in Slot
         /\ result = "none" /\ b + i \in Nat
         /\ \A s \in Slot : worker[s] \notin {"started", "encoding"}
         /\ Segment(Data, 2 * (b + i) + 2) = BlockHeader(newSizes[i], origSizes[i])
         /\ Segment(Data, 2 * (b + i) + 3) = Payload(newSizes[i], buffers[i])
         /\ BlockHeader(newSizes[i], origSizes[i]) \in OutSegments
         /\ Payload(newSizes[i], buffers[i]) \in OutSegments
  <1>1. i \in Slot /\ n \in 0..Workers /\ i < n
    BY DEF IInv, TypeOK, Round
  <1>2. b \in Nat /\ n \in Nat /\ i \in Nat /\ n <= Workers /\ b + i \in Nat
    BY <1>1, WorkersNatural
  <1>3. result = "none" /\ \A s \in Slot : worker[s] \notin {"started", "encoding"}
    BY DEF IInv, Position
  <1> DEFINE blk == Block(Data, b + i + 1)
  <1>4. Holds(i, blk)
    BY <1>1 DEF Round
  <1>5. /\ origSizes[i] = Len(blk) /\ newSizes[i] = EncSize(blk) /\ buffers[i] = Enc(blk)
    BY <1>1, <1>3, <1>4 DEF Holds
  <1>6. blk = Block(Data, (b + i) + 1)
    BY <1>2
  <1>7. /\ Segment(Data, 2 * (b + i) + 2) = BlockHeader(newSizes[i], origSizes[i])
        /\ Segment(Data, 2 * (b + i) + 3) = Payload(newSizes[i], buffers[i])
    BY <1>2, <1>5, <1>6, BlockSegments, ZenonT(60)
  <1>8. origSizes[i] \in Int /\ newSizes[i] \in Int /\ buffers[i] \in BufferContent
    BY <1>1, BlockSizePositive DEF IInv, TypeOK
  <1>9. /\ BlockHeader(newSizes[i], origSizes[i]) \in OutSegments
        /\ Payload(newSizes[i], buffers[i]) \in OutSegments
    BY <1>8 DEF BlockHeader, Payload, OutSegments, Segments
  <1> QED  BY <1>1, <1>2, <1>3, <1>7, <1>9

LEMMA WriteBlockHeaderInv == ASSUME IInv, WriteBlockHeader PROVE IInv'
  <1>1. PICK b \in 0..Len(out) : Round(b)
    BY DEF WriteBlockHeader, IInv, Position, InRound
  <1>2. /\ pc = "writeHeader" /\ result = "none"
        /\ UNCHANGED <<pos, eof, buffers, origSizes, newSizes, worker, n, i>>
    BY DEF WriteBlockHeader, IInv, Position
  <1>3. CASE WriteFails
    BY <1>2, <1>3, ReturnInv DEF WriteFails, Return
  <1>4. CASE /\ out' = Append(out, BlockHeader(newSizes[i], origSizes[i]))
             /\ pc' = "writePayload"
             /\ UNCHANGED result
    <2> DEFINE seg == BlockHeader(newSizes[i], origSizes[i])
    <2>1. /\ b \in Nat /\ b + i \in Nat /\ seg \in OutSegments /\ i < n
          /\ seg = Segment(Data, 2 * (b + i) + 2)
      BY <1>1, <1>2, NextToWrite
    <2>2. Len(out) = 1 + 2 * (b + i)
      BY <1>1, <1>2, <2>1 DEF Round
    <2>3. Len(out') = Len(out) + 1 /\ out' \in Seq(OutSegments)
      BY <1>4, <2>1, OutGrows DEF IInv
    <2>4. TypeOK'
      BY <1>2, <1>4, <2>3 DEF IInv, TypeOK, OutSegments
    <2>5. OutIsStreamPrefix'
      <3>1. Len(out) + 1 = 2 * (b + i) + 2
        BY <2>1, <2>2
      <3> QED  BY <1>2, <1>4, <2>1, <3>1, PrefixExtended DEF IInv
    <2>6. \A s \in Slot : s < n => Holds(s, Block(Data, b + s + 1))'
      BY <1>1, <1>2, <1>4 DEF Round, Holds, Data
    <2>7. ASSUME NEW s \in Slot, s < i \/ n <= s
          PROVE  Free(s)'
      BY <1>1, <1>2, <1>4, <2>1, <2>7, FreeStays DEF Round, IInv
    <2>8. Round(b)'
      <3>1. Len(out') = 1 + 2 * (b + i') + 1
        BY <1>2, <2>2, <2>3
      <3> QED  BY <1>1, <1>2, <1>4, <2>1, <2>6, <2>7, <3>1 DEF Round
    <2>9. Position'
      <3>1. b \in 0..Len(out')
        BY <2>1, <2>2, <2>3
      <3> QED  BY <1>2, <1>4, <2>8, <3>1 DEF IInv, Position
    <2> QED  BY <1>2, <1>4, <2>4, <2>5, <2>9 DEF IInv, NilMeansComplete
  <1> QED  BY <1>3, <1>4 DEF WriteBlockHeader

(* The block after the last of a full round is the first of the next round.  *)
LEMMA WritePayloadInv == ASSUME IInv, WritePayload PROVE IInv'
  <1>1. PICK b \in 0..Len(out) : Round(b)
    BY DEF WritePayload, IInv, Position, InRound
  <1>2. /\ pc = "writePayload" /\ result = "none"
        /\ UNCHANGED <<pos, eof, buffers, origSizes, newSizes, worker>>
    BY DEF WritePayload, IInv, Position
  <1>3. CASE WriteFails /\ UNCHANGED <<n, i>>
    BY <1>2, <1>3, ReturnInv DEF WriteFails, Return
  <1>4. CASE /\ out' = Append(out, Payload(newSizes[i], buffers[i]))
             /\ IF i + 1 < n
                  THEN i' = i + 1 /\ pc' = "writeHeader" /\ UNCHANGED <<n, result>>
                  ELSE /\ IF LastRound THEN Return("nil") ELSE pc' = "read" /\ UNCHANGED result
                       /\ n' = 0
                       /\ i' = 0
    <2> DEFINE seg == Payload(newSizes[i], buffers[i])
    <2>1. /\ b \in Nat /\ n \in Nat /\ i \in Nat /\ i < n /\ n <= Workers /\ i \in Slot
          /\ \A s \in Slot : worker'[s] \notin {"started", "encoding"}
          /\ seg \in OutSegments /\ seg = Segment(Data, 2 * (b + i) + 3)
      BY <1>1, <1>2, NextToWrite
    <2>2. Len(out) = 2 + 2 * (b + i)
      BY <1>1, <1>2, <2>1 DEF Round
    <2>3. /\ Len(out') = 3 + 2 * (b + i) /\ out' \in Seq(OutSegments)
          /\ out'[Len(out) + 1] = seg /\ Len(out) + 1 \in 1..Len(out')
      BY <1>4, <2>1, <2>2, OutGrows DEF IInv
    <2>4. OutIsStreamPrefix' /\ \A k \in 1..Len(out') : out'[k] = Segment(Data, k)
      <3>1. Len(out) + 1 = 2 * (b + i) + 3
        BY <2>1, <2>2
      <3> QED  BY <1>2, <1>4, <2>1, <3>1, PrefixExtended DEF IInv
    <2>5. ASSUME NEW s \in Slot, s <= i \/ n <= s
          PROVE  Free(s)'
      <3>1. CASE s = i
        <4>1. \A r \in Slot : r = i => Free(r)'
          BY <1>2, <2>1, <2>3 DEF Free
        <4> QED  BY <3>1, <4>1
      <3>2. CASE s # i
        <4>1. s < i \/ n <= s
          BY <2>1, <2>5, <3>2, WorkersNatural
        <4> QED  BY <1>1, <1>2, <1>4, <2>1, <4>1, FreeStays DEF Round, IInv
      <3> QED  BY <3>1, <3>2
    <2>6. CASE i + 1 < n
      <3>1. /\ i' = i + 1 /\ pc' = "writeHeader" /\ n' = n /\ result' = "none"
        BY <1>2, <1>4, <2>6
      <3>2. TypeOK'
        <4>1. i + 1 \in Slot
          BY <2>1, <2>6, WorkersNatural
        <4> QED  BY <1>2, <2>3, <3>1, <4>1 DEF IInv, TypeOK, OutSegments
      <3>3. \A s \in Slot : s < n' => Holds(s, Block(Data, b + s + 1))'
        BY <1>1, <1>2, <3>1 DEF Round, Holds, Data
      <3>4. \A s \in Slot : s < i' \/ n' <= s => Free(s)'
        BY <2>1, <2>5, <3>1, WorkersNatural
      <3>5. Len(out') = 1 + 2 * (b + i') /\ b \in 0..Len(out')
        BY <2>1, <2>3, <3>1
      <3>6. Round(b)'
        BY <1>1, <1>2, <2>1, <2>6, <3>1, <3>3, <3>4, <3>5 DEF Round
      <3>7. Position'
        BY <2>1, <3>1, <3>5, <3>6 DEF Position
      <3> QED  BY <2>4, <3>1, <3>2, <3>7 DEF IInv, NilMeansComplete
    <2>7. CASE ~(i + 1 < n)
      <3>1. /\ n' = 0 /\ i' = 0 /\ i + 1 = n
            /\ IF n < Workers THEN pc' = "returned" /\ result' = "nil"
               ELSE pc' = "read" /\ result' = "none"
        BY <1>2, <1>4, <2>1, <2>7 DEF LastRound, Return
      <3>2. TypeOK'
        <4>1. /\ pc' \in {"returned", "read"} /\ result' \in {"nil", "none"}
              /\ n' \in 0..Workers /\ i' \in Slot
          BY <3>1, WorkersNatural
        <4> QED  BY <1>2, <2>3, <4>1 DEF IInv, TypeOK, OutSegments
      <3>3. /\ b + n \in Nat /\ Len(out') = 1 + 2 * (b + n) /\ b + n \in 0..Len(out')
            /\ b + n + 0 = b + n
        BY <2>1, <2>3, <3>1
      <3>4. /\ pos <= (b + n) * BlockSize /\ (b + n) * BlockSize < pos + BlockSize
            /\ ~eof => pos = (b + n) * BlockSize
            /\ n < Workers => eof
        BY <1>1, <1>2 DEF Round
      <3>5. CASE n < Workers
        <4>1. NumBlocks(Data) = b + n
          BY <3>3, <3>4, DataPrefix, NumBlocksFromEnd DEF IInv
        <4>2. out' = Stream(Data)
          BY <2>3, <2>4, <3>3, <4>1, StreamFromSegments
        <4>3. NilMeansComplete'
          BY <1>2, <3>4, <3>5, <4>2 DEF NilMeansComplete, Data
        <4>4. Position'
          BY <2>1, <3>1, <3>5 DEF Position, InRound
        <4> QED  BY <2>4, <3>2, <4>3, <4>4 DEF IInv
      <3>6. CASE ~(n < Workers)
        <4>1. pc' = "read" /\ result' = "none" /\ n' < Workers
          BY <3>1, <3>6, WorkersNatural
        <4>2. \A s \in Slot : ~(s < n')
          BY <3>1, WorkersNatural
        <4>3. \A s \in Slot : Free(s)'
          BY <2>1, <2>5, <3>1, WorkersNatural
        <4> PICK c \in Nat : c = b + n
          BY <3>3
        <4>4. /\ c + n' = c /\ c + i' = c
          BY <3>1
        <4>5. /\ Len(out') = 1 + 2 * c /\ pos' = pos /\ eof' = eof
              /\ pos <= c * BlockSize /\ c * BlockSize < pos + BlockSize
              /\ ~eof => pos = c * BlockSize
              /\ c \in 0..Len(out')
          BY <1>2, <3>3, <3>4
        <4>6. Round(c)'
          BY <3>1, <4>1, <4>2, <4>3, <4>4, <4>5 DEF Round
        <4>7. Position'
          BY <2>1, <4>1, <4>5, <4>6 DEF Position
        <4> QED  BY <2>4, <3>2, <4>1, <4>7 DEF IInv, NilMeansComplete
      <3> QED  BY <3>5, <3>6
    <2> QED  BY <2>6, <2>7
  <1> QED  BY <1>3, <1>4 DEF WritePayload

-----------------------------------------------------------------------------
LEMMA StutterInv == ASSUME IInv, UNCHANGED vars PROVE IInv'
  BY DEF IInv, TypeOK, Position, InRound, Round, Holds, Free, OutIsStreamPrefix,
         NilMeansComplete, Data, vars

LEMMA NextInv == IInv /\ [Next]_vars => IInv'
  <1> SUFFICES ASSUME IInv, [Next]_vars PROVE IInv'
    OBVIOUS
  <1>1. CASE WriteHeader
    BY <1>1, WriteHeaderInv
  <1>2. CASE ReadBlock
    BY <1>2, ReadBlockInv
  <1>3. CASE ReadEnd
    BY <1>3, ReadEndInv
  <1>4. CASE ReadFails
    BY <1>4, ReadFailsInv
  <1>5. CASE Spawn
    BY <1>5, SpawnInv
  <1>6. CASE Wait
    BY <1>6, WaitInv
  <1>7. CASE WriteBlockHeader
    BY <1>7, WriteBlockHeaderInv
  <1>8. CASE WritePayload
    BY <1>8, WritePayloadInv
  <1>9. CASE \E s \in Slot : Goroutine(s)
    BY <1>9, EncodeInv
  <1>10. CASE Returned \/ UNCHANGED vars
    BY <1>10, StutterInv DEF Returned
  <1> QED  BY <1>1, <1>2, <1>3, <1>4, <1>5, <1>6, <1>7, <1>8, <1>9, <1>10 DEF Next, Main

(***************************************************************************)
(* Whatever the order in which the goroutines of a round run, and wherever *)
(* a read or a write fails: a buffer holds the block of the input that its *)
(* slot of the round stands for, encoded once its goroutine is done, the   *)
(* output begins the stream that the format prescribes for the bytes read, *)
(* and a nil result means that it is the stream of the whole input         *)
(* (cmd/bzip3/main.go, compressParallel).                                  *)
(***************************************************************************)
THEOREM ParallelInvariant == Spec => []IInv
  <1>1. Init => IInv
    BY InitInv
  <1>2. IInv /\ [Next]_vars => IInv'
    BY NextInv
  <1> QED  BY <1>1, <1>2, PTL DEF Spec

(* A nil result is only returned with the whole input encoded.               *)
THEOREM ParallelCompletes == Spec => []NilMeansComplete
  <1>1. IInv => NilMeansComplete
    BY DEF IInv
  <1> QED  BY <1>1, ParallelInvariant, PTL

-----------------------------------------------------------------------------
(***************************************************************************)
(* A block buffer is only changed by the goroutine that has it, while the  *)
(* main goroutine waits, or by a read of the main goroutine, when what it  *)
(* held has been written (compressParallel, the buffers of the rounds).    *)
(***************************************************************************)
THEOREM BuffersAreOwned == Spec => BufferOwnership
  <1> DEFINE Owned == \A s \in Slot :
               buffers'[s] # buffers[s] =>
                 \/ worker[s] \in {"started", "encoding"} /\ pc = "wait"
                 \/ /\ pc = "read" /\ worker[s] \in {"none", "done"}
                    /\ buffers[s] = Raw(<<>>)
                       \/ \E k \in 1..Len(out) : out[k] = Payload(newSizes[s], buffers[s])
  <1>1. IInv /\ [Next]_vars => [Owned]_vars
    <2> SUFFICES ASSUME IInv, [Next]_vars, NEW s \in Slot, buffers'[s] # buffers[s]
                 PROVE  \/ worker[s] \in {"started", "encoding"} /\ pc = "wait"
                        \/ pc = "read" /\ worker[s] \in {"none", "done"} /\ Free(s)
      BY DEF Free
    <2>1. CASE ReadBlock \/ ReadEnd
      <3>1. pc = "read" /\ s = n
        BY <2>1 DEF ReadBlock, ReadEnd, IInv, TypeOK
      <3>2. worker[s] \in {"none", "done"}
        BY <3>1 DEF IInv, TypeOK, Position
      <3>3. PICK b \in 0..Len(out) : Round(b)
        BY <3>1 DEF IInv, Position, InRound
      <3>4. Free(s)
        BY <3>1, <3>3, WorkersNatural DEF Round
      <3> QED  BY <3>1, <3>2, <3>4
    <2>2. CASE \E r \in Slot : Goroutine(r)
      <3>1. PICK r \in Slot : Goroutine(r)
        BY <2>2
      <3>2. worker[r] \in {"started", "encoding"} /\ r = s
        BY <3>1 DEF Goroutine, BeginEncode, EndEncode, IInv, TypeOK
      <3> QED  BY <3>2 DEF IInv, Position
    <2>3. CASE \/ WriteHeader \/ ReadFails \/ Spawn \/ Wait \/ WriteBlockHeader
               \/ WritePayload \/ Returned \/ UNCHANGED vars
      BY <2>3 DEF WriteHeader, ReadFails, Spawn, Wait, WriteBlockHeader, WritePayload,
                  Returned, vars
    <2> QED  BY <2>1, <2>2, <2>3 DEF Next, Main
  <1> QED  BY <1>1, ParallelInvariant, PTL DEF Spec, BufferOwnership
-----------------------------------------------------------------------------
(***************************************************************************)
(* compressParallel implements the same abstract encoder as the Writer.    *)
(***************************************************************************)

(* The instance uses the same format. *)
LEMMA SameFormat ==
  ASSUME NEW data, NEW k
  PROVE  /\ Abstract!Segment(data, k) = Segment(data, k)
         /\ Abstract!Stream(data) = Stream(data)
         /\ Abstract!Part = Part
         /\ Abstract!Data = Data
  BY DEF Abstract!Segment, Abstract!Stream, Abstract!Part, Abstract!Data, Abstract!Block,
         Abstract!Header, Abstract!BlockHeader, Abstract!Payload, Abstract!Enc, Abstract!MinOf,
         Abstract!NumBlocks, Segment, Stream, Part, Data, Block, Header, BlockHeader, Payload,
         Enc, MinOf, NumBlocks

LEMMA StatusWhileRunning ==
  ASSUME result = "none"
  PROVE  StreamStatus = (IF eof THEN "ending" ELSE "open") /\ Abstract!Running
  BY DEF StreamStatus, Abstract!Running

(* A segment written is one emitted, and a Write that failed a failure. *)
LEMMA WriteStep ==
  ASSUME result = "none", UNCHANGED pos,
         Abstract!Ready(Len(out) + 1),
         NEW seg, seg = Segment(Data, Len(out) + 1),
         \/ /\ out' = Append(out, seg)
            /\ \/ UNCHANGED <<eof, result>>
               \/ eof /\ result' = "nil" /\ out' = Stream(Data)
         \/ WriteFails
  PROVE  Abstract!Next
  <1>1. CASE out' = Append(out, seg) /\ UNCHANGED <<eof, result>>
    <2>1. UNCHANGED StreamStatus
      BY <1>1 DEF StreamStatus
    <2>2. Abstract!Emit
      BY <1>1, <2>1, StatusWhileRunning, SameFormat DEF Abstract!Emit
    <2> QED  BY <2>2 DEF Abstract!Next
  <1>2. CASE out' = Append(out, seg) /\ eof /\ result' = "nil" /\ out' = Stream(Data)
    <2>1. StreamStatus = "ending" /\ StreamStatus' = "closed"
      BY <1>2 DEF StreamStatus
    <2>2. Abstract!Emit
      BY <1>2, <2>1, StatusWhileRunning, SameFormat DEF Abstract!Emit
    <2> QED  BY <2>2 DEF Abstract!Next
  <1>3. CASE WriteFails
    <2>1. StreamStatus' = "failed"
      BY <1>3 DEF WriteFails, Return, StreamStatus
    <2>2. Abstract!Fail
      BY <1>3, <2>1, StatusWhileRunning, SameFormat DEF WriteFails, Abstract!Fail
    <2> QED  BY <2>2 DEF Abstract!Next
  <1> QED  BY <1>1, <1>2, <1>3

LEMMA WriteHeaderSteps == ASSUME IInv, WriteHeader PROVE Abstract!Next
  <1>1. /\ result = "none" /\ out = <<>> /\ UNCHANGED <<pos, eof>>
    BY DEF IInv, Position, WriteHeader
  <1>2. Len(out) + 1 = 1
    BY <1>1
  <1>3. Abstract!Ready(Len(out) + 1) /\ Header(BlockSize) = Segment(Data, Len(out) + 1)
    BY <1>2 DEF Abstract!Ready, Segment
  <1> QED  BY <1>1, <1>3, WriteStep DEF WriteHeader

LEMMA ReadBlockSteps == ASSUME IInv, ReadBlock PROVE Abstract!Next
  <1>1. result = "none" /\ eof = FALSE /\ eof' = FALSE /\ UNCHANGED <<out, result>>
    BY DEF IInv, TypeOK, Position, ReadBlock
  <1>2. StreamStatus = "open" /\ StreamStatus' = "open"
    BY <1>1 DEF StreamStatus
  <1>3. pos' \in pos..Len(Input)
    BY DataPrefix, BlockSizePositive DEF IInv, ReadBlock
  <1>4. Abstract!Take
    BY <1>1, <1>2, <1>3 DEF Abstract!Take
  <1> QED  BY <1>4 DEF Abstract!Next

(* The end of the input becomes known, and ends a round or the program.      *)
LEMMA ReadEndSteps == ASSUME IInv, ReadEnd PROVE Abstract!Next
  <1>1. result = "none" /\ pc = "read" /\ eof' = TRUE /\ UNCHANGED out
    BY DEF IInv, Position, ReadEnd
  <1>2. PICK b \in 0..Len(out) : Round(b)
    BY <1>1 DEF IInv, Position, InRound
  <1>3. n \in Nat /\ (eof => n = 0)
    BY <1>1, <1>2, WorkersNatural DEF IInv, TypeOK, Round
  <1>4. PICK m \in (IF eof THEN {0} ELSE 0..MinOf(BlockSize - 1, Len(Input) - pos)) :
          pos' = pos + m /\ n' = IF m > 0 THEN n + 1 ELSE n
    BY DEF ReadEnd
  <1>5. CASE n' = 0
    <2>1. result' = "nil"
      BY <1>5 DEF ReadEnd, Return
    <2>2. pos' = pos
      <3>1. m \in Nat /\ m = 0
        BY <1>3, <1>4, <1>5, BlockSizePositive, DataPrefix DEF IInv, MinOf
      <3> QED  BY <1>4, <3>1, DataPrefix DEF IInv
    <2>3. out = Stream(Data)
      <3>1. (out = Stream(Data))'
        BY <2>1, ReadEndInv DEF IInv, NilMeansComplete
      <3> QED  BY <1>1, <2>2, <3>1 DEF Data
    <2>4. Abstract!Close
      BY <1>1, <2>1, <2>2, <2>3, StatusWhileRunning, SameFormat DEF StreamStatus, Abstract!Close
    <2> QED  BY <2>4 DEF Abstract!Next
  <1>6. CASE n' # 0
    <2>1. result' = "none"
      BY <1>1, <1>6 DEF ReadEnd
    <2>2. eof = FALSE
      BY <1>3, <1>4, <1>6 DEF IInv, TypeOK
    <2>3. pos' \in pos..Len(Input)
      BY <1>4, <2>2, DataPrefix, BlockSizePositive DEF IInv, MinOf
    <2>4. StreamStatus = "open" /\ StreamStatus' = "ending"
      BY <1>1, <2>1, <2>2 DEF StreamStatus
    <2>5. Abstract!Take
      BY <1>1, <2>3, <2>4 DEF Abstract!Take
    <2> QED  BY <2>5 DEF Abstract!Next
  <1> QED  BY <1>5, <1>6

LEMMA ReadFailsSteps == ASSUME IInv, ReadFails PROVE Abstract!Next
  <1>1. result = "none" /\ result' = "readErr" /\ UNCHANGED <<out, pos>>
    BY DEF IInv, Position, ReadFails, Return
  <1>2. Abstract!Fail
    BY <1>1, StatusWhileRunning DEF StreamStatus, Abstract!Fail
  <1> QED  BY <1>2 DEF Abstract!Next

(* The blocks of a round are whole, but for the last when the input is at    *)
(* its end: they may be emitted.                                             *)
LEMMA RoundReady ==
  ASSUME IInv, pc \in {"writeHeader", "writePayload"}, NEW b \in 0..Len(out), Round(b)
  PROVE  Abstract!Ready(2 * (b + i) + 2) /\ Abstract!Ready(2 * (b + i) + 3)
  <1>1. PICK k \in Nat : k = b + i
    BY NextToWrite
  <1>2. PICK q \in Nat : q = b + n
    BY NextToWrite
  <1>3. k + 1 \in Nat /\ k + 1 <= q /\ pos \in Nat
    <2>1. b \in Nat /\ i \in Nat /\ n \in Nat /\ i < n
      BY NextToWrite
    <2>2. pos \in Nat
      BY DataPrefix DEF IInv
    <2> QED  BY <1>1, <1>2, <2>1, <2>2
  <1>4. /\ (k + 1) * BlockSize = k * BlockSize + BlockSize /\ k * BlockSize \in Nat
        /\ q * BlockSize \in Nat
    BY <1>1, <1>2, BlocksBefore
  <1>5. q * BlockSize < pos + BlockSize /\ (~eof => pos = q * BlockSize)
    BY <1>2 DEF Round
  <1>6. (k + 1) * BlockSize <= q * BlockSize
    BY <1>3, BlockSizePositive, MulMonotonic
  <1>7. k * BlockSize < pos /\ (~eof => (k + 1) * BlockSize <= pos)
    BY <1>3, <1>4, <1>5, <1>6, BlockSizePositive
  <1>8. (2 * k + 2) \div 2 = k + 1 /\ (2 * k + 3) \div 2 = k + 1 /\ k + 1 - 1 = k
    OBVIOUS
  <1>9. eof => StreamStatus = "ending"
    BY NextToWrite, StatusWhileRunning
  <1>10. Abstract!Ready(2 * k + 2) /\ Abstract!Ready(2 * k + 3)
    BY <1>7, <1>8, <1>9 DEF Abstract!Ready
  <1> QED  BY <1>1, <1>10

LEMMA WriteBlockHeaderSteps == ASSUME IInv, WriteBlockHeader PROVE Abstract!Next
  <1>1. PICK b \in 0..Len(out) : Round(b)
    BY DEF WriteBlockHeader, IInv, Position, InRound
  <1>2. pc = "writeHeader" /\ UNCHANGED <<pos, eof>>
    BY DEF WriteBlockHeader
  <1>3. result = "none" /\ Len(out) + 1 = 2 * (b + i) + 2
    <2>1. result = "none" /\ b + i \in Nat
      BY <1>1, <1>2, NextToWrite
    <2>2. Len(out) = 1 + 2 * (b + i) + 0
      BY <1>1, <1>2 DEF Round
    <2> QED  BY <2>1, <2>2
  <1>4. /\ Abstract!Ready(Len(out) + 1)
        /\ BlockHeader(newSizes[i], origSizes[i]) = Segment(Data, Len(out) + 1)
    BY <1>1, <1>2, <1>3, NextToWrite, RoundReady
  <1> QED  BY <1>2, <1>3, <1>4, WriteStep DEF WriteBlockHeader

(* The last block of the input closes the stream.                            *)
LEMMA WritePayloadSteps == ASSUME IInv, WritePayload PROVE Abstract!Next
  <1>1. PICK b \in 0..Len(out) : Round(b)
    BY DEF WritePayload, IInv, Position, InRound
  <1>2. pc = "writePayload" /\ UNCHANGED <<pos, eof>>
    BY DEF WritePayload
  <1>3. result = "none" /\ Len(out) + 1 = 2 * (b + i) + 3 /\ (n < Workers => eof)
    <2>1. result = "none" /\ b + i \in Nat
      BY <1>1, <1>2, NextToWrite
    <2>2. Len(out) = 1 + 2 * (b + i) + 1 /\ (n < Workers => eof)
      BY <1>1, <1>2 DEF Round
    <2> QED  BY <2>1, <2>2
  <1>4. /\ Abstract!Ready(Len(out) + 1)
        /\ Payload(newSizes[i], buffers[i]) = Segment(Data, Len(out) + 1)
    BY <1>1, <1>2, <1>3, NextToWrite, RoundReady
  <1>5. result' = "nil" => out' = Stream(Data)
    BY <1>2, WritePayloadInv DEF IInv, NilMeansComplete, Data
  <1>6. \/ /\ out' = Append(out, Payload(newSizes[i], buffers[i]))
           /\ \/ UNCHANGED result
              \/ eof /\ result' = "nil"
        \/ WriteFails
    BY <1>3 DEF WritePayload, LastRound, Return
  <1> QED  BY <1>2, <1>3, <1>4, <1>5, <1>6, WriteStep

(* Steps that the abstract encoder does not have. *)
LEMMA InnerSteps ==
  ASSUME Spawn \/ Wait \/ (\E s \in Slot : Goroutine(s)) \/ Returned \/ UNCHANGED vars
  PROVE  UNCHANGED Abstract!vars
  <1>1. UNCHANGED <<pos, eof, out, result>>
    BY DEF Spawn, Wait, Goroutine, BeginEncode, EndEncode, Returned, vars
  <1> QED  BY <1>1 DEF StreamStatus, Abstract!vars

(***************************************************************************)
(* Whatever the order of the goroutines, and wherever a read or a write    *)
(* fails, compressParallel (cmd/bzip3/main.go) behaves as an encoder of    *)
(* the format may: -j changes neither what is written nor in which order.  *)
(***************************************************************************)
THEOREM ParallelImplementsEncoder == Spec => RefinesEncodedStream
  <1>1. Init => Abstract!Init
    BY DEF Init, StreamStatus, Abstract!Init
  <1>2. IInv /\ [Next]_vars => [Abstract!Next]_(Abstract!vars)
    <2> SUFFICES ASSUME IInv, [Next]_vars
                 PROVE  Abstract!Next \/ UNCHANGED Abstract!vars
      OBVIOUS
    <2>1. CASE WriteHeader
      BY <2>1, WriteHeaderSteps
    <2>2. CASE ReadBlock
      BY <2>2, ReadBlockSteps
    <2>3. CASE ReadEnd
      BY <2>3, ReadEndSteps
    <2>4. CASE ReadFails
      BY <2>4, ReadFailsSteps
    <2>5. CASE WriteBlockHeader
      BY <2>5, WriteBlockHeaderSteps
    <2>6. CASE WritePayload
      BY <2>6, WritePayloadSteps
    <2>7. CASE Spawn \/ Wait \/ (\E s \in Slot : Goroutine(s)) \/ Returned \/ UNCHANGED vars
      BY <2>7, InnerSteps
    <2> QED  BY <2>1, <2>2, <2>3, <2>4, <2>5, <2>6, <2>7 DEF Next, Main
  <1> QED  BY <1>1, <1>2, ParallelInvariant, PTL DEF Spec, RefinesEncodedStream, Abstract!Spec
=============================================================================
