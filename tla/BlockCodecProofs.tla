-------------------------- MODULE BlockCodecProofs --------------------------
(***************************************************************************)
(* Proofs about BlockCodec, for every block size, every choice of stages   *)
(* and every header: no slice is out of range, unless the coder makes more *)
(* than its bound; data whose CRC is that of the source are the source;    *)
(* and a block told its true size comes back.  The last section, from "The *)
(* frame" on, proves Frame, in which the blocks are put one after another. *)
(***************************************************************************)
EXTENDS BlockCodec, Frame, SequenceTheorems, TLAPS

(* What the stages that were kept have made of the data, one after another.  *)
Source   == Content(<<>>, origSize)
AfterRle == IF modelRLE \in block.model THEN Through(Source, "rle", block.rleSize) ELSE Source
AfterLzp == IF modelLZP \in block.model THEN Through(AfterRle, "lzp", block.lzpSize)
            ELSE AfterRle
AfterBwt == Through(AfterLzp, "bwt", AfterLzp.len)
Coded(n) == Through(AfterBwt, "cm", n)

(* The stages of data in a buffer were applied to what the buffers can hold. *)
Sized(d) == \A k \in 1..Len(d.stages) : d.stages[k].before <= Bound(BlockSize)

BothSized == Sized(mem.buffer) /\ Sized(mem.swap)

(* What has not returned has not failed. *)
Unfailed == pc # "returned" => result.err \in {"none", "nil"}

(* A CRC of this model's data is that of the source. *)
CrcOfSource == block.crc = Unknown \/ block.crc = Source

(* A stage is kept only if it makes the block smaller.                       *)
Shrinking ==
  /\ modelRLE \in block.model => block.rleSize \in 1..origSize - 1
  /\ modelLZP \in block.model => block.lzpSize \in 1..AfterRle.len - 1

Encodes == pc \in {"rle", "lzp", "bwt", "cm", "finish"}

(* EncodeBlock: the data after the stages so far is in b1, at its size.      *)
Encoding ==
  /\ pc = "encode" =>
       /\ original /\ block = EmptyBlock /\ b1 = "buffer"
       /\ bufLen <= Bound(origSize) /\ origSize \in DataSizes
  /\ Encodes =>
       /\ original /\ ~block.stored /\ block.crc = Source
       /\ origSize \in 64..BlockSize /\ bufLen = Bound(origSize)
       /\ Shrinking
       /\ block.compressedSize = 0
  /\ pc = "encoded" => original
  /\ pc = "rle" => block.model = {} /\ b1 = "buffer"
  /\ pc = "lzp" => modelLZP \notin block.model
  /\ pc = "lzp" => b1 = IF modelRLE \in block.model THEN "swap" ELSE "buffer"
  /\ pc \in {"rle", "lzp", "bwt"} => mem[b1] = AfterLzp /\ size = AfterLzp.len
  /\ pc = "cm" => size = AfterLzp.len
  /\ pc \in {"cm", "finish"} => mem[b2] = AfterBwt /\ block.bwtIdx = AfterLzp.len
  /\ pc = "finish" => mem[b1] = Coded(size) /\ size \in Nat

(* A block that EncodeBlock has returned; of any other, only that the buffer *)
(* holds what is there of its payload.                                       *)
StoredBlock ==
  /\ origSize < 64 /\ origSize <= BlockSize
  /\ block.stored /\ block.bwtIdx = -1
  /\ block.compressedSize = origSize + 8
  /\ block.crc = Source /\ block.payload = Source

CodedBlock ==
  /\ ~block.stored /\ origSize \in 64..BlockSize
  /\ Shrinking
  /\ block.bwtIdx = AfterLzp.len
  /\ LET n == block.payload.len
     IN  /\ n \in Nat /\ n + HeaderLen(block.model) <= Bound(origSize)
         /\ block.compressedSize = n + HeaderLen(block.model)
         /\ block.crc = Source /\ block.payload = Coded(n)

Decodes == pc \in {"undoCm", "undoBwt", "undoLzp", "undoRle", "check"}

GoodBlock ==
  IF original
    THEN /\ pc \in {"encoded", "decode"} \/ Decodes \/ block.compressedSize > 0
              => StoredBlock \/ CodedBlock
         /\ pc = "encoded" => bufLen = Bound(origSize)
         /\ pc = "decode" \/ Decodes => bufLen >= Bound(origSize)
    ELSE Sized(block.payload) /\ block.payload.len <= bufLen

(* A size that either buffer can hold. *)
Fits(n) == n \in 0..Bound(BlockSize) /\ n <= bufLen

(* DecodeBlock: the sizes of the header have been checked, and the data so   *)
(* far is in b1, at its size.                                                *)
Decoding ==
  /\ pc = "decode" => b1 = "buffer" /\ size = 0
  /\ Decodes =>
       /\ block.bwtIdx # -1
       /\ Fits(told)
       /\ modelLZP \in block.model => Fits(block.lzpSize)
       /\ modelRLE \in block.model => Fits(block.rleSize)
       /\ HeaderLen(block.model) <= bufLen /\ block.compressedSize <= bufLen
       /\ Fits(size)
  /\ pc = "undoCm" => b1 = "buffer" /\ mem.buffer = block.payload
  /\ pc = "undoBwt" => b1 = "swap"
  /\ pc = "undoLzp" => b1 = "buffer"
  /\ pc \in {"undoCm", "undoBwt", "undoLzp"} => size = SizeBeforeBwt
  /\ pc = "undoRle" =>
       IF modelLZP \in block.model THEN b1 = "swap" ELSE b1 = "buffer" /\ size = SizeBeforeBwt
  /\ pc = "check" => size = told \/ block.model = {modelLZP}
  /\ pc \in {"undoBwt", "undoLzp", "undoRle", "check"} => mem[b1].len = size

(* Told the true size, each step finds what the step of the encoder it       *)
(* undoes has made.                                                          *)
Retracing ==
  original /\ told = origSize =>
    /\ pc = "undoBwt" => mem[b1] = AfterBwt
    /\ pc = "undoLzp" => mem[b1] = AfterLzp
    /\ pc = "undoRle" => mem[b1] = AfterRle
    /\ pc = "check" => mem[b1] = Source

IInv == /\ Inv /\ BothSized /\ Unfailed /\ CrcOfSource
        /\ Encoding /\ GoodBlock /\ Decoding /\ Retracing
        /\ BlockRoundTrips /\ NeverWrongData

-----------------------------------------------------------------------------
StageNames == {"rle", "lzp", "bwt", "cm", "garbage"}
Stages     == [stage : StageNames, before : Nat]

LEMMA Limits ==
  /\ BlockSize \in Nat \ {0}
  /\ \A a \in Nat : Bound(a) \in Nat /\ Bound(a) >= a + 32
  /\ \A a, b \in Nat : a <= b => Bound(a) <= Bound(b)
  BY SizesAssumption DEF Bound

(* Facts about the last element of a sequence and those before it. *)
LEMMA AppendLast ==
  ASSUME NEW s \in Seq(Stages), NEW x \in Stages
  PROVE  /\ Append(s, x) \in Seq(Stages) /\ Append(s, x) # <<>>
         /\ Last(Append(s, x)) = x
         /\ Front(Append(s, x)) = s
         /\ Len(Append(s, x)) = Len(s) + 1
         /\ \A k \in 1..Len(s) + 1 : Append(s, x)[k] = IF k = Len(s) + 1 THEN x ELSE s[k]
  <1> DEFINE t == Append(s, x)
  <1>1. /\ t \in Seq(Stages) /\ Len(t) = Len(s) + 1 /\ Len(s) \in Nat
        /\ \A k \in 1..Len(s) : t[k] = s[k]
        /\ t[Len(s) + 1] = x
    BY AppendProperties, LenProperties
  <1>2. Last(t) = x
    BY <1>1 DEF Last
  <1>3. Front(t) = [k \in 1..Len(s) |-> s[k]]
    BY <1>1 DEF Front
  <1>4. s = [k \in 1..Len(s) |-> s[k]]
    BY LenProperties
  <1>5. t # <<>>
    BY <1>1, EmptySeq
  <1> QED  BY <1>1, <1>2, <1>3, <1>4, <1>5

LEMMA FrontLast ==
  ASSUME NEW s \in Seq(Stages), s # <<>>
  PROVE  /\ Len(s) \in Nat \ {0}
         /\ Last(s) = s[Len(s)] /\ Last(s) \in Stages
         /\ Front(s) \in Seq(Stages) /\ Len(Front(s)) = Len(s) - 1
         /\ \A k \in 1..Len(s) - 1 : Front(s)[k] = s[k]
         /\ Front(s) = <<>> <=> Len(s) = 1
  <1>1. Len(s) \in Nat \ {0}
    BY EmptySeq, LenProperties
  <1>2. Last(s) = s[Len(s)] /\ Last(s) \in Stages
    BY <1>1, ElementOfSeq DEF Last
  <1>3. Front(s) = [k \in 1..Len(s) - 1 |-> s[k]]
    BY DEF Front
  <1>4. \A k \in 1..Len(s) - 1 : s[k] \in Stages
    BY <1>1, ElementOfSeq
  <1>5. Front(s) \in Seq(Stages) /\ Len(Front(s)) = Len(s) - 1
    BY <1>1, <1>3, <1>4
  <1>6. Front(s) = <<>> <=> Len(Front(s)) = 0
    BY <1>5, EmptySeq
  <1> QED  BY <1>1, <1>2, <1>3, <1>5, <1>6

-----------------------------------------------------------------------------
LEMMA GarbageData ==
  ASSUME NEW n \in Int
  PROVE  /\ Garbage(n) \in Data /\ Garbage(n).len = n
         /\ Sized(Garbage(n))
         /\ \A m : Garbage(n) # Content(<<>>, m)
  <1> DEFINE s == <<[stage |-> "garbage", before |-> 0]>>
  <1>1. s \in Seq(Stages) /\ Len(s) = 1 /\ s[1] = [stage |-> "garbage", before |-> 0] /\ s # <<>>
    BY DEF Stages, StageNames
  <1>2. Garbage(n).stages = s /\ Garbage(n).len = n
    BY DEF Garbage, Content
  <1>3. Garbage(n) \in Data
    BY <1>1 DEF Garbage, Content, Data, Stages, StageNames
  <1>4. Sized(Garbage(n))
    <2>1. 0 <= Bound(BlockSize)
      BY Limits
    <2> QED  BY <1>1, <1>2, <2>1 DEF Sized
  <1>5. \A m : Content(<<>>, m).stages = <<>>
    BY DEF Content
  <1> QED  BY <1>1, <1>2, <1>3, <1>4, <1>5

(* What a stage makes of data, and what undoing it makes of that.            *)
LEMMA ThroughData ==
  ASSUME NEW d \in Data, d.len \in 0..Bound(BlockSize),
         NEW st \in StageNames \ {"garbage"}, NEW n \in Int
  PROVE  LET t == Through(d, st, n)
         IN  /\ t \in Data /\ t.len = n
             /\ LastStage(t) /\ Last(t.stages).stage = st /\ Last(t.stages).before = d.len
             /\ Undo(t) = d
             /\ Sized(d) => Sized(t)
  <1> DEFINE x == [stage |-> st, before |-> d.len]
             t == Through(d, st, n)
  <1>1. x \in Stages /\ x.stage = st /\ x.before = d.len
    BY Limits DEF Stages
  <1>2. d.stages \in Seq(Stages) /\ d = [stages |-> d.stages, len |-> d.len]
    BY DEF Data, Stages, StageNames
  <1>3. t.stages = Append(d.stages, x) /\ t.len = n
    BY DEF Through, Content
  <1>4. t \in Data
    BY <1>1, <1>2, AppendLast DEF Through, Content, Data, Stages, StageNames
  <1> HIDE DEF x
  <1>5. LastStage(t) /\ Last(t.stages) = x
    BY <1>1, <1>2, <1>3, AppendLast DEF LastStage
  <1>6. Undo(t) = d
    BY <1>1, <1>2, <1>3, <1>5, AppendLast DEF Undo, Content
  <1>7. ASSUME Sized(d) PROVE Sized(t)
    BY <1>1, <1>2, <1>3, <1>7, AppendLast DEF Sized
  <1> QED  BY <1>1, <1>3, <1>4, <1>5, <1>6, <1>7

(* Undoing a stage gives data that either buffer can hold. *)
LEMMA UndoData ==
  ASSUME NEW d \in Data, Sized(d), LastStage(d)
  PROVE  /\ Undo(d) \in Data
         /\ Undo(d).len = Last(d.stages).before
         /\ Undo(d).len \in 0..Bound(BlockSize)
         /\ Sized(Undo(d))
  <1> DEFINE s == d.stages
             u == Undo(d)
  <1>1. s \in Seq(Stages) /\ s # <<>> /\ Last(s).stage # "garbage"
    BY DEF Data, Stages, StageNames, LastStage
  <1>2. u.stages = Front(s) /\ u.len = Last(s).before /\ u = Content(Front(s), Last(s).before)
    BY DEF Undo, Content
  <1>a. \A k \in 1..Len(s) : s[k].before <= Bound(BlockSize)
    BY DEF Sized
  <1> HIDE DEF s, u
  <1>b. /\ Len(s) \in Nat \ {0} /\ Last(s) = s[Len(s)] /\ Last(s) \in Stages
        /\ Front(s) \in Seq(Stages) /\ Len(Front(s)) = Len(s) - 1
        /\ \A k \in 1..Len(s) - 1 : Front(s)[k] = s[k]
        /\ Front(s) = <<>> <=> Len(s) = 1
    BY <1>1, FrontLast
  <1>3. u.len \in 0..Bound(BlockSize)
    <2>1. Last(s).before \in Nat /\ Len(s) \in 1..Len(s)
      BY <1>b DEF Stages
    <2>2. Last(s).before <= Bound(BlockSize)
      BY <1>a, <1>b, <2>1
    <2>3. Bound(BlockSize) \in Nat
      BY Limits
    <2> QED  BY <1>2, <2>1, <2>2, <2>3
  <1>4. u \in Data
    <2>1. u = [stages |-> Front(s), len |-> u.len]
      BY <1>2 DEF Content
    <2>2. u.len \in Int
      BY <1>3, Limits
    <2> QED  BY <1>b, <2>1, <2>2 DEF Data, Stages, StageNames
  <1>5. Sized(u)
    <2>1. \A k \in 1..Len(Front(s)) : Front(s)[k].before <= Bound(BlockSize)
      BY <1>a, <1>b
    <2> QED  BY <1>2, <2>1 DEF Sized
  <1> QED  BY <1>2, <1>3, <1>4, <1>5 DEF s, u

-----------------------------------------------------------------------------
Fields == [compressedSize : Int, stored : BOOLEAN, bwtIdx : Int,
           model : SUBSET {modelLZP, modelRLE}, lzpSize : Int, rleSize : Int,
           crc : Data, payload : Data]

LEMMA SourceData ==
  ASSUME NEW n \in Int
  PROVE  Content(<<>>, n) \in Data /\ Content(<<>>, n).len = n /\ Sized(Content(<<>>, n))
  <1>1. <<>> \in Seq(Stages) /\ Len(<<>>) = 0
    BY EmptySeq
  <1>2. Content(<<>>, n).stages = <<>> /\ Content(<<>>, n).len = n
    BY DEF Content
  <1> QED  BY <1>1, <1>2 DEF Content, Data, Stages, StageNames, Sized

(* The stages of a block, each of which the next one of the decoder undoes.  *)
LEMMA ChainData ==
  ASSUME origSize \in 64..BlockSize, block \in Fields, Shrinking
  PROVE  /\ AfterRle \in Data /\ AfterLzp \in Data /\ AfterBwt \in Data
         /\ AfterRle.len \in 1..origSize /\ AfterLzp.len \in 1..AfterRle.len
         /\ AfterBwt.len = AfterLzp.len /\ AfterLzp.len \in 1..origSize
         /\ Sized(AfterRle) /\ Sized(AfterLzp)
         /\ Sized(AfterBwt)
         /\ Undoes(AfterBwt, "bwt", AfterLzp.len) /\ Undo(AfterBwt) = AfterLzp
         /\ modelLZP \in block.model =>
              /\ AfterLzp.len = block.lzpSize
              /\ LastStage(AfterLzp) /\ Last(AfterLzp.stages).stage = "lzp"
              /\ Undo(AfterLzp) = AfterRle
         /\ modelLZP \notin block.model => AfterLzp = AfterRle
         /\ modelRLE \in block.model =>
              /\ AfterRle.len = block.rleSize
              /\ Undoes(AfterRle, "rle", origSize) /\ Undo(AfterRle) = Source
         /\ modelRLE \notin block.model => AfterRle = Source /\ AfterRle.len = origSize
  <1>1. /\ origSize \in Nat /\ origSize >= 64 /\ origSize <= BlockSize
        /\ BlockSize <= Bound(BlockSize) /\ Bound(BlockSize) \in Nat /\ BlockSize \in Nat
    BY Limits
  <1>2. Source \in Data /\ Source.len = origSize /\ Sized(Source)
    BY <1>1, SourceData DEF Source
  <1>3. /\ AfterRle \in Data /\ AfterRle.len \in 1..origSize /\ Sized(AfterRle)
        /\ modelRLE \in block.model =>
             /\ AfterRle.len = block.rleSize
             /\ Undoes(AfterRle, "rle", origSize) /\ Undo(AfterRle) = Source
        /\ modelRLE \notin block.model => AfterRle = Source /\ AfterRle.len = origSize
    <2>1. CASE modelRLE \in block.model
      <3>1. block.rleSize \in 1..origSize - 1 /\ block.rleSize \in Int
        BY <1>1, <2>1 DEF Shrinking
      <3>2. AfterRle = Through(Source, "rle", block.rleSize)
        BY <2>1 DEF AfterRle
      <3>3. Source.len \in 0..Bound(BlockSize) /\ "rle" \in StageNames \ {"garbage"}
        BY <1>1, <1>2 DEF StageNames
      <3> QED  BY <1>1, <1>2, <2>1, <3>1, <3>2, <3>3, ThroughData DEF Undoes
    <2>2. CASE modelRLE \notin block.model
      BY <1>1, <1>2, <2>2 DEF AfterRle
    <2> QED  BY <2>1, <2>2
  <1>4. /\ AfterLzp \in Data /\ AfterLzp.len \in 1..AfterRle.len /\ Sized(AfterLzp)
        /\ modelLZP \in block.model =>
             /\ AfterLzp.len = block.lzpSize
             /\ LastStage(AfterLzp) /\ Last(AfterLzp.stages).stage = "lzp"
             /\ Undo(AfterLzp) = AfterRle
        /\ modelLZP \notin block.model => AfterLzp = AfterRle
    <2>1. CASE modelLZP \in block.model
      <3>1. block.lzpSize \in 1..AfterRle.len - 1 /\ block.lzpSize \in Int
        BY <1>3, <2>1 DEF Shrinking
      <3>2. AfterLzp = Through(AfterRle, "lzp", block.lzpSize)
        BY <2>1 DEF AfterLzp
      <3>3. AfterRle.len \in 0..Bound(BlockSize) /\ "lzp" \in StageNames \ {"garbage"}
        BY <1>1, <1>3 DEF StageNames
      <3> QED  BY <1>1, <1>3, <2>1, <3>1, <3>2, <3>3, ThroughData
    <2>2. CASE modelLZP \notin block.model
      BY <1>1, <1>3, <2>2 DEF AfterLzp
    <2> QED  BY <2>1, <2>2
  <1>5. AfterLzp.len \in 1..origSize /\ AfterLzp.len \in 0..Bound(BlockSize)
    BY <1>1, <1>3, <1>4
  <1>6. /\ AfterBwt \in Data /\ AfterBwt.len = AfterLzp.len /\ Sized(AfterBwt)
        /\ Undoes(AfterBwt, "bwt", AfterLzp.len) /\ Undo(AfterBwt) = AfterLzp
    <2>1. "bwt" \in StageNames \ {"garbage"} /\ AfterLzp.len \in Int
      BY <1>1, <1>5 DEF StageNames
    <2> QED  BY <1>4, <1>5, <2>1, ThroughData DEF AfterBwt, Undoes
  <1> QED  BY <1>3, <1>4, <1>5, <1>6

(* What the arithmetic coder makes of the last of them. *)
LEMMA CodedData ==
  ASSUME origSize \in 64..BlockSize, block \in Fields, Shrinking, NEW n \in Nat
  PROVE  /\ Coded(n) \in Data /\ Coded(n).len = n /\ Sized(Coded(n))
         /\ Undoes(Coded(n), "cm", AfterLzp.len) /\ Undo(Coded(n)) = AfterBwt
  <1>1. /\ AfterBwt \in Data /\ AfterBwt.len = AfterLzp.len /\ Sized(AfterBwt)
        /\ AfterLzp.len \in 1..origSize
    BY ChainData
  <1>2. AfterBwt.len \in 0..Bound(BlockSize)
    BY <1>1, Limits, SMTT(40)
  <1>3. "cm" \in StageNames \ {"garbage"} /\ n \in Int
    BY DEF StageNames
  <1> QED  BY <1>1, <1>2, <1>3, ThroughData DEF Coded, Undoes

-----------------------------------------------------------------------------
(* The two buffers: b1 and b2 are one each. *)
LEMMA TwoBuffers ==
  ASSUME TypeOK
  PROVE  /\ mem.buffer \in Data /\ mem.swap \in Data /\ mem[b1] \in Data /\ mem[b2] \in Data
         /\ block \in Fields
         /\ b1 = "buffer" => b2 = "swap" /\ mem[b1] = mem.buffer /\ mem[b2] = mem.swap
         /\ b1 # "buffer" => /\ b1 = "swap" /\ b2 = "buffer"
                             /\ mem[b1] = mem.swap /\ mem[b2] = mem.buffer
  BY DEF TypeOK, Fields, b2

LEMMA MemUpdate ==
  ASSUME TypeOK, NEW b \in {"buffer", "swap"}, NEW d \in Data, mem' = [mem EXCEPT ![b] = d]
  PROVE  /\ mem' \in [buffer : Data, swap : Data]
         /\ b = "buffer" => mem'.buffer = d /\ mem'.swap = mem.swap
         /\ b = "swap" => mem'.swap = d /\ mem'.buffer = mem.buffer
         /\ mem'[b] = d
  BY DEF TypeOK

(* EncodeBlock: what is left to show of one of its steps. *)
LEMMA EncodingStep ==
  ASSUME TypeOK', AccessesInRange', BothSized', Unfailed', Encoding', Encodes'
  PROVE  IInv'
  BY DEF IInv, Inv, CrcOfSource, Encoding, Encodes, GoodBlock, Decodes, Decoding, Retracing,
         BlockRoundTrips, NeverWrongData

(* DecodeBlock: likewise, while it goes on ...                               *)
LEMMA DecodingStep ==
  ASSUME IInv, Decodes \/ pc = "decode", UNCHANGED <<bufLen, origSize, told, block, original>>,
         UNCHANGED result, TypeOK', AccessesInRange', BothSized', Decodes', Decoding', Retracing'
  PROVE  IInv'
  <1>1. Encoding' /\ BlockRoundTrips' /\ NeverWrongData'
    BY DEF Decodes, Encoding, Encodes, BlockRoundTrips, NeverWrongData
  <1>2. GoodBlock'
    BY DEF IInv, GoodBlock, Decodes, StoredBlock, CodedBlock, Shrinking, Source, AfterRle,
           AfterLzp, AfterBwt, Coded
  <1>3. Unfailed' /\ CrcOfSource'
    BY DEF IInv, Unfailed, CrcOfSource, Decodes, Source
  <1> QED  BY <1>1, <1>2, <1>3 DEF IInv, Inv

(* ... and when it refuses the block, which it never does when told the true *)
(* size of one that EncodeBlock returned.                                    *)
LEMMA RefuseStep ==
  ASSUME IInv, Decodes \/ pc = "decode", UNCHANGED <<bufLen, origSize, told, block, original>>,
         b1' \in {"buffer", "swap"}, ~(original /\ told = origSize),
         NEW e \in Errors \ {"none", "nil", "panic", "overrun"}, Fail(e),
         mem' \in [buffer : Data, swap : Data], size' \in Int,
         mem'.buffer.len <= bufLen, mem'.swap.len <= Bound(BlockSize), BothSized'
  PROVE  IInv'
  <1>1. pc' = "returned" /\ result' = [size |-> -1, err |-> e]
    BY DEF Fail, Return
  <1>2. TypeOK'
    BY <1>1 DEF IInv, Inv, TypeOK
  <1>3. AccessesInRange'
    BY <1>1 DEF AccessesInRange, Capacity
  <1>4. Encoding' /\ Decoding' /\ Retracing'
    BY <1>1 DEF Encoding, Encodes, Decoding, Decodes, Retracing
  <1>5. GoodBlock'
    BY <1>1 DEF IInv, GoodBlock, Decodes, StoredBlock, CodedBlock, Shrinking, Source, AfterRle,
           AfterLzp, AfterBwt, Coded
  <1>6. BlockRoundTrips' /\ NeverWrongData'
    BY <1>1 DEF BlockRoundTrips, NeverWrongData, Encoded
  <1>7. Unfailed' /\ CrcOfSource'
    BY <1>1 DEF IInv, Unfailed, CrcOfSource, Source
  <1> QED  BY <1>2, <1>3, <1>4, <1>5, <1>6, <1>7 DEF IInv, Inv

-----------------------------------------------------------------------------
LEMMA InitInv == Init => IInv
  <1> SUFFICES ASSUME Init PROVE IInv
    OBVIOUS
  <1> DEFINE g == Garbage(0)
  <1>1. g \in Data /\ g.len = 0 /\ Sized(g) /\ Unknown \in Data
    BY GarbageData, SourceData DEF Unknown
  <1>2. Bound(BlockSize) \in Nat /\ 0 <= Bound(BlockSize)
    BY Limits
  <1>3. mem \in [buffer : Data, swap : Data] /\ mem.buffer = g /\ mem.swap = g
    BY <1>1 DEF Init
  <1>4. /\ EmptyBlock \in Fields /\ EmptyBlock.model = {} /\ EmptyBlock.compressedSize = 0
        /\ EmptyBlock.crc = Unknown
    BY <1>1 DEF EmptyBlock, Fields
  <1>5. /\ bufLen \in Nat /\ origSize \in Nat /\ told \in Int /\ block \in Fields
        /\ original \in BOOLEAN /\ pc \in {"encode", "decode"} /\ size = 0
        /\ block.crc = Unknown
        /\ ~original => block.payload = g
        /\ original => block.compressedSize = 0
        /\ IF pc = "encode"
             THEN /\ original /\ block = EmptyBlock /\ bufLen <= Bound(origSize)
                  /\ origSize \in DataSizes
             ELSE ~original
    <2>1. CASE /\ pc = "encode"
               /\ origSize \in DataSizes
               /\ told = origSize
               /\ bufLen \in {Bound(origSize) - 1, Bound(origSize)}
               /\ block = EmptyBlock
               /\ original = TRUE
      <3>1. origSize \in Nat
        BY <2>1, SizesAssumption
      <3>2. Bound(origSize) \in Nat /\ Bound(origSize) >= origSize + 32
        BY <3>1, Limits
      <3>3. bufLen \in Nat /\ bufLen <= Bound(origSize)
        BY <2>1, <3>1, <3>2
      <3> QED  BY <1>4, <2>1, <3>1, <3>3 DEF Init
    <2>2. CASE /\ pc = "decode"
               /\ origSize = 0
               /\ told \in ForeignSizes
               /\ bufLen \in ForeignBuffers
               /\ block \in {b \in ForeignBlocks :
                               /\ modelLZP \notin b.model => b.lzpSize = -1
                               /\ modelRLE \notin b.model => b.rleSize = -1}
               /\ original = FALSE
      <3>1. PICK c \in ForeignSizes, x \in ForeignIndices, m \in SUBSET {modelLZP, modelRLE},
                 l \in ForeignSizes, r \in ForeignSizes :
              block = [compressedSize |-> c, stored |-> FALSE, bwtIdx |-> x, model |-> m,
                       lzpSize |-> l, rleSize |-> r, crc |-> Unknown, payload |-> Garbage(0)]
        BY <2>2 DEF ForeignBlocks
      <3>2. c \in Int /\ x \in Int /\ l \in Int /\ r \in Int /\ told \in Int /\ bufLen \in Nat
        BY <2>2, SizesAssumption
      <3>3. block \in Fields /\ block.payload = g /\ block.crc = Unknown
        BY <1>1, <3>1, <3>2 DEF Fields
      <3> QED  BY <2>2, <3>2, <3>3 DEF Init
    <2> QED  BY <2>1, <2>2 DEF Init
  <1>6. TypeOK
    <2>1. size \in -1..Bound(BlockSize)
      BY <1>2, <1>5
    <2>2. result \in [size : Int, err : Errors] /\ b1 \in {"buffer", "swap"}
      BY DEF Init, Errors
    <2> QED  BY <1>3, <1>5, <2>1, <2>2 DEF TypeOK, Fields
  <1>7. AccessesInRange
    BY <1>1, <1>2, <1>3, <1>5 DEF Init, AccessesInRange, Capacity
  <1>8. BothSized
    BY <1>1, <1>3 DEF BothSized
  <1>9. Encoding /\ Decoding /\ Retracing
    BY <1>5 DEF Init, Encoding, Encodes, Decoding, Decodes, Retracing
  <1>10. GoodBlock
    BY <1>1, <1>5 DEF GoodBlock, Decodes
  <1>11. BlockRoundTrips /\ NeverWrongData /\ Unfailed /\ CrcOfSource
    BY <1>5 DEF Init, BlockRoundTrips, NeverWrongData, Unfailed, CrcOfSource
  <1> QED  BY <1>6, <1>7, <1>8, <1>9, <1>10, <1>11 DEF IInv, Inv

LEMMA BeginInv == ASSUME IInv, Begin PROVE IInv'
  <1>1. /\ pc = "encode" /\ original /\ block = EmptyBlock /\ b1 = "buffer"
        /\ bufLen \in Nat /\ bufLen <= Bound(origSize) /\ origSize \in DataSizes
        /\ origSize \in Nat /\ size' = origSize
        /\ UNCHANGED <<bufLen, b1, origSize, told, original>>
    BY DEF Begin, IInv, Inv, TypeOK, Encoding
  <1>2. /\ EmptyBlock.model = {} /\ EmptyBlock.compressedSize = 0 /\ EmptyBlock.stored = FALSE
        /\ EmptyBlock.crc = Unknown
    BY DEF EmptyBlock
  <1>3. CASE pc' = "returned"
    <2>1. PICK e \in {"dataTooBig", "dataSizeTooSmall"} : Fail(e) /\ UNCHANGED <<mem, block>>
      BY <1>3 DEF Begin
    <2>2. result' = [size |-> -1, err |-> e]
      BY <2>1 DEF Fail, Return
    <2>3. TypeOK'
      BY <1>1, <1>3, <2>1, <2>2 DEF IInv, Inv, TypeOK, Errors
    <2>4. AccessesInRange' /\ BothSized'
      BY <1>1, <1>3, <2>1, <2>2 DEF IInv, Inv, AccessesInRange, Capacity, BothSized
    <2>5. Encoding' /\ Decoding' /\ Retracing'
      BY <1>3 DEF Encoding, Encodes, Decoding, Decodes, Retracing
    <2>6. /\ GoodBlock' /\ BlockRoundTrips' /\ NeverWrongData'
          /\ Unfailed' /\ CrcOfSource'
      BY <1>1, <1>2, <1>3, <2>1, <2>2
         DEF GoodBlock, Decodes, BlockRoundTrips, NeverWrongData, Encoded, Unfailed, CrcOfSource
    <2> QED  BY <2>3, <2>4, <2>5, <2>6 DEF IInv, Inv
  <1>4. CASE pc' = "encoded"
    <2>1. /\ origSize <= BlockSize /\ bufLen >= Bound(origSize) /\ origSize < 64
          /\ block' = [EmptyBlock EXCEPT !.stored = TRUE, !.bwtIdx = -1,
                         !.compressedSize = origSize + 8,
                         !.crc = Content(<<>>, origSize), !.payload = Content(<<>>, origSize)]
          /\ result' = [size |-> origSize + 8, err |-> "nil"]
          /\ UNCHANGED mem
      BY <1>1, <1>4, Limits DEF Begin, Fail, Return
    <2>2. /\ Content(<<>>, origSize) \in Data
          /\ Garbage(0) \in Data
      BY <1>1, SourceData, GarbageData
    <2>3. /\ block' \in Fields /\ block'.stored /\ block'.bwtIdx = -1
          /\ block'.compressedSize = origSize + 8 /\ block'.payload = Content(<<>>, origSize)
          /\ block'.crc = Content(<<>>, origSize)
      <3>1. block' = [compressedSize |-> origSize + 8, stored |-> TRUE, bwtIdx |-> -1,
                      model |-> {}, lzpSize |-> -1, rleSize |-> -1,
                      crc |-> Content(<<>>, origSize), payload |-> Content(<<>>, origSize)]
        BY <2>1 DEF EmptyBlock
      <3>2. origSize + 8 \in Int
        BY <1>1
      <3> QED  BY <2>2, <3>1, <3>2 DEF Fields
    <2>4. bufLen = Bound(origSize) /\ bufLen >= origSize + 32
      BY <1>1, <2>1, Limits
    <2>5. TypeOK'
      BY <1>1, <1>4, <2>1, <2>3 DEF IInv, Inv, TypeOK, Fields, Errors
    <2>6. AccessesInRange' /\ BothSized'
      BY <1>1, <2>1, <2>3, <2>4 DEF IInv, Inv, AccessesInRange, Capacity, BothSized
    <2>7. Encoding' /\ Decoding' /\ Retracing' /\ BlockRoundTrips' /\ NeverWrongData'
      BY <1>1, <1>4 DEF Encoding, Encodes, Decoding, Decodes, Retracing, BlockRoundTrips, NeverWrongData
    <2>8. GoodBlock'
      BY <1>1, <1>4, <2>1, <2>3, <2>4 DEF GoodBlock, Decodes, StoredBlock, Source
    <2>9. Unfailed' /\ CrcOfSource'
      BY <1>1, <2>1, <2>3 DEF Unfailed, CrcOfSource, Source
    <2> QED  BY <2>5, <2>6, <2>7, <2>8, <2>9 DEF IInv, Inv
  <1>5. CASE pc' = "rle"
    <2>1. /\ origSize <= BlockSize /\ bufLen >= Bound(origSize) /\ origSize >= 64
          /\ mem' = [mem EXCEPT !.buffer = Content(<<>>, origSize)]
          /\ block' = [EmptyBlock EXCEPT !.crc = Content(<<>>, origSize)]
          /\ UNCHANGED result
      BY <1>1, <1>5, Limits DEF Begin, Fail, Return
    <2>2. /\ Source \in Data /\ Source.len = origSize /\ Sized(Source)
          /\ Source = Content(<<>>, origSize)
      BY <1>1, SourceData DEF Source
    <2>3. mem' = [mem EXCEPT !["buffer"] = Source]
      BY <2>1, <2>2
    <2>4. /\ mem' \in [buffer : Data, swap : Data] /\ mem'.buffer = Source /\ mem'.swap = mem.swap
          /\ mem'["buffer"] = Source
      BY <2>2, <2>3, MemUpdate DEF IInv, Inv
    <2>a. /\ block' \in Fields /\ block'.crc = Source /\ block'.model = {}
          /\ block'.compressedSize = 0 /\ block'.stored = FALSE
      <3>1. block' = [compressedSize |-> 0, stored |-> FALSE, bwtIdx |-> 0, model |-> {},
                      lzpSize |-> -1, rleSize |-> -1, crc |-> Source, payload |-> Garbage(0)]
        BY <2>1, <2>2 DEF EmptyBlock
      <3>2. Garbage(0) \in Data
        BY GarbageData
      <3> QED  BY <2>2, <3>1, <3>2 DEF Fields
    <2>5. bufLen = Bound(origSize) /\ bufLen >= origSize + 32
      BY <1>1, <2>1, Limits
    <2>6. TypeOK'
      <3>1. size' \in Int /\ UNCHANGED result
        BY <1>1, <2>1
      <3>2. TypeOK
        BY DEF IInv, Inv
      <3> HIDE DEF Data
      <3> QED  BY <1>1, <1>5, <2>4, <2>a, <3>1, <3>2 DEF TypeOK, Fields
    <2>7. AccessesInRange' /\ BothSized'
      BY <1>1, <1>5, <2>1, <2>2, <2>4, <2>5
         DEF IInv, Inv, AccessesInRange, Capacity, BothSized, Unfailed
    <2>8. Encoding'
      <3>1. AfterLzp' = Source
        BY <1>1, <2>2, <2>a DEF AfterLzp, AfterRle, Source
      <3>2. Shrinking'
        BY <2>a DEF Shrinking
      <3>3. mem'[b1'] = AfterLzp' /\ size' = AfterLzp'.len
        BY <1>1, <2>2, <2>4, <3>1
      <3>4. origSize \in 64..BlockSize
        BY <1>1, <2>1, Limits
      <3>5. Source' = Source
        BY <1>1 DEF Source
      <3> QED  BY <1>1, <1>5, <2>5, <2>a, <3>2, <3>3, <3>4, <3>5 DEF Encoding, Encodes
    <2>9. Unfailed'
      BY <1>1, <2>1 DEF IInv, Unfailed
    <2> QED  BY <1>5, <2>6, <2>7, <2>8, <2>9, EncodingStep DEF Encodes
  <1> QED  BY <1>3, <1>4, <1>5 DEF Begin, Fail, Return

(* What all steps of EncodeBlock but the first can rely on. *)
LEMMA EncodingFacts ==
  ASSUME IInv, Encodes
  PROVE  /\ original /\ ~block.stored /\ block \in Fields /\ block.compressedSize = 0
         /\ block.crc = Source
         /\ origSize \in 64..BlockSize /\ origSize \in Nat
         /\ bufLen = Bound(origSize) /\ bufLen \in Nat /\ bufLen >= origSize + 32
         /\ bufLen <= Bound(BlockSize) /\ Bound(BlockSize) \in Nat
         /\ Shrinking
         /\ mem.buffer.len <= bufLen /\ mem.swap.len <= Bound(BlockSize)
         /\ Sized(mem.buffer) /\ Sized(mem.swap)
         /\ result.err \in {"none", "nil"}
  <1>1. /\ original /\ ~block.stored /\ block \in Fields /\ block.compressedSize = 0
        /\ block.crc = Source
        /\ origSize \in 64..BlockSize /\ origSize \in Nat
        /\ bufLen = Bound(origSize) /\ Shrinking
    BY DEF IInv, Inv, TypeOK, Fields, Encoding
  <1>2. /\ bufLen \in Nat /\ bufLen >= origSize + 32 /\ bufLen <= Bound(BlockSize)
        /\ Bound(BlockSize) \in Nat
    BY <1>1, Limits, SMTT(40)
  <1> QED  BY <1>1, <1>2 DEF IInv, Inv, AccessesInRange, Capacity, BothSized, Unfailed, Encodes

LEMMA RleStageInv == ASSUME IInv, RleStage PROVE IInv'
  <1>1. PICK len \in RleSizes(size) : Stage("rle", len)
    BY DEF RleStage
  <1>2. /\ pc = "rle" /\ pc' = "lzp" /\ Encodes /\ Encodes'
        /\ UNCHANGED <<bufLen, origSize, told, original>>
    BY DEF RleStage, Encodes
  <1>3. /\ original /\ ~block.stored /\ block \in Fields /\ block.compressedSize = 0
        /\ block.crc = Source
        /\ origSize \in 64..BlockSize /\ origSize \in Nat
        /\ bufLen = Bound(origSize) /\ bufLen \in Nat /\ bufLen >= origSize + 32
        /\ bufLen <= Bound(BlockSize) /\ Bound(BlockSize) \in Nat
        /\ mem.buffer.len <= bufLen /\ result.err \in {"none", "nil"}
        /\ Sized(mem.buffer)
    BY <1>2, EncodingFacts
  <1>4. block.model = {} /\ b1 = "buffer" /\ b2 = "swap"
    BY <1>2 DEF IInv, Encoding, b2
  <1>5. mem.buffer = Source /\ size = origSize
    <2>1. AfterLzp = Source /\ Source.len = origSize
      BY <1>4 DEF AfterLzp, AfterRle, Source, Content
    <2> QED  BY <1>2, <1>4, <2>1 DEF IInv, Encoding
  <1>6. len \in 1..origSize + 32 /\ len \in Nat /\ len > 0
    <2>1. origSize \in 1..BlockSize
      BY <1>3
    <2>2. RleSizes(origSize) \subseteq 1..origSize + 32
      BY <2>1, StagesAssumption
    <2> QED  BY <1>1, <1>3, <1>5, <2>2
  <1> DEFINE d == Through(Source, "rle", len)
  <1>7. d \in Data /\ d.len = len /\ Sized(d)
    <2>1. Source \in Data /\ Source.len = origSize /\ Sized(Source)
      BY <1>3, SourceData DEF Source
    <2>2. Source.len \in 0..Bound(BlockSize) /\ "rle" \in StageNames \ {"garbage"} /\ len \in Int
      BY <1>3, <1>6, <2>1 DEF StageNames
    <2> QED  BY <2>1, <2>2, ThroughData
  <1>8. mem' = [mem EXCEPT !["swap"] = d]
    <2>1. ~(len < 0)
      BY <1>6
    <2> QED  BY <1>1, <1>4, <1>5, <2>1 DEF Stage
  <1> HIDE DEF d
  <1>9. /\ mem' \in [buffer : Data, swap : Data]
        /\ mem'.swap = d /\ mem'.buffer = Source /\ mem'["swap"] = d
    BY <1>5, <1>7, <1>8, MemUpdate DEF IInv, Inv
  <1>10. mem'["buffer"] = Source
    BY <1>9
  <1>11. AccessesInRange' /\ BothSized' /\ Unfailed' /\ Source' = Source
    <2>1. UNCHANGED result
      BY <1>1 DEF Stage
    <2>2. d.len <= Bound(BlockSize)
      BY <1>3, <1>6, <1>7
    <2> QED  BY <1>2, <1>3, <1>5, <1>7, <1>9, <2>1, <2>2
             DEF AccessesInRange, Capacity, BothSized, Unfailed, Source
  <1>12. CASE len < size
    <2>1. /\ b1' = "swap" /\ size' = len /\ UNCHANGED result
          /\ block' = [block EXCEPT !.model = {modelRLE}, !.rleSize = len]
      BY <1>1, <1>4, <1>6, <1>12 DEF Stage
    <2>2. /\ block' \in Fields /\ block'.model = {modelRLE} /\ block'.rleSize = len
          /\ block'.stored = block.stored /\ block'.compressedSize = block.compressedSize
          /\ block'.crc = block.crc
      <3>1. {modelRLE} \in SUBSET {modelLZP, modelRLE} /\ len \in Int
        BY <1>6
      <3> QED  BY <1>3, <2>1, <3>1 DEF Fields
    <2>3. TypeOK'
      BY <1>2, <1>6, <1>9, <2>1, <2>2 DEF IInv, Inv, TypeOK, Fields
    <2>4. AfterLzp' = d /\ modelLZP \notin block'.model /\ modelRLE \in block'.model
      BY <1>2, <2>2 DEF AfterLzp, AfterRle, Source, d, modelLZP, modelRLE
    <2>5. Shrinking'
      BY <1>2, <1>3, <1>5, <1>6, <1>12, <2>2, <2>4 DEF Shrinking
    <2>6. mem'[b1'] = AfterLzp' /\ size' = AfterLzp'.len
      BY <1>7, <1>9, <2>1, <2>4
    <2>7. Encoding'
      BY <1>2, <1>3, <1>11, <2>1, <2>2, <2>4, <2>5, <2>6 DEF Encoding, Encodes
    <2> QED  BY <1>2, <1>11, <2>3, <2>7, EncodingStep
  <1>13. CASE ~(len < size)
    <2>1. UNCHANGED <<b1, size, block, result>>
      BY <1>1, <1>13 DEF Stage
    <2>2. TypeOK'
      BY <1>2, <1>9, <2>1 DEF IInv, Inv, TypeOK
    <2>3. AfterLzp' = Source /\ modelLZP \notin block'.model /\ modelRLE \notin block'.model
          /\ Source.len = origSize
      BY <1>2, <1>4, <2>1 DEF AfterLzp, AfterRle, Source, Content
    <2>4. Shrinking'
      BY <2>3 DEF Shrinking
    <2>5. mem'[b1'] = AfterLzp' /\ size' = AfterLzp'.len
      BY <1>4, <1>5, <1>10, <2>1, <2>3
    <2>6. Encoding'
      BY <1>2, <1>3, <1>4, <1>11, <2>1, <2>3, <2>4, <2>5 DEF Encoding, Encodes
    <2> QED  BY <1>2, <1>11, <2>2, <2>6, EncodingStep
  <1> QED  BY <1>12, <1>13

(* The result of LZP, -1 if it refused the block, goes to the other buffer.  *)
LEMMA LzpStageInv == ASSUME IInv, LzpStage PROVE IInv'
  <1>1. PICK len \in LzpSizes(size) : Stage("lzp", len)
    BY DEF LzpStage
  <1>2. /\ pc = "lzp" /\ pc' = "bwt" /\ Encodes /\ Encodes'
        /\ UNCHANGED <<bufLen, origSize, told, original>>
    BY DEF LzpStage, Encodes
  <1>3. /\ original /\ ~block.stored /\ block \in Fields /\ block.compressedSize = 0
        /\ block.crc = Source
        /\ origSize \in 64..BlockSize /\ origSize \in Nat
        /\ bufLen = Bound(origSize) /\ bufLen \in Nat /\ bufLen >= origSize + 32
        /\ bufLen <= Bound(BlockSize) /\ Bound(BlockSize) \in Nat
        /\ Shrinking /\ result.err \in {"none", "nil"}
        /\ mem.buffer.len <= bufLen /\ mem.swap.len <= Bound(BlockSize)
        /\ Sized(mem.buffer) /\ Sized(mem.swap)
    BY <1>2, EncodingFacts
  <1>4. /\ modelLZP \notin block.model
        /\ mem[b1] = AfterRle /\ size = AfterRle.len /\ AfterLzp = AfterRle
        /\ AfterRle \in Data /\ size \in 1..origSize /\ Sized(AfterRle)
    <2>1. modelLZP \notin block.model /\ mem[b1] = AfterLzp /\ size = AfterLzp.len
      BY <1>2 DEF IInv, Encoding
    <2>2. /\ AfterRle \in Data /\ AfterRle.len \in 1..origSize /\ Sized(AfterRle)
          /\ AfterLzp = AfterRle
      BY <1>3, <2>1, ChainData
    <2> QED  BY <2>1, <2>2
  <1>5. len \in -1..size /\ len \in Int
    <2>1. size \in 1..BlockSize
      <3>1. BlockSize \in Nat /\ origSize \in Nat /\ origSize <= BlockSize
        BY <1>3, Limits
      <3>2. size \in 1..origSize
        BY <1>4
      <3> QED  BY <3>1, <3>2
    <2>2. LzpSizes(size) \subseteq -1..size
      BY <2>1, StagesAssumption
    <2> QED  BY <1>1, <1>4, <2>2
  <1> DEFINE d == IF len < 0 THEN Garbage(0) ELSE Through(AfterRle, "lzp", len)
  <1>6. d \in Data /\ Sized(d) /\ d.len <= size /\ (len >= 0 => d.len = len)
    <2>1. CASE len < 0
      BY <1>4, <1>5, <2>1, GarbageData
    <2>2. CASE ~(len < 0)
      <3>1. AfterRle.len \in 0..Bound(BlockSize) /\ "lzp" \in StageNames \ {"garbage"}
        BY <1>3, <1>4 DEF StageNames
      <3>2. /\ Through(AfterRle, "lzp", len) \in Data /\ Through(AfterRle, "lzp", len).len = len
            /\ Sized(Through(AfterRle, "lzp", len))
        BY <1>4, <1>5, <3>1, ThroughData
      <3> QED  BY <1>5, <2>2, <3>2
    <2> QED  BY <2>1, <2>2
  <1>7. mem' = [mem EXCEPT ![b2] = d]
    BY <1>1, <1>4 DEF Stage
  <1>8. b1 \in {"buffer", "swap"} /\ b2 \in {"buffer", "swap"} /\ b2 # b1
    BY DEF IInv, Inv, TypeOK, b2
  <1>9. /\ mem' \in [buffer : Data, swap : Data]
        /\ mem'[b2] = d /\ mem'[b1] = AfterRle
        /\ mem'.buffer \in {mem.buffer, d} /\ mem'.swap \in {mem.swap, d}
    <2>1. /\ mem' \in [buffer : Data, swap : Data] /\ mem'[b2] = d
          /\ b2 = "buffer" => mem'.buffer = d /\ mem'.swap = mem.swap
          /\ b2 = "swap" => mem'.swap = d /\ mem'.buffer = mem.buffer
      BY <1>6, <1>7, <1>8, MemUpdate DEF IInv, Inv
    <2>2. mem'[b1] = mem[b1]
      <3>1. CASE b1 = "buffer"
        BY <1>8, <2>1, <3>1
      <3>2. CASE b1 = "swap"
        BY <1>8, <2>1, <3>2
      <3> QED  BY <1>8, <3>1, <3>2
    <2> QED  BY <1>4, <1>8, <2>1, <2>2
  <1> HIDE DEF d
  <1>10. AccessesInRange' /\ BothSized' /\ Unfailed' /\ Source' = Source
    <2>1. UNCHANGED result
      BY <1>1 DEF Stage
    <2>2. d.len <= bufLen /\ d.len <= Bound(BlockSize)
      <3>1. d.len \in Int
        BY <1>6 DEF Data
      <3> QED  BY <1>3, <1>4, <1>6, <3>1
    <2> QED  BY <1>2, <1>3, <1>6, <1>9, <2>1, <2>2
             DEF AccessesInRange, Capacity, BothSized, Unfailed, Source
  <1>11. CASE len > 0 /\ len < size
    <2>1. /\ b1' = b2 /\ size' = len /\ UNCHANGED result
          /\ block' = [block EXCEPT !.model = @ \cup {modelLZP}, !.lzpSize = len]
      BY <1>1, <1>11 DEF Stage
    <2>2. /\ block' \in Fields /\ block'.model = block.model \cup {modelLZP}
          /\ block'.lzpSize = len /\ block'.rleSize = block.rleSize
          /\ block'.stored = block.stored /\ block'.compressedSize = block.compressedSize
          /\ block'.crc = block.crc
      BY <1>3, <1>5, <2>1 DEF Fields
    <2>3. TypeOK'
      BY <1>2, <1>5, <1>8, <1>9, <2>1, <2>2 DEF IInv, Inv, TypeOK, Fields
    <2>4. /\ AfterRle' = AfterRle /\ AfterLzp' = d
      <3>1. modelRLE \in block'.model <=> modelRLE \in block.model
        BY <2>2 DEF modelLZP, modelRLE
      <3>2. AfterRle' = AfterRle
        BY <1>2, <2>2, <3>1 DEF AfterRle, Source
      <3>3. d = Through(AfterRle, "lzp", len) /\ modelLZP \in block'.model
        BY <1>5, <1>11, <2>2 DEF d
      <3> QED  BY <2>2, <3>2, <3>3 DEF AfterLzp
    <2>5. Shrinking'
      <3>1. modelRLE \in block'.model => block'.rleSize \in 1..origSize' - 1
        BY <1>2, <1>3, <2>2 DEF Shrinking, modelLZP, modelRLE
      <3>2. block'.lzpSize \in 1..AfterRle'.len - 1
        BY <1>4, <1>5, <1>11, <2>2, <2>4
      <3> QED  BY <3>1, <3>2 DEF Shrinking
    <2>6. mem'[b1'] = AfterLzp' /\ size' = AfterLzp'.len
      BY <1>5, <1>6, <1>9, <1>11, <2>1, <2>4
    <2>7. Encoding'
      BY <1>2, <1>3, <1>10, <2>1, <2>2, <2>5, <2>6 DEF Encoding, Encodes
    <2> QED  BY <1>2, <1>10, <2>3, <2>7, EncodingStep
  <1>12. CASE ~(len > 0 /\ len < size)
    <2>1. UNCHANGED <<b1, size, block, result>>
      BY <1>1, <1>12 DEF Stage
    <2>2. TypeOK'
      BY <1>2, <1>9, <2>1 DEF IInv, Inv, TypeOK
    <2>3. AfterRle' = AfterRle /\ AfterLzp' = AfterRle
      BY <1>2, <1>4, <2>1 DEF AfterLzp, AfterRle, Source
    <2>4. Shrinking'
      BY <1>2, <1>3, <2>1, <2>3 DEF Shrinking
    <2>5. mem'[b1'] = AfterLzp' /\ size' = AfterLzp'.len
      BY <1>4, <1>9, <2>1, <2>3
    <2>6. Encoding'
      BY <1>2, <1>3, <1>10, <2>1, <2>4, <2>5 DEF Encoding, Encodes
    <2> QED  BY <1>2, <1>10, <2>2, <2>6, EncodingStep
  <1> QED  BY <1>11, <1>12

LEMMA BwtStageInv == ASSUME IInv, BwtStage PROVE IInv'
  <1>1. /\ pc = "bwt" /\ pc' = "cm" /\ Encodes /\ Encodes'
        /\ mem' = [mem EXCEPT ![b2] = Through(mem[b1], "bwt", size)]
        /\ block' = [block EXCEPT !.bwtIdx = size]
        /\ UNCHANGED <<bufLen, b1, size, origSize, told, original, result>>
    BY DEF BwtStage, Encodes
  <1>2. /\ original /\ ~block.stored /\ block \in Fields /\ block.compressedSize = 0
        /\ block.crc = Source
        /\ origSize \in 64..BlockSize /\ origSize \in Nat
        /\ bufLen = Bound(origSize) /\ bufLen \in Nat /\ bufLen >= origSize + 32
        /\ bufLen <= Bound(BlockSize) /\ Bound(BlockSize) \in Nat
        /\ Shrinking /\ result.err \in {"none", "nil"}
        /\ mem.buffer.len <= bufLen /\ mem.swap.len <= Bound(BlockSize)
        /\ Sized(mem.buffer) /\ Sized(mem.swap)
    BY <1>1, EncodingFacts
  <1>3. mem[b1] = AfterLzp /\ size = AfterLzp.len
    BY <1>1 DEF IInv, Encoding
  <1>4. /\ AfterBwt \in Data /\ AfterBwt.len = size /\ size \in 1..origSize
        /\ Sized(AfterBwt)
    BY <1>2, <1>3, ChainData
  <1>5. mem' = [mem EXCEPT ![b2] = AfterBwt]
    BY <1>1, <1>3 DEF AfterBwt
  <1>6. b2 \in {"buffer", "swap"} /\ b2' = b2
    BY <1>1 DEF b2
  <1>7. /\ mem' \in [buffer : Data, swap : Data]
        /\ mem'[b2] = AfterBwt
        /\ mem'.buffer \in {mem.buffer, AfterBwt} /\ mem'.swap \in {mem.swap, AfterBwt}
    BY <1>4, <1>5, <1>6, MemUpdate DEF IInv, Inv
  <1>8. /\ block' \in Fields /\ block'.bwtIdx = size
        /\ block'.model = block.model /\ block'.rleSize = block.rleSize
        /\ block'.lzpSize = block.lzpSize /\ block'.stored = block.stored
        /\ block'.compressedSize = block.compressedSize /\ block'.crc = block.crc
    BY <1>1, <1>2, <1>4 DEF Fields
  <1>9. /\ AfterRle' = AfterRle /\ AfterLzp' = AfterLzp /\ AfterBwt' = AfterBwt
        /\ Source' = Source
    BY <1>1, <1>8 DEF AfterRle, AfterLzp, AfterBwt, Source
  <1>10. TypeOK'
    BY <1>1, <1>7, <1>8 DEF IInv, Inv, TypeOK, Fields
  <1>11. AccessesInRange' /\ BothSized' /\ Unfailed'
    <2>1. size <= bufLen /\ size <= Bound(BlockSize)
      BY <1>2, <1>4
    <2> QED  BY <1>1, <1>2, <1>4, <1>7, <2>1
             DEF AccessesInRange, Capacity, BothSized, Unfailed
  <1>12. Encoding'
    <2>1. Shrinking'
      BY <1>1, <1>2, <1>8, <1>9 DEF Shrinking
    <2>2. mem'[b2'] = AfterBwt' /\ size' = AfterLzp'.len /\ block'.bwtIdx = AfterLzp'.len
      BY <1>1, <1>3, <1>6, <1>7, <1>8, <1>9
    <2> QED  BY <1>1, <1>2, <1>8, <1>9, <2>1, <2>2 DEF Encoding, Encodes
  <1> QED  BY <1>1, <1>10, <1>11, <1>12, EncodingStep

(* Where EncodeBlock panics, the coder has made more than its bound.         *)
LEMMA OverrunStep ==
  ASSUME IInv, Encodes, AfterLzp.len \in 1..origSize, mem[b2].len = AfterLzp.len,
         Fail("overrun"), UNCHANGED <<bufLen, mem, b1, origSize, told, block, original>>,
         size' \in Nat, size' > Bound(origSize) - 17
  PROVE  IInv'
  <1>1. pc' = "returned" /\ result' = [size |-> -1, err |-> "overrun"]
    BY DEF Fail, Return
  <1>2. /\ original /\ block \in Fields /\ block.compressedSize = 0 /\ origSize \in Nat
        /\ block.crc = Source /\ mem.buffer.len <= bufLen /\ mem.swap.len <= Bound(BlockSize)
    BY EncodingFacts
  <1>3. TypeOK'
    BY <1>1 DEF IInv, Inv, TypeOK, Errors
  <1>4. AccessesInRange'
    <2>1. AfterLzp.len \in Nat /\ AfterLzp.len <= origSize
      BY <1>2
    <2>2. Bound(AfterLzp.len) <= Bound(origSize) /\ Bound(AfterLzp.len) \in Nat
          /\ Bound(origSize) \in Nat
      BY <1>2, <2>1, Limits
    <2>3. mem'[b2'].len = AfterLzp.len
      BY DEF b2
    <2>4. CoderExpands'
      <3>1. size' > Bound(AfterLzp.len) - 17
        BY <2>2
      <3>2. Bound(mem[b2].len)' = Bound(AfterLzp.len)
        BY <2>3 DEF Bound
      <3> QED  BY <3>1, <3>2 DEF CoderExpands
    <2> QED  BY <1>1, <1>2, <2>4 DEF AccessesInRange, Capacity
  <1>5. BothSized' /\ Unfailed' /\ CrcOfSource'
    BY <1>1 DEF IInv, BothSized, Unfailed, CrcOfSource, Source
  <1>6. Encoding' /\ Decoding' /\ Retracing'
    BY <1>1 DEF Encoding, Encodes, Decoding, Decodes, Retracing
  <1>7. GoodBlock' /\ BlockRoundTrips' /\ NeverWrongData'
    BY <1>1, <1>2 DEF GoodBlock, Decodes, BlockRoundTrips, NeverWrongData, Encoded
  <1> QED  BY <1>3, <1>4, <1>5, <1>6, <1>7 DEF IInv, Inv

(* The coder writes to b1 behind the room for the header.                    *)
LEMMA CmStageInv == ASSUME IInv, CmStage PROVE IInv'
  <1>1. PICK len \in CmSizes(size) :
          /\ size' = len
          /\ IF len > Capacity(b1) - HeaderLen(block.model)
               THEN Fail("overrun") /\ UNCHANGED mem
               ELSE /\ mem' = [mem EXCEPT ![b1] = Through(mem[b2], "cm", len)]
                    /\ pc' = "finish"
                    /\ UNCHANGED result
    BY DEF CmStage
  <1>2. /\ pc = "cm" /\ Encodes
        /\ UNCHANGED <<bufLen, b1, origSize, told, block, original>>
    BY DEF CmStage, Encodes
  <1>3. /\ original /\ ~block.stored /\ block \in Fields /\ block.compressedSize = 0
        /\ block.crc = Source
        /\ origSize \in 64..BlockSize /\ origSize \in Nat
        /\ bufLen = Bound(origSize) /\ bufLen \in Nat /\ bufLen >= origSize + 32
        /\ bufLen <= Bound(BlockSize) /\ Bound(BlockSize) \in Nat
        /\ Shrinking /\ result.err \in {"none", "nil"}
        /\ mem.buffer.len <= bufLen /\ mem.swap.len <= Bound(BlockSize)
        /\ Sized(mem.buffer) /\ Sized(mem.swap)
    BY <1>2, EncodingFacts
  <1>4. /\ mem[b2] = AfterBwt /\ size = AfterLzp.len /\ block.bwtIdx = AfterLzp.len
        /\ size \in 1..origSize /\ AfterBwt.len = AfterLzp.len
    BY <1>2, <1>3, ChainData DEF IInv, Encoding
  <1>5. len \in Nat
    <2>1. BlockSize \in Nat /\ origSize \in Nat /\ origSize <= BlockSize
      BY <1>3, Limits
    <2>2. size \in 1..origSize
      BY <1>4
    <2>3. size \in 1..BlockSize
      BY <2>1, <2>2
    <2> QED  BY <1>1, <2>3, StagesAssumption
  <1>6. HeaderLen(block.model) \in 9..17
    BY DEF HeaderLen
  <1>7. /\ b1 = "buffer" => Capacity(b1) = bufLen
        /\ b1 # "buffer" => b1 = "swap" /\ Capacity(b1) = Bound(BlockSize)
    BY DEF IInv, Inv, TypeOK, Capacity
  <1>8. CASE len > Capacity(b1) - HeaderLen(block.model)
    <2>1. size' > Bound(origSize) - 17
      BY <1>1, <1>3, <1>5, <1>6, <1>7, <1>8
    <2> QED  BY <1>1, <1>2, <1>4, <1>5, <1>8, <2>1, OverrunStep
  <1>9. CASE ~(len > Capacity(b1) - HeaderLen(block.model))
    <2>1. /\ mem' = [mem EXCEPT ![b1] = Coded(len)] /\ pc' = "finish" /\ UNCHANGED result
          /\ size' = len
      BY <1>1, <1>4, <1>9 DEF Coded
    <2>2. Coded(len) \in Data /\ Coded(len).len = len /\ Sized(Coded(len))
      BY <1>3, <1>5, CodedData
    <2>3. len <= Capacity(b1)
      BY <1>3, <1>5, <1>6, <1>7, <1>9
    <2>4. /\ mem' \in [buffer : Data, swap : Data] /\ mem'[b1] = Coded(len)
          /\ b1 = "buffer" => mem'.buffer = Coded(len) /\ mem'.swap = mem.swap
          /\ b1 = "swap" => mem'.swap = Coded(len) /\ mem'.buffer = mem.buffer
      BY <1>7, <2>1, <2>2, MemUpdate DEF IInv, Inv
    <2>5. mem'[b2] = mem[b2]
      BY <1>7, <2>4 DEF b2
    <2>6. TypeOK'
      BY <1>2, <1>5, <2>1, <2>4 DEF IInv, Inv, TypeOK
    <2>7. AccessesInRange' /\ BothSized' /\ Unfailed'
      BY <1>2, <1>3, <1>7, <2>1, <2>2, <2>3, <2>4
         DEF AccessesInRange, Capacity, BothSized, Unfailed
    <2>8. Encoding'
      <3>1. /\ Coded(size)' = Coded(len) /\ AfterLzp' = AfterLzp /\ Source' = Source
            /\ AfterBwt' = AfterBwt
        BY <1>2, <2>1 DEF Coded, AfterBwt, AfterLzp, AfterRle, Source
      <3>2. Shrinking'
        BY <1>2, <1>3 DEF Shrinking, AfterRle, Source
      <3>3. mem'[b1'] = Coded(size)' /\ mem'[b2'] = AfterBwt'
        BY <1>2, <1>4, <2>4, <2>5, <3>1 DEF b2
      <3> QED  BY <1>2, <1>3, <1>4, <1>5, <2>1, <3>1, <3>2, <3>3 DEF Encoding, Encodes
    <2> QED  BY <2>1, <2>6, <2>7, <2>8, EncodingStep DEF Encodes
  <1> QED  BY <1>8, <1>9

LEMMA FinishInv == ASSUME IInv, Finish PROVE IInv'
  <1> DEFINE made == size + HeaderLen(block.model)
  <1>1. /\ pc = "finish" /\ Encodes
        /\ UNCHANGED <<bufLen, b1, size, origSize, told, original>>
    BY DEF Finish, Encodes
  <1>2. /\ original /\ ~block.stored /\ block \in Fields /\ block.compressedSize = 0
        /\ block.crc = Source
        /\ origSize \in 64..BlockSize /\ origSize \in Nat
        /\ bufLen = Bound(origSize) /\ bufLen \in Nat /\ bufLen >= origSize + 32
        /\ bufLen <= Bound(BlockSize) /\ Bound(BlockSize) \in Nat
        /\ Shrinking /\ result.err \in {"none", "nil"}
        /\ mem.buffer.len <= bufLen /\ mem.swap.len <= Bound(BlockSize)
        /\ Sized(mem.buffer) /\ Sized(mem.swap)
    BY <1>1, EncodingFacts
  <1>3. /\ mem[b1] = Coded(size) /\ size \in Nat /\ mem[b2] = AfterBwt
        /\ block.bwtIdx = AfterLzp.len
    BY <1>1 DEF IInv, Encoding
  <1>4. Coded(size) \in Data /\ Coded(size).len = size /\ Sized(Coded(size))
    BY <1>2, <1>3, CodedData
  <1>5. HeaderLen(block.model) \in 9..17 /\ made \in Nat
    BY <1>3 DEF HeaderLen
  <1>6. CASE made > bufLen
    <2>1. Fail("overrun") /\ UNCHANGED <<mem, block>>
      BY <1>6 DEF Finish
    <2>2. AfterLzp.len \in 1..origSize /\ mem[b2].len = AfterLzp.len
      BY <1>2, <1>3, ChainData
    <2>3. size' > Bound(origSize) - 17 /\ size' \in Nat
      BY <1>1, <1>2, <1>3, <1>5, <1>6
    <2> QED  BY <1>1, <2>1, <2>2, <2>3, OverrunStep
  <1>7. CASE ~(made > bufLen)
    <2>1. /\ pc' = "encoded"
          /\ mem' = IF b1 # "buffer" THEN [mem EXCEPT !["buffer"] = mem[b1]] ELSE mem
          /\ block' = [block EXCEPT !.compressedSize = made, !.payload = mem'.buffer]
          /\ result' = [size |-> made, err |-> "nil"]
      BY <1>7 DEF Finish
    <2>2. /\ mem' \in [buffer : Data, swap : Data]
          /\ mem'.buffer = Coded(size) /\ mem'.swap = mem.swap
      <3>1. CASE b1 = "buffer"
        BY <1>3, <2>1, <3>1, TwoBuffers DEF IInv, Inv, TypeOK
      <3>2. CASE b1 # "buffer"
        BY <1>3, <1>4, <2>1, <3>2, MemUpdate DEF IInv, Inv
      <3> QED  BY <3>1, <3>2
    <2>3. /\ block' \in Fields /\ block'.compressedSize = made
          /\ block'.payload = Coded(size) /\ block'.bwtIdx = block.bwtIdx
          /\ block'.model = block.model /\ block'.rleSize = block.rleSize
          /\ block'.lzpSize = block.lzpSize /\ block'.stored = block.stored
          /\ block'.crc = block.crc
      <3>1. block' = [block EXCEPT !.compressedSize = made, !.payload = Coded(size)]
        BY <2>1, <2>2
      <3>2. made \in Int
        BY <1>5
      <3> HIDE DEF made
      <3> QED  BY <1>2, <1>4, <3>1, <3>2 DEF Fields
    <2>4. TypeOK'
      BY <1>1, <1>3, <1>5, <2>1, <2>2, <2>3 DEF IInv, Inv, TypeOK, Fields, Errors
    <2>5. AccessesInRange' /\ BothSized' /\ Unfailed'
      <3>1. size <= bufLen
        BY <1>2, <1>3, <1>5, <1>7
      <3> QED  BY <1>1, <1>2, <1>4, <1>5, <1>7, <2>1, <2>2, <2>3, <3>1
               DEF AccessesInRange, Capacity, BothSized, Unfailed
    <2>6. Encoding' /\ Decoding' /\ Retracing' /\ BlockRoundTrips' /\ NeverWrongData'
      BY <1>1, <1>2, <2>1
         DEF Encoding, Encodes, Decoding, Decodes, Retracing, BlockRoundTrips, NeverWrongData
    <2>7. /\ AfterRle' = AfterRle /\ AfterLzp' = AfterLzp /\ AfterBwt' = AfterBwt
          /\ Source' = Source
      BY <1>1, <2>3 DEF AfterRle, AfterLzp, AfterBwt, Source
    <2>8. GoodBlock'
      <3>1. Coded(block.payload.len)' = Coded(size)
        BY <1>4, <2>3, <2>7 DEF Coded
      <3>2. Shrinking'
        BY <1>1, <1>2, <2>3, <2>7 DEF Shrinking
      <3>3. size + HeaderLen(block.model) <= Bound(origSize)
        BY <1>2, <1>3, <1>5, <1>7
      <3>4. CodedBlock'
        BY <1>1, <1>2, <1>3, <1>4, <2>3, <2>7, <3>1, <3>2, <3>3 DEF CodedBlock
      <3> QED  BY <1>1, <1>2, <2>1, <3>4 DEF GoodBlock, Decodes
    <2>9. CrcOfSource'
      BY <1>2, <2>3, <2>7 DEF CrcOfSource
    <2> QED  BY <2>4, <2>5, <2>6, <2>8, <2>9 DEF IInv, Inv
  <1> QED  BY <1>6, <1>7

-----------------------------------------------------------------------------
(* What a returned block is like depends only on the block and its source.   *)
LEMMA BlockKept ==
  ASSUME UNCHANGED <<origSize, block>>
  PROVE  /\ StoredBlock' = StoredBlock /\ CodedBlock' = CodedBlock
         /\ AfterRle' = AfterRle /\ AfterLzp' = AfterLzp /\ AfterBwt' = AfterBwt
         /\ Source' = Source
  BY DEF StoredBlock, CodedBlock, Shrinking, Source, AfterRle, AfterLzp, AfterBwt, Coded

(* What a damaged block still is. *)
LEMMA DamagedData ==
  ASSUME block \in Fields, Sized(block.payload), block.payload.len >= 0,
         NEW b \in DamagedBlocks(block)
  PROVE  /\ b \in Fields /\ b.crc = block.crc
         /\ Sized(b.payload) /\ b.payload.len <= block.payload.len
  <1>1. /\ Garbage(0) \in Data /\ Garbage(0).len = 0 /\ Sized(Garbage(0))
        /\ block.payload.len \in Int
    BY GarbageData, SMTT(40) DEF Fields, Data
  <1>2. ForeignSizes \subseteq Int /\ ForeignIndices \subseteq Int
    BY SizesAssumption
  <1>3. ASSUME NEW x \in Int, b \in Misplaced(block, x)
        PROVE  /\ b \in Fields /\ b.crc = block.crc /\ b.payload = Garbage(0)
    <2>1. PICK m \in SUBSET {modelLZP, modelRLE}, n \in ForeignSizes : b = Read(block, x, m, n)
      BY <1>3 DEF Misplaced
    <2> QED  BY <1>1, <1>2, <1>3, <2>1 DEF Fields, Read
  <1>4. \/ \E n \in ForeignSizes : b = [block EXCEPT !.compressedSize = n]
        \/ b = [block EXCEPT !.payload = Garbage(0)]
        \/ \E x \in ForeignIndices : b \in Misplaced(block, x)
        \/ \E x \in ForeignIndices : b = [block EXCEPT !.bwtIdx = x]
        \/ b \in Misplaced(block, block.bwtIdx)
        \/ \E n \in ForeignSizes : b = [block EXCEPT !.lzpSize = n]
        \/ \E n \in ForeignSizes : b = [block EXCEPT !.rleSize = n]
    <2> HIDE DEF Misplaced
    <2>1. b \in DamagedBlocks(block)
      OBVIOUS
    <2> QED  BY <2>1 DEF DamagedBlocks
  <1>5. CASE \/ \E x \in ForeignIndices : b \in Misplaced(block, x)
             \/ b \in Misplaced(block, block.bwtIdx)
    <2>1. block.bwtIdx \in Int
      BY DEF Fields
    <2> QED  BY <1>1, <1>2, <1>3, <1>5, <2>1
  <1>6. CASE b = [block EXCEPT !.payload = Garbage(0)]
    BY <1>1, <1>6 DEF Fields
  <1>7. CASE \/ \E n \in ForeignSizes : b = [block EXCEPT !.compressedSize = n]
             \/ \E x \in ForeignIndices : b = [block EXCEPT !.bwtIdx = x]
             \/ \E n \in ForeignSizes : b = [block EXCEPT !.lzpSize = n]
             \/ \E n \in ForeignSizes : b = [block EXCEPT !.rleSize = n]
    <2>1. b \in Fields /\ b.crc = block.crc /\ b.payload = block.payload
      BY <1>2, <1>7 DEF Fields
    <2> QED  BY <1>1, <2>1
  <1> QED  BY <1>4, <1>5, <1>6, <1>7

LEMMA TransportInv == ASSUME IInv, Transport PROVE IInv'
  <1>1. /\ pc = "encoded" /\ pc' = "decode" /\ b1' = "buffer" /\ size' = 0
        /\ bufLen' \in {Bound(origSize), Bound(BlockSize)}
        /\ \/ block' = block /\ told' \in {origSize} \cup ForeignSizes /\ UNCHANGED original
           \/ block' \in DamagedBlocks(block) /\ told' = origSize /\ original' = FALSE
        /\ mem' \in {mem, [buffer |-> Garbage(0), swap |-> Garbage(0)]}
        /\ result' = [size |-> 0, err |-> "none"]
        /\ UNCHANGED origSize
    BY DEF Transport
  <1>2. /\ original /\ bufLen = Bound(origSize) /\ (StoredBlock \/ CodedBlock)
        /\ origSize \in Nat /\ origSize <= BlockSize /\ block \in Fields
    <2>1. original /\ bufLen = Bound(origSize) /\ (StoredBlock \/ CodedBlock)
      BY <1>1 DEF IInv, Encoding, GoodBlock
    <2>2. origSize \in Nat /\ origSize <= BlockSize /\ block \in Fields
      BY <2>1, Limits, TwoBuffers DEF StoredBlock, CodedBlock, IInv, Inv, TypeOK
    <2> QED  BY <2>1, <2>2
  <1>3. /\ Bound(origSize) \in Nat /\ Bound(BlockSize) \in Nat
        /\ Bound(origSize) <= Bound(BlockSize) /\ Bound(origSize) >= origSize + 32
    BY <1>2, Limits
  <1>4. bufLen' \in Nat /\ bufLen' >= Bound(origSize)
    BY <1>1, <1>3
  <1>5. /\ mem' \in [buffer : Data, swap : Data]
        /\ mem'.buffer.len <= bufLen' /\ mem'.swap.len <= Bound(BlockSize)
        /\ Sized(mem'.buffer) /\ Sized(mem'.swap)
    <2>1. CASE mem' = mem
      <3>1. mem.buffer.len <= bufLen /\ mem.buffer \in Data
        BY TwoBuffers DEF IInv, Inv, AccessesInRange
      <3>2. mem.buffer.len <= bufLen'
        BY <1>2, <1>3, <1>4, <3>1 DEF Data
      <3> QED  BY <2>1, <3>2 DEF IInv, Inv, TypeOK, AccessesInRange, Capacity, BothSized
    <2>2. CASE mem' = [buffer |-> Garbage(0), swap |-> Garbage(0)]
      BY <1>3, <1>4, <2>2, GarbageData
    <2> QED  BY <1>1, <2>1, <2>2
  <1>6. /\ block.crc = Source /\ Sized(block.payload)
        /\ block.payload.len \in 0..Bound(origSize)
    <2>1. CASE StoredBlock
      <3>1. block.crc = Source /\ block.payload = Source
        BY <2>1 DEF StoredBlock
      <3>2. Source.len = origSize /\ Sized(Source)
        BY <1>2, SourceData DEF Source
      <3> QED  BY <1>2, <1>3, <3>1, <3>2
    <2>2. CASE CodedBlock
      <3> DEFINE n == block.payload.len
      <3>1. /\ block.crc = Source /\ n \in Nat /\ n + HeaderLen(block.model) <= Bound(origSize)
            /\ block.payload = Coded(n) /\ origSize \in 64..BlockSize /\ Shrinking
        BY <2>2 DEF CodedBlock
      <3>2. Sized(block.payload)
        <4>1. Sized(Coded(n))
          BY <1>2, <3>1, CodedData
        <4> QED  BY <3>1, <4>1
      <3>3. HeaderLen(block.model) \in 9..17
        BY DEF HeaderLen
      <3> QED  BY <1>3, <3>1, <3>2, <3>3
    <2> QED  BY <1>2, <2>1, <2>2
  <1>7. /\ block' \in Fields /\ block'.crc = Source
        /\ Sized(block'.payload) /\ block'.payload.len <= bufLen'
    <2>1. CASE block' = block
      BY <1>2, <1>3, <1>4, <1>6, <2>1
    <2>2. CASE block' \in DamagedBlocks(block)
      <3>1. /\ block' \in Fields /\ block'.crc = block.crc
            /\ Sized(block'.payload) /\ block'.payload.len <= block.payload.len
        BY <1>2, <1>6, <2>2, DamagedData
      <3>2. block'.payload.len \in Int
        BY <3>1 DEF Fields, Data
      <3> QED  BY <1>3, <1>4, <1>6, <3>1, <3>2
    <2> QED  BY <1>1, <2>1, <2>2
  <1>8. TypeOK'
    <2>a. original' = original \/ original' = FALSE
      BY <1>1, Zenon
    <2>b. original' = TRUE \/ original' = FALSE
      BY <1>2, <2>a, Zenon
    <2>c. original' \in BOOLEAN
      BY <2>b, Zenon
    <2>1. size' \in Int /\ original' \in BOOLEAN
      BY <1>1, <2>c
    <2>2. told' \in {origSize} \cup ForeignSizes
      BY <1>1
    <2>3. told' \in Int
      BY <1>2, <2>2, SizesAssumption
    <2> QED  BY <1>1, <1>2, <1>4, <1>5, <1>7, <2>1, <2>3 DEF TypeOK, Fields, Errors
  <1>9. AccessesInRange' /\ BothSized' /\ Unfailed' /\ CrcOfSource'
    BY <1>1, <1>5, <1>7 DEF AccessesInRange, Capacity, BothSized, Unfailed, CrcOfSource, Source
  <1>10. Encoding' /\ Decoding' /\ Retracing' /\ BlockRoundTrips' /\ NeverWrongData'
    BY <1>1 DEF Encoding, Encodes, Decoding, Decodes, Retracing, BlockRoundTrips, NeverWrongData
  <1>11. GoodBlock'
    <2>1. CASE block' = block /\ UNCHANGED original
      <3>1. StoredBlock' \/ CodedBlock'
        BY <1>1, <1>2, <2>1, BlockKept
      <3>2. bufLen' >= Bound(origSize')
        BY <1>1, <1>4
      <3> QED  BY <1>1, <1>2, <2>1, <3>1, <3>2 DEF GoodBlock, Decodes
    <2>2. CASE original' = FALSE
      BY <1>7, <2>2 DEF GoodBlock
    <2> QED  BY <1>1, <2>1, <2>2
  <1> QED  BY <1>8, <1>9, <1>10, <1>11 DEF IInv, Inv

(* What DecodeBlock is given when EncodeBlock has returned it. *)
LEMMA OriginalBlock ==
  ASSUME IInv, original, pc = "decode" \/ Decodes
  PROVE  /\ StoredBlock \/ CodedBlock
         /\ origSize \in Nat /\ origSize <= BlockSize /\ bufLen \in Nat
         /\ bufLen >= Bound(origSize) /\ Bound(origSize) >= origSize + 32
         /\ Bound(origSize) \in Nat /\ Bound(BlockSize) \in Nat
         /\ Bound(origSize) <= Bound(BlockSize)
         /\ block.compressedSize \in 8..Bound(origSize)
         /\ StoredBlock => block.compressedSize = origSize + 8
         /\ CodedBlock => /\ origSize >= 64 /\ Shrinking /\ block \in Fields
                          /\ block.bwtIdx = AfterLzp.len /\ AfterLzp.len \in 1..origSize
                          /\ \E n \in Nat : block.payload = Coded(n) /\ n <= Bound(origSize)
                          /\ modelLZP \in block.model => block.lzpSize = AfterLzp.len
                          /\ modelRLE \in block.model => /\ block.rleSize = AfterRle.len
                                                         /\ block.rleSize \in 1..origSize
         /\ CodedBlock /\ told = origSize => SizeBeforeBwt = AfterLzp.len
  <1>1. (StoredBlock \/ CodedBlock) /\ bufLen >= Bound(origSize)
    BY DEF IInv, GoodBlock
  <1>2. origSize \in Nat /\ origSize <= BlockSize /\ bufLen \in Nat /\ block \in Fields
    BY <1>1, Limits DEF StoredBlock, CodedBlock, IInv, Inv, TypeOK, Fields
  <1>3. /\ Bound(origSize) \in Nat /\ Bound(BlockSize) \in Nat
        /\ Bound(origSize) <= Bound(BlockSize) /\ Bound(origSize) >= origSize + 32
    BY <1>2, Limits
  <1>4. StoredBlock => /\ block.compressedSize = origSize + 8
                       /\ block.compressedSize \in 8..Bound(origSize)
    BY <1>2, <1>3 DEF StoredBlock
  <1>5. ASSUME CodedBlock
        PROVE  /\ block.compressedSize \in 8..Bound(origSize)
               /\ origSize >= 64 /\ Shrinking
               /\ block.bwtIdx = AfterLzp.len /\ AfterLzp.len \in 1..origSize
               /\ \E n \in Nat : block.payload = Coded(n) /\ n <= Bound(origSize)
               /\ modelLZP \in block.model => block.lzpSize = AfterLzp.len
               /\ modelRLE \in block.model => /\ block.rleSize = AfterRle.len
                                              /\ block.rleSize \in 1..origSize
               /\ told = origSize => SizeBeforeBwt = AfterLzp.len
    <2> DEFINE n == block.payload.len
    <2>1. /\ origSize \in 64..BlockSize /\ Shrinking /\ block.bwtIdx = AfterLzp.len
          /\ n \in Nat /\ n + HeaderLen(block.model) <= Bound(origSize)
          /\ block.compressedSize = n + HeaderLen(block.model)
          /\ block.payload = Coded(n)
      BY <1>5 DEF CodedBlock
    <2>2. HeaderLen(block.model) \in 9..17
      BY DEF HeaderLen
    <2>3. block.compressedSize \in 8..Bound(origSize) /\ n <= Bound(origSize)
      BY <1>3, <2>1, <2>2
    <2>4. /\ AfterLzp.len \in 1..origSize
          /\ modelLZP \in block.model => block.lzpSize = AfterLzp.len
          /\ modelRLE \in block.model => /\ block.rleSize = AfterRle.len
                                         /\ block.rleSize \in 1..origSize
          /\ modelLZP \notin block.model => AfterLzp = AfterRle
          /\ modelRLE \notin block.model => AfterRle.len = origSize
      BY <1>2, <2>1, ChainData
    <2>5. told = origSize => SizeBeforeBwt = AfterLzp.len
      BY <2>4 DEF SizeBeforeBwt
    <2> QED  BY <1>2, <2>1, <2>3, <2>4, <2>5
  <1> QED  BY <1>1, <1>2, <1>3, <1>4, <1>5

-----------------------------------------------------------------------------
(* A refusal that leaves everything else as it is. *)
LEMMA RefuseSame ==
  ASSUME IInv, Decodes \/ pc = "decode",
         UNCHANGED <<bufLen, origSize, told, block, original, mem, b1, size>>,
         ~(original /\ told = origSize),
         NEW e \in Errors \ {"none", "nil", "panic", "overrun"}, Fail(e)
  PROVE  IInv'
  <1>1. TypeOK /\ AccessesInRange /\ BothSized
    BY DEF IInv, Inv
  <1>2. b1' \in {"buffer", "swap"} /\ mem' \in [buffer : Data, swap : Data]
    BY <1>1 DEF TypeOK
  <1>3. size' \in Int
    BY <1>1 DEF TypeOK
  <1>4. mem'.buffer.len <= bufLen /\ mem'.swap.len <= Bound(BlockSize)
    BY <1>1 DEF AccessesInRange, Capacity
  <1>5. BothSized'
    BY <1>1 DEF BothSized
  <1> QED  BY <1>2, <1>3, <1>4, <1>5, RefuseStep

(* What Start checks of a header. *)
TooShort == bufLen < 9 \/ bufLen < block.compressedSize
NoRoom   == bufLen < 9 + (IF modelLZP \in block.model THEN 8 ELSE 0)
                       + (IF modelRLE \in block.model THEN 16 ELSE 0)
BadSizes == \/ modelLZP \in block.model /\ OutOfRange(block.lzpSize)
            \/ modelRLE \in block.model /\ OutOfRange(block.rleSize)
            \/ OutOfRange(told)
BigSizes == \/ modelLZP \in block.model /\ block.lzpSize > bufLen
            \/ modelRLE \in block.model /\ block.rleSize > bufLen
            \/ told > bufLen

LEMMA HeaderAccepted ==
  ASSUME IInv, pc = "decode", original, told = origSize
  PROVE  /\ ~TooShort /\ ~OutOfRange(block.compressedSize)
         /\ block.bwtIdx # -1 => ~NoRoom /\ ~BadSizes /\ ~BigSizes
         /\ block.bwtIdx = -1 => StoredBlock
  <1>1. /\ StoredBlock \/ CodedBlock
        /\ origSize \in Nat /\ bufLen \in Nat
        /\ bufLen >= Bound(origSize) /\ Bound(origSize) >= origSize + 32
        /\ Bound(origSize) \in Nat /\ Bound(BlockSize) \in Nat
        /\ Bound(origSize) <= Bound(BlockSize)
        /\ block.compressedSize \in 8..Bound(origSize)
    BY OriginalBlock
  <1>2. ~TooShort
    BY <1>1 DEF TooShort
  <1>3. ~OutOfRange(block.compressedSize)
    BY <1>1 DEF OutOfRange
  <1>4. ASSUME CodedBlock
        PROVE  block.bwtIdx # -1 /\ ~NoRoom /\ ~BadSizes /\ ~BigSizes
    <2>1. /\ origSize >= 64 /\ block.bwtIdx = AfterLzp.len /\ AfterLzp.len \in 1..origSize
          /\ modelLZP \in block.model => block.lzpSize \in 1..origSize
          /\ modelRLE \in block.model => block.rleSize \in 1..origSize
      BY <1>4, OriginalBlock
    <2>2. ~NoRoom
      BY <1>1, <2>1 DEF NoRoom
    <2>3. ~BadSizes
      BY <1>1, <2>1 DEF BadSizes, OutOfRange
    <2>4. ~BigSizes
      BY <1>1, <2>1 DEF BigSizes
    <2> QED  BY <1>1, <2>1, <2>2, <2>3, <2>4
  <1>5. StoredBlock => block.bwtIdx = -1
    BY DEF StoredBlock
  <1> QED  BY <1>1, <1>2, <1>3, <1>4, <1>5

(* A stored block: the data are copied, and only the CRC tells whose.        *)
LEMMA CutData ==
  ASSUME NEW d \in Data, Sized(d), NEW n \in Nat
  PROVE  Cut(d, n) \in Data /\ Cut(d, n).len = n /\ Sized(Cut(d, n))
  <1>1. CASE n = 0
    BY <1>1, SourceData DEF Cut
  <1>2. CASE n # 0 /\ d.len = n
    BY <1>2 DEF Cut
  <1>3. CASE n # 0 /\ d.len # n
    BY <1>3, GarbageData DEF Cut
  <1> QED  BY <1>1, <1>2, <1>3

(* Returning data whose CRC is right: they are the source, if its CRC is.    *)
LEMMA VerifiedStep ==
  ASSUME IInv, Decodes \/ pc = "decode", UNCHANGED <<bufLen, origSize, told, block, original>>,
         b1' \in {"buffer", "swap"}, mem' \in [buffer : Data, swap : Data], BothSized',
         mem'.buffer.len <= bufLen, mem'.swap.len <= Bound(BlockSize), size' \in Int,
         NEW n \in Nat, NEW data \in Data, data.len = n, data = Cut(mem'.buffer, n),
         Verify(data, n),
         n = told \/ block.bwtIdx = -1 \/ block.model = {modelLZP},
         original /\ told = origSize =>
           n = origSize /\ mem'.buffer = Source /\ data = Source /\ block.crc = Source
  PROVE  IInv'
  <1>1. CASE CrcRight(data) /\ Return(n, "nil")
    <2>1. pc' = "returned" /\ result' = [size |-> n, err |-> "nil"]
      BY <1>1 DEF Return
    <2>2. TypeOK'
      BY <2>1 DEF IInv, Inv, TypeOK, Errors
    <2>3. AccessesInRange'
      BY <2>1 DEF AccessesInRange, Capacity
    <2>4. Encoding' /\ Decoding' /\ Retracing'
      BY <2>1 DEF Encoding, Encodes, Decoding, Decodes, Retracing
    <2>5. GoodBlock'
      BY <2>1, BlockKept DEF IInv, GoodBlock, Decodes
    <2>6. BlockRoundTrips'
      BY <2>1 DEF BlockRoundTrips, Encoded, Source
    <2>7. NeverWrongData'
      <3>1. ASSUME block.crc # Unknown
            PROVE  n = origSize /\ Cut(mem'.buffer, origSize) = Content(<<>>, origSize)
        <4>1. data = Source
          BY <1>1, <3>1 DEF IInv, CrcOfSource, CrcRight
        <4>2. n = origSize
          BY <4>1 DEF Source, Content
        <4> QED  BY <4>1, <4>2 DEF Source
      <3> QED  BY <2>1, <3>1 DEF NeverWrongData
    <2>8. Unfailed' /\ CrcOfSource'
      BY <2>1 DEF IInv, Unfailed, CrcOfSource, Source
    <2> QED  BY <2>2, <2>3, <2>4, <2>5, <2>6, <2>7, <2>8 DEF IInv, Inv
  <1>2. CASE data # block.crc /\ Fail("crc")
    <2>1. ~(original /\ told = origSize)
      BY <1>2
    <2> QED  BY <1>2, <2>1, RefuseStep DEF Errors
  <1> QED  BY <1>1, <1>2 DEF Verify

LEMMA DecodeStoredInv ==
  ASSUME IInv, pc = "decode", DecodeStored, ~TooShort, block.bwtIdx = -1,
         UNCHANGED <<bufLen, origSize, told, block, original, b1, size>>
  PROVE  IInv'
  <1> DEFINE n == block.compressedSize - 8
             p == IF block.stored THEN block.payload ELSE Garbage(n)
             data == Cut(p, n)
  <1>1. /\ TypeOK /\ BothSized /\ block \in Fields /\ n \in Int /\ bufLen \in Nat
        /\ block.compressedSize <= bufLen /\ b1 = "buffer" /\ size = 0
        /\ mem.swap.len <= Bound(BlockSize)
    BY TwoBuffers DEF IInv, Inv, TypeOK, AccessesInRange, Capacity, Fields, TooShort, Decoding
  <1>2. original /\ told = origSize => StoredBlock
    BY HeaderAccepted
  <1>3. StoredBlock => /\ n = origSize /\ n \in 0..63 /\ block.stored
                       /\ block.payload = Source /\ block.crc = Source
    BY <1>1, Limits DEF StoredBlock, TypeOK
  <1>4. CASE n > 64 \/ n < 0
    <2>1. Fail("malformedHeader") /\ UNCHANGED mem
      BY <1>4 DEF DecodeStored
    <2>2. ~(original /\ told = origSize)
      BY <1>2, <1>3, <1>4
    <2> QED  BY <2>1, <2>2, RefuseSame DEF Errors
  <1>5. CASE ~(n > 64 \/ n < 0)
    <2>1. Verify(data, n) /\ mem' = [mem EXCEPT !["buffer"] = data]
      BY <1>5 DEF DecodeStored
    <2>2. n \in Nat /\ n <= bufLen
      <3>1. block.compressedSize \in Int
        BY <1>1 DEF Fields
      <3> QED  BY <1>1, <1>5, <3>1
    <2>3. p \in Data /\ Sized(p)
      <3>1. CASE block.stored
        <4>1. block.payload \in Data
          BY <1>1 DEF Fields
        <4>2. Sized(block.payload)
          <5>1. CASE original
            <6>1. StoredBlock
              BY <3>1, <5>1, OriginalBlock DEF CodedBlock
            <6> QED  BY <1>1, <1>3, <6>1, SourceData DEF Source, TypeOK
          <5>2. CASE ~original
            BY <5>2 DEF IInv, GoodBlock
          <5> QED  BY <5>1, <5>2
        <4> QED  BY <3>1, <4>1, <4>2
      <3>2. CASE ~block.stored
        BY <1>1, <3>2, GarbageData
      <3> QED  BY <3>1, <3>2
    <2> HIDE DEF p
    <2>4. data \in Data /\ data.len = n /\ Sized(data)
      BY <2>2, <2>3, CutData
    <2>5. /\ mem' \in [buffer : Data, swap : Data]
          /\ mem'.buffer = data /\ mem'.swap = mem.swap
      BY <1>1, <2>1, <2>4, MemUpdate
    <2>6. BothSized'
      BY <1>1, <2>4, <2>5 DEF BothSized
    <2>7. data = Cut(data, n)
      <3>1. n = 0 => data = Content(<<>>, 0)
        BY DEF Cut
      <3> HIDE DEF data
      <3> QED  BY <2>4, <3>1 DEF Cut
    <2>8. original /\ told = origSize =>
            n = origSize /\ data = Source /\ block.crc = Source
      <3>1. StoredBlock => p = Source /\ n = origSize /\ block.crc = Source
        BY <1>3 DEF p
      <3>2. p = Source /\ n = origSize => data = Source
        BY DEF Cut, Source, Content
      <3> QED  BY <1>2, <3>1, <3>2
    <2> HIDE DEF data, n
    <2>9. b1' \in {"buffer", "swap"} /\ size' \in Int
      BY <1>1
    <2> QED  BY <1>1, <2>1, <2>2, <2>4, <2>5, <2>6, <2>7, <2>8, <2>9, VerifiedStep
  <1> QED  BY <1>4, <1>5

(* A header that has passed the checks. *)
LEMMA ContinueInv ==
  ASSUME IInv, pc = "decode", ~TooShort, block.bwtIdx # -1, ~NoRoom, ~BadSizes, ~BigSizes,
         mem' = [mem EXCEPT !["buffer"] = block.payload], size' = SizeBeforeBwt,
         pc' = "undoCm", result' = result,
         UNCHANGED <<bufLen, b1, origSize, told, block, original>>
  PROVE  IInv'
  <1>1. /\ TypeOK /\ BothSized /\ block \in Fields /\ bufLen \in Nat /\ told \in Int
        /\ result.err \in {"none", "nil"} /\ b1 = "buffer" /\ mem.swap.len <= Bound(BlockSize)
        /\ Bound(BlockSize) \in Nat /\ origSize \in Nat
    BY TwoBuffers, Limits
    DEF IInv, Inv, TypeOK, AccessesInRange, Capacity, Unfailed, Fields, Decoding
  <1>2. /\ Fits(told)
        /\ modelLZP \in block.model => Fits(block.lzpSize)
        /\ modelRLE \in block.model => Fits(block.rleSize)
    BY <1>1 DEF Fits, BadSizes, BigSizes, OutOfRange, Fields
  <1>3. Fits(SizeBeforeBwt)
    BY <1>2 DEF SizeBeforeBwt
  <1>4. HeaderLen(block.model) <= bufLen /\ block.compressedSize <= bufLen
    BY <1>1 DEF NoRoom, HeaderLen, TooShort, Fields
  <1>5. block.payload \in Data /\ block.payload.len <= bufLen /\ Sized(block.payload)
    <2>1. block.payload \in Data
      BY <1>1 DEF Fields
    <2>2. CASE ~original
      BY <1>1, <2>1, <2>2 DEF IInv, GoodBlock
    <2>3. CASE original
      <3>1. /\ StoredBlock \/ CodedBlock
            /\ bufLen >= Bound(origSize) /\ Bound(origSize) \in Nat
            /\ CodedBlock => /\ origSize >= 64 /\ Shrinking
                             /\ \E n \in Nat : block.payload = Coded(n) /\ n <= Bound(origSize)
        BY <2>3, OriginalBlock
      <3>2. CodedBlock
        BY <3>1 DEF StoredBlock
      <3>3. PICK n \in Nat : block.payload = Coded(n) /\ n <= Bound(origSize)
        BY <3>1, <3>2
      <3>4. origSize \in 64..BlockSize /\ Shrinking
        BY <3>2 DEF CodedBlock
      <3>5. Coded(n).len = n /\ Sized(Coded(n))
        BY <1>1, <3>4, CodedData
      <3> QED  BY <1>1, <2>1, <3>1, <3>3, <3>5
    <2> QED  BY <2>1, <2>2, <2>3
  <1>6. /\ mem' \in [buffer : Data, swap : Data]
        /\ mem'.buffer = block.payload /\ mem'.swap = mem.swap
    BY <1>1, <1>5, MemUpdate
  <1>7. TypeOK'
    <2>1. size' \in Int
      BY <1>1, <1>2 DEF SizeBeforeBwt, Fields, Fits
    <2> QED  BY <1>1, <1>6, <2>1 DEF TypeOK
  <1>8. AccessesInRange' /\ BothSized'
    BY <1>1, <1>5, <1>6 DEF AccessesInRange, Capacity, BothSized
  <1>9. Decodes' /\ Retracing'
    BY DEF Decodes, Retracing
  <1>10. Decoding'
    <2>1. SizeBeforeBwt' = SizeBeforeBwt
      BY DEF SizeBeforeBwt
    <2> QED  BY <1>1, <1>2, <1>3, <1>4, <1>6, <2>1 DEF Decoding, Fits
  <1> QED  BY <1>7, <1>8, <1>9, <1>10, DecodingStep

LEMMA StartInv == ASSUME IInv, Start PROVE IInv'
  <1>1. pc = "decode" /\ UNCHANGED <<bufLen, b1, origSize, told, block, original>>
    BY DEF Start
  <1>2. bufLen \in Nat /\ block \in Fields
    BY TwoBuffers DEF IInv, Inv, TypeOK
  <1>3. CASE TooShort
    <2>1. Fail("dataSizeTooSmall") /\ UNCHANGED <<mem, size>>
      BY <1>3 DEF Start, TooShort
    <2> QED  BY <1>1, <1>3, <2>1, HeaderAccepted, RefuseSame DEF Errors
  <1>4. CASE ~TooShort /\ OutOfRange(block.compressedSize)
    <2>1. Fail("malformedHeader") /\ UNCHANGED <<mem, size>>
      BY <1>4 DEF Start, TooShort
    <2> QED  BY <1>1, <1>4, <2>1, HeaderAccepted, RefuseSame DEF Errors
  <1>5. CASE ~TooShort /\ ~OutOfRange(block.compressedSize) /\ block.bwtIdx = -1
    <2>1. DecodeStored /\ UNCHANGED size
      BY <1>5 DEF Start, TooShort
    <2> QED  BY <1>1, <1>5, <2>1, DecodeStoredInv
  <1> DEFINE Compressed == /\ ~TooShort /\ ~OutOfRange(block.compressedSize)
                           /\ block.bwtIdx # -1
  <1>6. CASE Compressed /\ NoRoom
    <2>1. Fail("dataSizeTooSmall") /\ UNCHANGED <<mem, size>>
      BY <1>6 DEF Start, TooShort, NoRoom
    <2> QED  BY <1>1, <1>6, <2>1, HeaderAccepted, RefuseSame DEF Errors
  <1>7. ~NoRoom => ~(bufLen < HeaderLen(block.model))
    BY <1>2 DEF NoRoom, HeaderLen
  <1>8. CASE Compressed /\ ~NoRoom /\ BadSizes
    <2>1. Fail("malformedHeader") /\ UNCHANGED <<mem, size>>
      BY <1>7, <1>8 DEF Start, TooShort, NoRoom, BadSizes
    <2> QED  BY <1>1, <1>8, <2>1, HeaderAccepted, RefuseSame DEF Errors
  <1>9. CASE Compressed /\ ~NoRoom /\ ~BadSizes /\ BigSizes
    <2>1. Fail("dataSizeTooSmall") /\ UNCHANGED <<mem, size>>
      BY <1>7, <1>9 DEF Start, TooShort, NoRoom, BadSizes, BigSizes
    <2> QED  BY <1>1, <1>9, <2>1, HeaderAccepted, RefuseSame DEF Errors
  <1>10. CASE Compressed /\ ~NoRoom /\ ~BadSizes /\ ~BigSizes
    <2>1. /\ mem' = [mem EXCEPT !["buffer"] = block.payload]
          /\ size' = SizeBeforeBwt /\ pc' = "undoCm" /\ UNCHANGED result
      BY <1>7, <1>10 DEF Start, TooShort, NoRoom, BadSizes, BigSizes
    <2> QED  BY <1>1, <1>10, <2>1, ContinueInv
  <1> QED  BY <1>3, <1>4, <1>5, <1>6, <1>8, <1>9, <1>10

-----------------------------------------------------------------------------
(* What undoing a stage leaves in the other buffer, whatever was there.      *)
LEMMA UndoOrGarbage ==
  ASSUME TypeOK, BothSized, NEW st, NEW n \in 0..Bound(BlockSize),
         NEW x, x = IF Undoes(mem[b1], st, n) THEN Undo(mem[b1]) ELSE Garbage(n)
  PROVE  x \in Data /\ x.len = n /\ Sized(x)
  <1>1. mem[b1] \in Data /\ Sized(mem[b1])
    BY TwoBuffers DEF BothSized
  <1>2. CASE Undoes(mem[b1], st, n)
    BY <1>1, <1>2, UndoData DEF Undoes
  <1>3. CASE ~Undoes(mem[b1], st, n)
    <2>1. n \in Int
      BY Limits
    <2> QED  BY <1>3, <2>1, GarbageData
  <1> QED  BY <1>2, <1>3

(* Both buffers after the stage has been undone from b1 to b2. *)
LEMMA SecondBuffer ==
  ASSUME TypeOK, AccessesInRange, BothSized, UNCHANGED <<origSize, original>>,
         NEW x \in Data, Sized(x), mem' = [mem EXCEPT ![b2] = x],
         b1 = "swap" => x.len <= bufLen, x.len <= Bound(BlockSize)
  PROVE  /\ mem' \in [buffer : Data, swap : Data] /\ BothSized'
         /\ mem'.buffer.len <= bufLen /\ mem'.swap.len <= Bound(BlockSize)
         /\ mem'[b2] = x /\ mem'[b1] = mem[b1]
         /\ b1 = "swap" => mem'.buffer = x
         /\ b1 = "buffer" => mem'.swap = x
  <1>1. /\ mem.buffer.len <= bufLen /\ mem.swap.len <= Bound(BlockSize)
        /\ Sized(mem.buffer) /\ Sized(mem.swap)
    BY DEF AccessesInRange, Capacity, BothSized
  <1>3. CASE b1 = "buffer"
    <2>1. b2 = "swap"
      BY <1>3 DEF b2
    <2>2. /\ mem' \in [buffer : Data, swap : Data]
          /\ mem'.swap = x /\ mem'.buffer = mem.buffer /\ mem'[b2] = x
      BY <2>1, MemUpdate
    <2> QED  BY <1>1, <1>3, <2>1, <2>2 DEF BothSized
  <1>4. CASE b1 = "swap"
    <2>1. b2 = "buffer"
      BY <1>4 DEF b2
    <2>2. /\ mem' \in [buffer : Data, swap : Data]
          /\ mem'.buffer = x /\ mem'.swap = mem.swap /\ mem'[b2] = x
      BY <2>1, MemUpdate
    <2> QED  BY <1>1, <1>4, <2>1, <2>2 DEF BothSized
  <1> QED  BY <1>3, <1>4 DEF TypeOK

-----------------------------------------------------------------------------
(* Told the true size, the decoder has the header of the block's stages.     *)
LEMMA TrueSize ==
  ASSUME IInv, Decodes, original, told = origSize
  PROVE  /\ origSize \in 64..BlockSize /\ block \in Fields /\ Shrinking
         /\ origSize \in Nat /\ bufLen \in Nat /\ origSize <= bufLen
         /\ SizeBeforeBwt = AfterLzp.len /\ block.bwtIdx = AfterLzp.len
         /\ AfterLzp.len \in 1..origSize
         /\ \E n \in Nat : /\ block.payload = Coded(n) /\ block.payload.len = n
                           /\ block.compressedSize = n + HeaderLen(block.model)
         /\ block.compressedSize > 0 /\ block.crc = Source
  <1>1. /\ StoredBlock \/ CodedBlock
        /\ origSize \in Nat /\ bufLen \in Nat
        /\ bufLen >= Bound(origSize) /\ Bound(origSize) >= origSize + 32
        /\ Bound(origSize) \in Nat
        /\ block.compressedSize \in 8..Bound(origSize)
        /\ CodedBlock => SizeBeforeBwt = AfterLzp.len
        /\ CodedBlock => /\ Shrinking /\ block \in Fields
                         /\ block.bwtIdx = AfterLzp.len /\ AfterLzp.len \in 1..origSize
                         /\ \E n \in Nat : block.payload = Coded(n)
    BY OriginalBlock
  <1>2. block.bwtIdx # -1
    BY DEF IInv, Decoding
  <1>3. CodedBlock
    BY <1>1, <1>2 DEF StoredBlock
  <1>4. origSize \in 64..BlockSize
    BY <1>3 DEF CodedBlock
  <1>5. origSize <= bufLen /\ block.compressedSize > 0
    BY <1>1
  <1>6. /\ block.crc = Source
        /\ \E n \in Nat : /\ block.payload = Coded(n) /\ block.payload.len = n
                          /\ block.compressedSize = n + HeaderLen(block.model)
    BY <1>3 DEF CodedBlock
  <1> QED  BY <1>1, <1>3, <1>4, <1>5, <1>6

(* The parts of a step that goes on which all of them share. *)
LEMMA StepGoesOn ==
  ASSUME IInv, Decodes, UNCHANGED <<bufLen, origSize, told, block, original>>,
         mem' \in [buffer : Data, swap : Data], BothSized',
         mem'.buffer.len <= bufLen, mem'.swap.len <= Bound(BlockSize),
         b1' \in {"buffer", "swap"}, Fits(size'), result' = result, Decodes'
  PROVE  /\ TypeOK' /\ AccessesInRange'
         /\ block.bwtIdx' # -1 /\ Fits(told)'
         /\ modelLZP \in block.model' => Fits(block.lzpSize)'
         /\ modelRLE \in block.model' => Fits(block.rleSize)'
         /\ HeaderLen(block.model)' <= bufLen' /\ block.compressedSize' <= bufLen'
         /\ Fits(size)' /\ SizeBeforeBwt' = SizeBeforeBwt
  <1>1. TypeOK /\ AccessesInRange
    BY DEF IInv, Inv
  <1>2. TypeOK'
    <2>1. size' \in Int
      BY Limits DEF Fits
    <2>2. pc' \in {"undoCm", "undoBwt", "undoLzp", "undoRle", "check"}
      BY DEF Decodes
    <2> QED  BY <1>1, <2>1, <2>2 DEF TypeOK
  <1>3. AccessesInRange'
    BY <1>1 DEF IInv, AccessesInRange, Capacity, Decodes, Unfailed
  <1>4. SizeBeforeBwt' = SizeBeforeBwt
    BY DEF SizeBeforeBwt
  <1>5. /\ block.bwtIdx # -1 /\ Fits(told)
        /\ modelLZP \in block.model => Fits(block.lzpSize)
        /\ modelRLE \in block.model => Fits(block.rleSize)
        /\ HeaderLen(block.model) <= bufLen /\ block.compressedSize <= bufLen
    BY DEF IInv, Decoding
  <1> QED  BY <1>2, <1>3, <1>4, <1>5 DEF Fits

LEMMA UndoCmInv == ASSUME IInv, UndoCm PROVE IInv'
  <1> DEFINE cmStart == HeaderLen(block.model)
             cmEnd == IF block.compressedSize < cmStart THEN cmStart ELSE block.compressedSize
             whole == cmEnd = cmStart + mem[b1].len
             u == IF Undoes(mem[b1], "cm", size) THEN Undo(mem[b1]) ELSE Garbage(size)
  <1>1. /\ pc = "undoCm" /\ Decodes /\ UNCHANGED <<bufLen, origSize, told, block, original>>
        /\ TypeOK /\ AccessesInRange /\ BothSized
    BY DEF UndoCm, Decodes, IInv, Inv
  <1>2. /\ b1 = "buffer" /\ b2 = "swap" /\ mem[b1] = block.payload /\ size = SizeBeforeBwt
        /\ Fits(size) /\ block.bwtIdx # -1
        /\ HeaderLen(block.model) <= bufLen /\ block.compressedSize <= bufLen
    BY <1>1, TwoBuffers DEF IInv, Decoding
  <1>3. size \in 0..Bound(BlockSize) /\ size \in Int /\ block.bwtIdx \in Int
    BY <1>1, <1>2, Limits, TwoBuffers DEF Fits, Fields
  <1>4. PICK x \in CmMakes(mem[b1], whole) :
        /\ mem' = [mem EXCEPT ![b2] = x] /\ b1' = b2 /\ size' = size
        /\ IF block.bwtIdx > size THEN Fail("malformedHeader")
           ELSE pc' = "undoBwt" /\ result' = result
    <2>1. size <= Capacity(b2)
      BY <1>2, <1>3 DEF Capacity
    <2> QED  BY <1>2, <2>1 DEF UndoCm, Checked, Capacity
  <1>5. x \in Data /\ x.len = size /\ Sized(x)
    <2>1. u \in Data /\ u.len = size /\ Sized(u)
      BY <1>1, <1>3, UndoOrGarbage
    <2>2. Garbage(size) \in Data /\ Garbage(size).len = size /\ Sized(Garbage(size))
      BY <1>3, GarbageData
    <2>3. x = u \/ x = Garbage(size)
      BY <1>4 DEF CmMakes
    <2> QED  BY <2>1, <2>2, <2>3
  <1>6. /\ mem' \in [buffer : Data, swap : Data] /\ BothSized'
        /\ mem'.buffer.len <= bufLen /\ mem'.swap.len <= Bound(BlockSize)
        /\ mem'.swap = x
    <2>1. x.len <= Bound(BlockSize) /\ UNCHANGED <<origSize, original>> /\ b1 # "swap"
      BY <1>1, <1>2, <1>3, <1>5
    <2>2. mem' = [mem EXCEPT ![b2] = x]
      BY <1>4
    <2> QED  BY <1>1, <1>2, <1>5, <2>1, <2>2, SecondBuffer
  <1>7. ASSUME original, told = origSize
        PROVE  block.bwtIdx = size /\ x = AfterBwt
    <2>1. PICK n \in Nat : /\ block.payload = Coded(n) /\ block.payload.len = n
                           /\ block.compressedSize = n + cmStart
      BY <1>1, <1>7, TrueSize
    <2>2. size = AfterLzp.len /\ block.bwtIdx = AfterLzp.len
      BY <1>1, <1>2, <1>7, TrueSize
    <2>3. Undoes(Coded(n), "cm", AfterLzp.len) /\ Undo(Coded(n)) = AfterBwt
      BY <1>1, <1>7, TrueSize, CodedData
    <2>4. whole
      <3>1. cmStart \in Nat
        BY DEF HeaderLen
      <3> QED  BY <1>2, <2>1, <3>1
    <2>5. x = u
      BY <1>4, <2>4 DEF CmMakes
    <2> QED  BY <1>2, <2>1, <2>2, <2>3, <2>5
  <1>8. CASE block.bwtIdx > size
    <2>1. ~(original /\ told = origSize)
      BY <1>3, <1>7, <1>8
    <2>2. size' \in Int /\ b1' \in {"buffer", "swap"}
      BY <1>2, <1>3, <1>4
    <2> QED  BY <1>1, <1>4, <1>6, <1>8, <2>1, <2>2, RefuseStep DEF Errors
  <1>9. CASE ~(block.bwtIdx > size)
    <2>1. pc' = "undoBwt" /\ result' = result /\ b1' = "swap" /\ Fits(size')
      BY <1>2, <1>4, <1>9
    <2>2. Decodes'
      BY <2>1 DEF Decodes
    <2>3. TypeOK' /\ AccessesInRange'
      BY <1>1, <1>6, <2>1, <2>2, StepGoesOn
    <2>4. Decoding'
      <3>1. mem'[b1'].len = size'
        BY <1>4, <1>5, <1>6, <2>1
      <3>2. size' = SizeBeforeBwt'
        BY <1>1, <1>2, <1>4 DEF SizeBeforeBwt
      <3> QED  BY <1>1, <1>6, <2>1, <2>2, <3>1, <3>2, StepGoesOn DEF Decoding
    <2>5. Retracing'
      <3>1. AfterBwt' = AfterBwt
        BY <1>1, BlockKept
      <3>2. original /\ told = origSize => mem'[b1'] = AfterBwt'
        BY <1>6, <1>7, <2>1, <3>1
      <3> QED  BY <1>1, <2>1, <3>2 DEF Retracing
    <2> QED  BY <1>1, <1>6, <2>1, <2>2, <2>3, <2>4, <2>5, DecodingStep
  <1> QED  BY <1>8, <1>9

LEMMA UndoBwtInv == ASSUME IInv, UndoBwt PROVE IInv'
  <1> DEFINE x == IF Undoes(mem[b1], "bwt", size) /\ block.bwtIdx = size
                    THEN Undo(mem[b1]) ELSE Garbage(size)
  <1>1. /\ pc = "undoBwt" /\ Decodes /\ UNCHANGED <<bufLen, origSize, told, block, original>>
        /\ TypeOK /\ AccessesInRange /\ BothSized
    BY DEF UndoBwt, Decodes, IInv, Inv
  <1>2. /\ b1 = "swap" /\ b2 = "buffer" /\ size = SizeBeforeBwt /\ Fits(size)
    BY <1>1, TwoBuffers DEF IInv, Decoding
  <1>3. size \in 0..Bound(BlockSize) /\ size \in Int /\ size <= bufLen
    BY <1>1, <1>2, Limits DEF Fits
  <1>4. IF ~IndexValid THEN Fail("bwt") /\ UNCHANGED <<mem, b1, size>>
        ELSE /\ mem' = [mem EXCEPT ![b2] = x] /\ b1' = b2 /\ size' = size
             /\ pc' = "undoLzp" /\ result' = result
    <2>1. size <= Capacity(b1) /\ size <= Capacity(b2) /\ size + 1 <= Bound(BlockSize) + 1
      <3>1. Bound(BlockSize) \in Nat
        BY Limits
      <3> QED  BY <1>2, <1>3, <3>1 DEF Capacity
    <2> QED  BY <2>1 DEF UndoBwt, Checked
  <1>5. x \in Data /\ x.len = size /\ Sized(x)
    <2>1. CASE block.bwtIdx = size
      BY <1>1, <1>3, <2>1, UndoOrGarbage
    <2>2. CASE block.bwtIdx # size
      BY <1>3, <2>2, GarbageData
    <2> QED  BY <2>1, <2>2
  <1> HIDE DEF x
  <1>6. ASSUME original, told = origSize
        PROVE  IndexValid /\ (mem[b1] = AfterBwt => x = AfterLzp)
    <2>1. /\ size = AfterLzp.len /\ block.bwtIdx = AfterLzp.len /\ AfterLzp.len \in 1..origSize
          /\ origSize \in Nat
      BY <1>1, <1>2, <1>6, TrueSize
    <2>2. IndexValid
      BY <2>1 DEF IndexValid
    <2>3. Undoes(AfterBwt, "bwt", AfterLzp.len) /\ Undo(AfterBwt) = AfterLzp
      BY <1>1, <1>6, TrueSize, ChainData
    <2> QED  BY <2>1, <2>2, <2>3 DEF x
  <1>7. CASE ~IndexValid
    BY <1>1, <1>4, <1>6, <1>7, RefuseSame DEF Errors
  <1>8. CASE IndexValid
    <2>1. /\ mem' = [mem EXCEPT ![b2] = x] /\ pc' = "undoLzp" /\ result' = result
          /\ b1' = "buffer" /\ size' = size /\ Fits(size')
      BY <1>2, <1>4, <1>8
    <2>2. /\ mem' \in [buffer : Data, swap : Data] /\ BothSized'
          /\ mem'.buffer.len <= bufLen /\ mem'.swap.len <= Bound(BlockSize)
          /\ mem'.buffer = x
      <3>1. x.len <= Bound(BlockSize) /\ x.len <= bufLen /\ UNCHANGED <<origSize, original>>
        BY <1>1, <1>3, <1>5
      <3> QED  BY <1>1, <1>2, <1>5, <2>1, <3>1, SecondBuffer
    <2>3. Decodes'
      BY <2>1 DEF Decodes
    <2>4. TypeOK' /\ AccessesInRange'
      BY <1>1, <2>1, <2>2, <2>3, StepGoesOn
    <2>5. Decoding'
      <3>1. mem'[b1'].len = size' /\ size' = SizeBeforeBwt'
        BY <1>1, <1>2, <1>5, <2>1, <2>2 DEF SizeBeforeBwt
      <3> QED  BY <1>1, <2>1, <2>2, <2>3, <3>1, StepGoesOn DEF Decoding
    <2>6. Retracing'
      <3>1. AfterLzp' = AfterLzp
        BY <1>1, BlockKept
      <3>2. original /\ told = origSize => mem'[b1'] = AfterLzp'
        BY <1>1, <1>6, <2>1, <2>2, <3>1 DEF IInv, Retracing
      <3> QED  BY <1>1, <2>1, <3>2 DEF Retracing
    <2> QED  BY <1>1, <2>1, <2>2, <2>3, <2>4, <2>5, <2>6, DecodingStep
  <1> QED  BY <1>7, <1>8

(* The size LZP decodes to is not known before: it is checked afterwards.    *)
LEMMA UndoLzpInv == ASSUME IInv, UndoLzp PROVE IInv'
  <1>1. /\ pc = "undoLzp" /\ Decodes /\ UNCHANGED <<bufLen, origSize, told, block, original>>
        /\ TypeOK /\ AccessesInRange /\ BothSized
    BY DEF UndoLzp, Decodes, IInv, Inv
  <1>2. /\ b1 = "buffer" /\ b2 = "swap" /\ size = SizeBeforeBwt /\ Fits(size)
        /\ mem[b1].len = size
        /\ Bound(BlockSize) \in Nat /\ bufLen \in Nat
    BY <1>1, TwoBuffers, Limits DEF IInv, Decoding, TypeOK
  <1>3. CASE modelLZP \notin block.model
    <2>1. pc' = "undoRle" /\ UNCHANGED <<mem, b1, size, result>>
      BY <1>3 DEF UndoLzp
    <2>2. Decodes' /\ b1' \in {"buffer", "swap"}
      BY <1>2, <2>1 DEF Decodes
    <2>3. /\ mem' \in [buffer : Data, swap : Data] /\ BothSized'
          /\ mem'.buffer.len <= bufLen /\ mem'.swap.len <= Bound(BlockSize)
      BY <1>1, <2>1 DEF TypeOK, AccessesInRange, Capacity, BothSized
    <2>4. TypeOK' /\ AccessesInRange'
      BY <1>1, <1>2, <2>1, <2>2, <2>3, StepGoesOn
    <2>5. Decoding'
      <3>1. mem'[b1'].len = size' /\ size' = SizeBeforeBwt'
        BY <1>1, <1>2, <2>1 DEF SizeBeforeBwt
      <3> QED  BY <1>1, <1>2, <1>3, <2>1, <2>2, <2>3, <3>1, StepGoesOn DEF Decoding
    <2>6. Retracing'
      <3>1. AfterRle' = AfterRle
        BY <1>1, BlockKept
      <3>2. original /\ told = origSize => mem[b1] = AfterRle
        BY <1>1, <1>3, TrueSize, ChainData DEF IInv, Retracing
      <3> QED  BY <1>1, <2>1, <3>1, <3>2 DEF Retracing
    <2> QED  BY <1>1, <2>1, <2>2, <2>3, <2>4, <2>5, <2>6, DecodingStep
  <1>4. CASE modelLZP \in block.model
    <2> DEFINE d == mem[b1]
               good == LastStage(d) /\ Last(d.stages).stage = "lzp"
               Lens == IF good THEN {Undo(d).len}
                       ELSE {-1} \cup {n \in ForeignSizes : n >= 4 /\ n <= Bound(BlockSize)}
    <2>1. block.lzpSize <= Capacity(b1) /\ Bound(BlockSize) <= Capacity(b2)
      BY <1>1, <1>2, <1>4 DEF IInv, Decoding, Fits, Capacity
    <2>2. PICK len \in Lens :
            /\ mem' = [mem EXCEPT ![b2] = IF good THEN Undo(d) ELSE Garbage(len)]
            /\ size' = len
            /\ IF len = -1 THEN Fail("crc") /\ UNCHANGED b1
               ELSE IF len > bufLen THEN Fail("dataSizeTooSmall") /\ UNCHANGED b1
               ELSE b1' = b2 /\ pc' = "undoRle" /\ UNCHANGED result
      BY <1>4, <2>1 DEF UndoLzp, Checked
    <2> DEFINE x == IF good THEN Undo(d) ELSE Garbage(len)
    <2>3. d \in Data /\ Sized(d)
      BY <1>1, TwoBuffers DEF BothSized
    <2>4. /\ len \in -1..Bound(BlockSize) /\ len \in Int
          /\ x \in Data /\ x.len = len /\ Sized(x)
      <3>1. CASE good
        <4>1. /\ len = Undo(d).len /\ Undo(d).len \in 0..Bound(BlockSize)
              /\ Undo(d) \in Data /\ Sized(Undo(d))
          BY <2>3, <3>1, UndoData
        <4> QED  BY <1>2, <3>1, <4>1
      <3>2. CASE ~good
        <4>1. len \in Int /\ len \in -1..Bound(BlockSize)
          <5>1. len = -1 \/ (len \in ForeignSizes /\ len >= 4 /\ len <= Bound(BlockSize))
            BY <3>2
          <5>2. len \in Int
            <6>1. CASE len = -1
              BY <6>1
            <6>2. CASE len # -1
              <7>1. len \in ForeignSizes
                BY <5>1, <6>2
              <7> QED  BY <7>1, SizesAssumption
            <6> QED  BY <6>1, <6>2
          <5> QED  BY <1>2, <5>1, <5>2
        <4> QED  BY <3>2, <4>1, GarbageData
      <3> QED  BY <3>1, <3>2
    <2>5. mem' = [mem EXCEPT ![b2] = x]
      BY <2>2
    <2> HIDE DEF x
    <2>6. ASSUME original, told = origSize
          PROVE  len \in 1..bufLen /\ x = AfterRle
      <3>1. d = AfterLzp
        BY <1>1, <2>6 DEF IInv, Retracing
      <3>2. /\ origSize \in 64..BlockSize /\ block \in Fields /\ Shrinking
            /\ origSize \in Nat /\ origSize <= bufLen
        BY <1>1, <2>6, TrueSize
      <3>3. /\ LastStage(AfterLzp) /\ Last(AfterLzp.stages).stage = "lzp"
            /\ Undo(AfterLzp) = AfterRle /\ AfterRle.len \in 1..origSize
        BY <1>4, <3>2, ChainData
      <3>4. good /\ Undo(d) = AfterRle
        BY <3>1, <3>3
      <3>5. len = AfterRle.len /\ x = AfterRle
        BY <3>4 DEF x
      <3> QED  BY <1>2, <3>2, <3>3, <3>5
    <2>7. /\ mem' \in [buffer : Data, swap : Data] /\ BothSized'
          /\ mem'.buffer.len <= bufLen /\ mem'.swap.len <= Bound(BlockSize)
          /\ mem'.swap = x
      <3>1. x.len <= Bound(BlockSize) /\ UNCHANGED <<origSize, original>> /\ b1 # "swap"
        BY <1>1, <1>2, <2>4
      <3> QED  BY <1>1, <1>2, <2>4, <2>5, <3>1, SecondBuffer
    <2>8. CASE len = -1 \/ len > bufLen
      <3>1. ~(original /\ told = origSize)
        BY <1>2, <2>4, <2>6, <2>8
      <3>2. size' \in Int
        BY <2>2, <2>4
      <3>3. CASE len = -1
        <4>1. Fail("crc") /\ b1' = b1
          BY <2>2, <3>3
        <4>2. b1' \in {"buffer", "swap"}
          BY <1>2, <4>1
        <4> QED  BY <1>1, <2>7, <3>1, <3>2, <4>1, <4>2, RefuseStep DEF Errors
      <3>4. CASE len # -1
        <4>1. Fail("dataSizeTooSmall") /\ b1' = b1
          BY <2>2, <2>8, <3>4
        <4>2. b1' \in {"buffer", "swap"}
          BY <1>2, <4>1
        <4> QED  BY <1>1, <2>7, <3>1, <3>2, <4>1, <4>2, RefuseStep DEF Errors
      <3> QED  BY <3>3, <3>4
    <2>9. CASE ~(len = -1 \/ len > bufLen)
      <3>1. b1' = "swap" /\ pc' = "undoRle" /\ result' = result /\ size' = len
        BY <1>2, <2>2, <2>9
      <3>2. Decodes' /\ Fits(size')
        BY <1>2, <2>4, <2>9, <3>1 DEF Decodes, Fits
      <3>3. TypeOK' /\ AccessesInRange'
        BY <1>1, <2>7, <3>1, <3>2, StepGoesOn
      <3>4. Decoding'
        <4>1. mem'[b1'].len = size'
          BY <2>4, <2>7, <3>1
        <4> QED  BY <1>1, <1>4, <2>7, <3>1, <3>2, <4>1, StepGoesOn DEF Decoding
      <3>5. Retracing'
        <4>1. AfterRle' = AfterRle
          BY <1>1, BlockKept
        <4>2. original /\ told = origSize => mem'[b1'] = AfterRle'
          BY <2>6, <2>7, <3>1, <4>1
        <4> QED  BY <1>1, <3>1, <4>2 DEF Retracing
      <3> QED  BY <1>1, <2>7, <3>1, <3>2, <3>3, <3>4, <3>5, DecodingStep
    <2> QED  BY <2>8, <2>9
  <1> QED  BY <1>3, <1>4

LEMMA UndoRleInv == ASSUME IInv, UndoRle PROVE IInv'
  <1>1. /\ pc = "undoRle" /\ Decodes /\ UNCHANGED <<bufLen, origSize, told, block, original>>
        /\ TypeOK /\ AccessesInRange /\ BothSized
    BY DEF UndoRle, Decodes, IInv, Inv
  <1>2. /\ b1 \in {"buffer", "swap"} /\ b2 \in {"buffer", "swap"}
        /\ Fits(size) /\ Fits(told) /\ mem[b1].len = size
        /\ Bound(BlockSize) \in Nat /\ bufLen \in Nat
    BY <1>1, TwoBuffers, Limits DEF IInv, Decoding, TypeOK, b2
  <1>3. original /\ told = origSize => mem[b1] = AfterRle
    BY <1>1 DEF IInv, Retracing
  <1>4. CASE modelRLE \notin block.model
    <2>1. pc' = "check" /\ UNCHANGED <<mem, b1, size, result>>
      BY <1>4 DEF UndoRle
    <2>2. Decodes' /\ b1' \in {"buffer", "swap"} /\ Fits(size')
      BY <1>2, <2>1 DEF Decodes
    <2>3. /\ mem' \in [buffer : Data, swap : Data] /\ BothSized'
          /\ mem'.buffer.len <= bufLen /\ mem'.swap.len <= Bound(BlockSize)
      BY <1>1, <2>1 DEF TypeOK, AccessesInRange, Capacity, BothSized
    <2>4. TypeOK' /\ AccessesInRange'
      BY <1>1, <2>1, <2>2, <2>3, StepGoesOn
    <2>5. Decoding'
      <3>1. mem'[b1'].len = size'
        BY <1>2, <2>1
      <3>2. size' = told' \/ block.model' = {modelLZP}
        BY <1>1, <1>4, <2>1, TwoBuffers DEF IInv, Decoding, SizeBeforeBwt, Fields
      <3> QED  BY <1>1, <2>1, <2>2, <2>3, <3>1, <3>2, StepGoesOn DEF Decoding
    <2>6. Retracing'
      <3>1. Source' = Source
        BY <1>1, BlockKept
      <3>2. original /\ told = origSize => mem[b1] = Source
        BY <1>1, <1>3, <1>4, TrueSize, ChainData
      <3> QED  BY <1>1, <2>1, <3>1, <3>2 DEF Retracing
    <2> QED  BY <1>1, <2>1, <2>2, <2>3, <2>4, <2>5, <2>6, DecodingStep
  <1>5. CASE modelRLE \in block.model
    <2> DEFINE good == Undoes(mem[b1], "rle", told)
               x == IF good THEN Undo(mem[b1]) ELSE Garbage(told)
    <2>1. size <= Capacity(b1) /\ told <= Capacity(b2)
      BY <1>2 DEF Fits, Capacity
    <2>2. /\ mem' = [mem EXCEPT ![b2] = x]
          /\ \/ ~good /\ Fail("crc") /\ UNCHANGED <<b1, size>>
             \/ b1' = b2 /\ size' = told /\ pc' = "check" /\ UNCHANGED result
      BY <1>5, <2>1 DEF UndoRle, Checked
    <2>3. x \in Data /\ x.len = told /\ Sized(x)
      <3>1. told \in 0..Bound(BlockSize)
        BY <1>2 DEF Fits
      <3> QED  BY <1>1, <3>1, UndoOrGarbage
    <2>4. ASSUME original, told = origSize
          PROVE  good /\ x = Source
      <3>1. Undoes(AfterRle, "rle", origSize) /\ Undo(AfterRle) = Source
        BY <1>1, <1>5, <2>4, TrueSize, ChainData
      <3> QED  BY <1>3, <2>4, <3>1
    <2> HIDE DEF x
    <2>5. /\ mem' \in [buffer : Data, swap : Data] /\ BothSized'
          /\ mem'.buffer.len <= bufLen /\ mem'.swap.len <= Bound(BlockSize)
          /\ mem'[b2] = x
      <3>1. x.len <= Bound(BlockSize) /\ x.len <= bufLen /\ UNCHANGED <<origSize, original>>
        BY <1>1, <1>2, <2>3 DEF Fits
      <3> QED  BY <1>1, <2>2, <2>3, <3>1, SecondBuffer
    <2>6. CASE ~good /\ Fail("crc") /\ UNCHANGED <<b1, size>>
      <3>1. size' \in Int /\ b1' \in {"buffer", "swap"}
        BY <1>2, <2>6 DEF Fits
      <3>2. ~(original /\ told = origSize)
        BY <2>4, <2>6
      <3> QED  BY <1>1, <2>5, <2>6, <3>1, <3>2, RefuseStep DEF Errors
    <2>7. CASE b1' = b2 /\ size' = told /\ pc' = "check" /\ UNCHANGED result
      <3>1. Decodes' /\ Fits(size') /\ b1' \in {"buffer", "swap"}
        BY <1>2, <2>7 DEF Decodes
      <3>2. TypeOK' /\ AccessesInRange'
        BY <1>1, <2>5, <2>7, <3>1, StepGoesOn
      <3>3. Decoding'
        <4>1. mem'[b1'].len = size'
          BY <2>3, <2>5, <2>7
        <4> QED  BY <1>1, <2>5, <2>7, <3>1, <4>1, StepGoesOn DEF Decoding
      <3>4. Retracing'
        <4>1. Source' = Source
          BY <1>1, BlockKept
        <4>2. original /\ told = origSize => mem'[b1'] = Source'
          BY <2>4, <2>5, <2>7, <4>1
        <4> QED  BY <1>1, <2>7, <4>2 DEF Retracing
      <3> QED  BY <1>1, <2>5, <2>7, <3>1, <3>2, <3>3, <3>4, DecodingStep
    <2> QED  BY <2>2, <2>6, <2>7
  <1> QED  BY <1>4, <1>5

(* What is returned is what is at the front of buffer, if its CRC is right.  *)
LEMMA CheckInv == ASSUME IInv, Check PROVE IInv'
  <1>1. /\ pc = "check" /\ Decodes /\ UNCHANGED <<bufLen, origSize, told, block, original>>
        /\ TypeOK /\ AccessesInRange /\ BothSized
    BY DEF Check, Decodes, IInv, Inv
  <1>2. /\ Fits(size) /\ mem[b1].len = size /\ mem[b1] \in Data
        /\ Bound(BlockSize) \in Nat /\ bufLen \in Nat /\ origSize \in Nat
        /\ size = told \/ block.model = {modelLZP}
    BY <1>1, TwoBuffers, Limits DEF IInv, Decoding, TypeOK
  <1>3. size \in Int /\ size >= 0 /\ size <= bufLen /\ size <= Bound(BlockSize) /\ size \in Nat
    BY <1>2 DEF Fits
  <1>4. ASSUME original, told = origSize
        PROVE  mem[b1] = Source /\ size = origSize /\ size \in 1..BlockSize /\ block.crc = Source
    <2>1. mem[b1] = Source
      BY <1>1, <1>4 DEF IInv, Retracing
    <2>2. size = origSize
      BY <1>2, <2>1, SourceData DEF Source
    <2> QED  BY <1>1, <1>2, <1>4, <2>1, <2>2, TrueSize
  <1>5. CASE size > BlockSize
    <2>1. Fail("malformedHeader") /\ UNCHANGED <<mem, b1, size>>
      BY <1>5 DEF Check
    <2>2. ~(original /\ told = origSize)
      BY <1>4, <1>5, Limits
    <2> QED  BY <1>1, <2>1, <2>2, RefuseSame DEF Errors
  <1>6. CASE ~(size > BlockSize)
    <2> DEFINE data == Cut(mem'.buffer, size)
    <2>1. /\ mem' = IF size > 0 /\ b1 # "buffer" THEN [mem EXCEPT !["buffer"] = mem[b1]] ELSE mem
          /\ Verify(data, size)
          /\ b1' = b1 /\ size' = size
      <3>1. size <= Capacity(b1) /\ size <= bufLen
        BY <1>3 DEF Capacity
      <3> QED  BY <1>6, <3>1 DEF Check, Checked
    <2>2. /\ mem' \in [buffer : Data, swap : Data]
          /\ mem'.swap = mem.swap
          /\ mem'.buffer = IF size > 0 THEN mem[b1] ELSE mem.buffer
      <3>1. CASE size > 0 /\ b1 # "buffer"
        BY <1>1, <1>2, <2>1, <3>1, MemUpdate
      <3>2. CASE ~(size > 0 /\ b1 # "buffer")
        BY <1>1, <2>1, <3>2, TwoBuffers DEF TypeOK
      <3> QED  BY <3>1, <3>2
    <2>3. /\ mem'.buffer.len <= bufLen /\ mem'.swap.len <= Bound(BlockSize)
          /\ Sized(mem'.buffer) /\ Sized(mem'.swap)
      <3>1. Sized(mem[b1]) /\ Sized(mem.buffer) /\ Sized(mem.swap)
        BY <1>1, TwoBuffers DEF BothSized
      <3>2. mem.buffer.len <= bufLen /\ mem.swap.len <= Bound(BlockSize)
        BY <1>1 DEF AccessesInRange, Capacity
      <3> QED  BY <1>2, <1>3, <2>2, <3>1, <3>2
    <2>4. BothSized' /\ size' \in Int /\ b1' \in {"buffer", "swap"}
      BY <1>1, <1>3, <2>1, <2>3 DEF BothSized, TypeOK
    <2>5. mem'.buffer \in Data
      BY <2>2
    <2>6. data \in Data /\ data.len = size
      BY <1>3, <2>3, <2>5, CutData
    <2>7. ASSUME original, told = origSize
          PROVE  size = origSize /\ mem'.buffer = Source /\ data = Source /\ block.crc = Source
      <3>1. mem'.buffer = Source /\ size = origSize /\ block.crc = Source
        BY <1>3, <1>4, <2>2, <2>7
      <3>2. Cut(Source, origSize) = Source
        BY DEF Cut, Source, Content
      <3> QED  BY <3>1, <3>2
    <2>8. data = Cut(mem'.buffer, size)
      OBVIOUS
    <2> HIDE DEF data
    <2> QED  BY <1>1, <1>2, <1>3, <2>1, <2>2, <2>3, <2>4, <2>6, <2>7, <2>8, VerifiedStep
  <1> QED  BY <1>5, <1>6

LEMMA StutterInv == ASSUME IInv, UNCHANGED vars PROVE IInv'
  <1>1. UNCHANGED <<bufLen, mem, b1, size, origSize, told, block, original, pc, result>>
    BY DEF vars
  <1>2. Inv' /\ BothSized' /\ BlockRoundTrips' /\ NeverWrongData'
    BY <1>1 DEF IInv, Inv, TypeOK, AccessesInRange, Capacity, BothSized,
                BlockRoundTrips, NeverWrongData, Encoded, CoderExpands, b2
  <1>a. Unfailed' /\ CrcOfSource'
    BY <1>1 DEF IInv, Unfailed, CrcOfSource, Source
  <1>3. Encoding'
    <2>1. Shrinking' = Shrinking /\ b2' = b2 /\ Coded(size)' = Coded(size)
      BY <1>1, BlockKept DEF Shrinking, Coded, b2
    <2> QED  BY <1>1, <2>1, BlockKept DEF IInv, Encoding, Encodes
  <1>4. GoodBlock' /\ Retracing'
    BY <1>1, BlockKept DEF IInv, GoodBlock, Retracing, Decodes
  <1>5. Decoding'
    <2>1. SizeBeforeBwt' = SizeBeforeBwt
      BY <1>1 DEF SizeBeforeBwt
    <2> QED  BY <1>1, <2>1 DEF IInv, Decoding, Decodes, Fits
  <1> QED  BY <1>2, <1>3, <1>4, <1>5, <1>a DEF IInv

-----------------------------------------------------------------------------
(* The inductive invariant: what each buffer holds comes from the source by  *)
(* the stages its parts name, in both directions and at every step.          *)
THEOREM CodecInvariant == Spec => []IInv
  <1>1. IInv /\ [Next]_vars => IInv'
    BY BeginInv, RleStageInv, LzpStageInv, BwtStageInv, CmStageInv, FinishInv, TransportInv,
       StartInv, UndoCmInv, UndoBwtInv, UndoLzpInv, UndoRleInv, CheckInv, StutterInv
    DEF Next
  <1> QED  BY <1>1, InitInv, PTL DEF Spec

(* Whatever block a decoder is given, and whichever stages an encoder kept,  *)
(* no slice of EncodeBlock or DecodeBlock is out of the range of its buffer, *)
(* however much the coder makes; if it reaches the end of its buffer, it has *)
(* made more than the bound of its input, less the longest header.           *)
THEOREM SlicesStayInRange == Spec => []Inv
  <1>1. IInv => Inv
    BY DEF IInv
  <1> QED  BY <1>1, CodecInvariant, PTL

(* A block EncodeBlock returned comes back if DecodeBlock is told its true   *)
(* size, whatever the stages kept and whatever was left in the buffers.      *)
THEOREM BlocksRoundTrip == Spec => []BlockRoundTrips
  <1>1. IInv => BlockRoundTrips
    BY DEF IInv
  <1> QED  BY <1>1, CodecInvariant, PTL

(* Where the CRC is the source's, whatever else of the block is damaged and  *)
(* whatever size DecodeBlock is told, its success means the data and the     *)
(* size EncodeBlock was given.  For any block it means the size it was told, *)
(* unless the block is stored or has gone through LZP and not RLE.           *)
THEOREM SuccessMeansTheData == Spec => []NeverWrongData
  <1>1. IInv => NeverWrongData
    BY DEF IInv
  <1> QED  BY <1>1, CodecInvariant, PTL

-----------------------------------------------------------------------------
(* The frame, and first its limits.                                          *)
LEMMA FrameLimits ==
  /\ MinBlockSize \in Nat \ {0} /\ MaxBlockSize \in Nat \ {0} /\ Int32Max \in Nat
  /\ MinBlockSize <= MaxBlockSize /\ MaxBlockSize < Int32Max
  /\ \A n \in Nat : BlockBound(n) \in Nat /\ n <= BlockBound(n)
  /\ \A m \in Nat, n \in Nat : m <= n => BlockBound(m) <= BlockBound(n)
  BY LimitsAssumption DEF BlockBound

(* Every segment belongs to a block.                                         *)
LEMMA FrameBlockOf ==
  ASSUME NEW n \in Nat, NEW k \in 1..2 * n
  PROVE  \E b \in 1..n : IF k % 2 = 1 THEN k = 2 * b - 1 ELSE k = 2 * b /\ k % 2 = 0
  <1> DEFINE q == k \div 2
             r == k % 2
  <1>1. q \in Int /\ r \in 0..1 /\ k = 2 * q + r
    OBVIOUS
  <1> HIDE DEF q, r
  <1>2. CASE r = 1
    <2>1. q + 1 \in 1..n /\ k = 2 * (q + 1) - 1
      BY <1>1, <1>2
    <2> QED  BY <1>2, <2>1 DEF r
  <1>3. CASE r = 0
    <2>1. q \in 1..n /\ k = 2 * q
      BY <1>1, <1>3
    <2> QED  BY <1>3, <2>1 DEF r
  <1> QED  BY <1>1, <1>2, <1>3

(* The blocks of a source, all but the last of them of size bs.              *)
LEMMA FrameBlocks ==
  ASSUME length \in Nat, NEW bs \in Nat \ {0}, NEW r, r = length % bs
  PROVE  /\ BlocksOf(bs) \in Nat
         /\ r \in 0..(bs - 1)
         /\ \A b \in 0..BlocksOf(bs) - 1 : b * bs \in Nat /\ (b + 1) * bs = b * bs + bs
         /\ \A b \in 0..BlocksOf(bs) - 2 : b * bs + bs <= length
         /\ BlocksOf(bs) > 0 => (BlocksOf(bs) - 1) * bs + r <= length
         /\ r # 0 =>
              BlocksOf(bs) > 0 /\ (BlocksOf(bs) - 1) * bs + r = length
         /\ length = 0 => BlocksOf(bs) = 0
  <1> DEFINE q == length \div bs
  <1>1. q \in Nat /\ r \in 0..(bs - 1)
    BY SMTT(20)
  <1>2. q * bs \in Nat /\ q * bs + r = length
    BY SMTT(20)
  <1>3. BlocksOf(bs) = q + (IF r # 0 THEN 1 ELSE 0)
    BY DEF BlocksOf
  <1>4. length = 0 => q = 0 /\ r = 0
    BY SMTT(20)
  <1> HIDE DEF q
  <1>5. ASSUME NEW b \in Nat PROVE b * bs \in Nat /\ (b + 1) * bs = b * bs + bs
    BY SMTT(20)
  <1>6. ASSUME NEW b \in Nat, b < q PROVE b * bs + bs <= q * bs
    <2>1. (b + 1) * bs <= q * bs
      BY <1>1, <1>6, SMTT(20)
    <2> QED  BY <2>1, <1>5
  <1>7. BlocksOf(bs) \in Nat
    BY <1>1, <1>3
  <1>8. \A b \in 0..BlocksOf(bs) - 2 : b * bs + bs <= length
    <2> SUFFICES ASSUME NEW b \in 0..BlocksOf(bs) - 2 PROVE b * bs + bs <= length
      OBVIOUS
    <2>1. b \in Nat /\ b < q
      BY <1>1, <1>3
    <2>2. b * bs \in Nat
      BY <2>1, <1>5
    <2> QED  BY <1>1, <1>2, <1>6, <2>1, <2>2
  <1>11. \A b \in 0..BlocksOf(bs) - 1 : b * bs \in Nat /\ (b + 1) * bs = b * bs + bs
    <2> SUFFICES ASSUME NEW b \in 0..BlocksOf(bs) - 1
                 PROVE  b * bs \in Nat /\ (b + 1) * bs = b * bs + bs
      OBVIOUS
    <2>1. b \in Nat
      BY <1>7
    <2> QED  BY <1>5, <2>1
  <1>9. CASE r # 0
    <2>1. BlocksOf(bs) - 1 = q
      BY <1>1, <1>3, <1>9
    <2>2. q * bs + r <= length /\ length # 0 /\ BlocksOf(bs) > 0
      BY <1>1, <1>2, <1>4, <1>7, <1>9, <2>1
    <2>3. (BlocksOf(bs) - 1) * bs + r = length
      BY <1>2, <2>1
    <2>4. (BlocksOf(bs) - 1) * bs + r <= length
      BY <2>2, <2>3
    <2> QED  BY <1>1, <1>7, <1>8, <1>9, <1>11, <2>2, <2>3, <2>4
  <1>10. CASE r = 0
    <2>1. BlocksOf(bs) = q
      BY <1>1, <1>3, <1>10
    <2>2. q > 0 => (q - 1) * bs <= length
      <3>1. q > 0 => q - 1 \in Nat /\ q - 1 < q
        BY <1>1
      <3> DEFINE p == q - 1
      <3> HIDE DEF p
      <3>2. q > 0 => p * bs \in Nat /\ p * bs + bs <= q * bs
        BY <1>5, <1>6, <3>1 DEF p
      <3> QED  BY <1>1, <1>2, <1>10, <3>2 DEF p
    <2>3. q > 0 => (q - 1) * bs + r <= length
      <3>1. q > 0 => (q - 1) * bs \in Nat
        BY <1>1, <1>5
      <3> QED  BY <1>10, <2>2, <3>1
    <2>4. length = 0 => BlocksOf(bs) = 0
      BY <1>4, <2>1
    <2>5. BlocksOf(bs) > 0 => (BlocksOf(bs) - 1) * bs + r <= length
      BY <2>1, <2>3
    <2> QED  BY <1>1, <1>7, <1>8, <1>10, <1>11, <2>4, <2>5
  <1> QED  BY <1>1, <1>9, <1>10

(* What Compress makes: the blocks of the source, each of a size that fits.  *)
LEMMA FrameMade ==
  ASSUME length \in Nat, NEW bs \in MinBlockSize..MaxBlockSize,
         NEW g, g = Made(bs), NEW n, n = BlocksOf(bs)
  PROVE  /\ n \in Nat /\ bs \in Nat \ {0}
         /\ g \in Frames
         /\ g.good /\ g.blockSize = bs /\ g.nBlocks = n
         /\ Len(g.body) = 2 * n
         /\ \A b \in 1..n :
              /\ MadeLen(bs, b) \in 0..bs
              /\ MadeLen(bs, b) \in 0..BlockBound(bs)
              /\ EncSize(MadeLen(bs, b)) \in 0..BlockBound(bs)
              /\ (b - 1) * bs \in Nat
              /\ g.body[2 * b - 1] = BlockHeader(EncSize(MadeLen(bs, b)), MadeLen(bs, b))
              /\ g.body[2 * b] = Payload("enc", (b - 1) * bs, MadeLen(bs, b))
  <1>1. bs \in Nat \ {0} /\ bs <= MaxBlockSize
    BY FrameLimits
  <1>2. n \in Nat /\ length % bs \in 0..bs - 1
    BY <1>1, FrameBlocks, Zenon
  <1>3. ASSUME NEW b \in 1..n
        PROVE  /\ MadeLen(bs, b) \in 0..bs
               /\ MadeLen(bs, b) \in 0..BlockBound(bs)
               /\ EncSize(MadeLen(bs, b)) \in 0..BlockBound(bs)
    <2>1. MadeLen(bs, b) \in 0..bs
      BY <1>1, <1>2 DEF MadeLen
    <2> DEFINE l == MadeLen(bs, b)
    <2> HIDE DEF l
    <2>2. /\ EncSize(l) \in 1..BlockBound(l)
          /\ BlockBound(l) <= BlockBound(bs) /\ bs <= BlockBound(bs)
          /\ BlockBound(l) \in Nat /\ BlockBound(bs) \in Nat
      <3>1. l \in 0..bs /\ l \in 0..MaxBlockSize
        BY <1>1, <2>1, FrameLimits DEF l
      <3> QED  BY <1>1, <3>1, FrameLimits, LimitsAssumption
    <2>3. l \in 0..bs /\ l \in 0..BlockBound(bs) /\ EncSize(l) \in 0..BlockBound(bs)
      BY <1>1, <2>1, <2>2 DEF l
    <2> QED  BY <2>3 DEF l
  <1>4. ASSUME NEW b \in 1..n PROVE (b - 1) * bs \in Nat
    <2>1. b - 1 \in 0..n - 1
      BY <1>2
    <2> QED  BY <1>1, <2>1, FrameBlocks
  <1>5. ASSUME NEW b \in 1..n
        PROVE  /\ 2 * b - 1 \in 1..2 * n /\ 2 * b \in 1..2 * n
               /\ MadeSegment(bs, 2 * b - 1) = BlockHeader(EncSize(MadeLen(bs, b)), MadeLen(bs, b))
               /\ MadeSegment(bs, 2 * b) = Payload("enc", (b - 1) * bs, MadeLen(bs, b))
    <2>1. /\ (2 * b - 1 + 1) \div 2 = b /\ (2 * b + 1) \div 2 = b
          /\ (2 * b - 1) % 2 = 1 /\ (2 * b) % 2 = 0
          /\ 2 * b - 1 \in 1..2 * n /\ 2 * b \in 1..2 * n
      BY <1>2
    <2> QED  BY <2>1 DEF MadeSegment
  <1>6. ASSUME NEW b \in 1..n
        PROVE  /\ BlockHeader(EncSize(MadeLen(bs, b)), MadeLen(bs, b)) \in Segments
               /\ Payload("enc", (b - 1) * bs, MadeLen(bs, b)) \in Segments
    <2>1. /\ MadeLen(bs, b) \in Nat /\ EncSize(MadeLen(bs, b)) \in Int /\ (b - 1) * bs \in Nat
      BY <1>1, <1>3, <1>4, FrameLimits
    <2> QED  BY <2>1 DEF BlockHeader, Payload, Segments
  <1>7. ASSUME NEW k \in 1..2 * n PROVE MadeSegment(bs, k) \in Segments
    <2>1. PICK b \in 1..n : k = 2 * b - 1 \/ k = 2 * b
      BY <1>2, FrameBlockOf
    <2> QED  BY <2>1, <1>5, <1>6
  <1>8. g.body = [k \in 1..2 * n |-> MadeSegment(bs, k)]
    BY DEF Made
  <1>9. 2 * n \in Nat
    BY <1>2
  <1>10. g.body \in Seq(Segments) /\ Len(g.body) = 2 * n
    BY <1>7, <1>8, <1>9, SeqDef, SMTT(40)
  <1>11. /\ g.good = TRUE /\ g.blockSize = bs /\ g.nBlocks = n
         /\ g = [good |-> g.good, blockSize |-> g.blockSize,
                 nBlocks |-> g.nBlocks, body |-> g.body]
    BY DEF Made
  <1>12. g \in Frames
    <2> DEFINE x == g.body
    <2>1. x \in Seq(Segments)
      BY <1>10
    <2> HIDE DEF x
    <2>2. [good |-> TRUE, blockSize |-> bs, nBlocks |-> n, body |-> x] \in Frames
      BY <1>1, <1>2, <2>1 DEF Frames
    <2> QED  BY <1>11, <2>2 DEF x
  <1>13. ASSUME NEW b \in 1..n
         PROVE /\ g.body[2 * b - 1] = BlockHeader(EncSize(MadeLen(bs, b)), MadeLen(bs, b))
               /\ g.body[2 * b] = Payload("enc", (b - 1) * bs, MadeLen(bs, b))
    BY <1>5, <1>8
  <1> QED  BY <1>1, <1>2, <1>3, <1>4, <1>10, <1>11, <1>12, <1>13

(* A frame with another body.                                                *)
LEMMA FrameBody ==
  ASSUME NEW g \in Frames, NEW x \in Seq(Segments), NEW f, f = [g EXCEPT !.body = x]
  PROVE  /\ f \in Frames /\ f.body = x
         /\ f.good = g.good /\ f.blockSize = g.blockSize /\ f.nBlocks = g.nBlocks
  BY DEF Frames

(* The fields of a frame.                                                    *)
LEMMA FrameFields ==
  ASSUME NEW g \in Frames
  PROVE  /\ g.good \in BOOLEAN /\ g.blockSize \in Int /\ g.nBlocks \in Int
         /\ g.body \in Seq(Segments)
         /\ Len(g.body) \in Nat
         /\ \A k \in 1..Len(g.body) : g.body[k] \in Segments
  <1>1. /\ g.good \in BOOLEAN /\ g.blockSize \in Int /\ g.nBlocks \in Int
        /\ g.body \in Seq(Segments)
    BY DEF Frames
  <1> QED  BY <1>1, LenProperties, ElementOfSeq

(* A body in which one segment is another.                                   *)
LEMMA FrameSegment ==
  ASSUME NEW s \in Seq(Segments), NEW k \in 1..Len(s), NEW h \in Segments,
         NEW x, x = [s EXCEPT ![k] = h]
  PROVE  /\ x \in Seq(Segments) /\ Len(x) = Len(s) /\ x[k] = h
         /\ \A j \in 1..Len(s) : j # k => x[j] = s[j]
  <1>1. Len(s) \in Nat /\ DOMAIN s = 1..Len(s)
    BY LenProperties
  <1>2. \A j \in 1..Len(s) : s[j] \in Segments
    BY ElementOfSeq
  <1>3. x = [j \in 1..Len(s) |-> IF j = k THEN h ELSE s[j]]
    BY <1>1
  <1> QED  BY <1>1, <1>2, <1>3, SeqDef

(* The body of a frame that Compress made.                                   *)
Alternating(s) ==
  /\ s \in Seq(Segments)
  /\ \A k \in 1..Len(s) :
       IF k % 2 = 1 THEN s[k].kind = "blockHeader" /\ k + 1 \in 1..Len(s) /\ (k + 1) % 2 = 0
       ELSE s[k].kind = "payload"

LEMMA FrameMadeAlternates ==
  ASSUME length \in Nat, NEW bs \in MinBlockSize..MaxBlockSize
  PROVE  Alternating(Made(bs).body)
  <1> DEFINE g == Made(bs)
             n == BlocksOf(bs)
  <1>1. /\ n \in Nat /\ g \in Frames /\ Len(g.body) = 2 * n
        /\ \A b \in 1..n :
              /\ g.body[2 * b - 1] = BlockHeader(EncSize(MadeLen(bs, b)), MadeLen(bs, b))
              /\ g.body[2 * b] = Payload("enc", (b - 1) * bs, MadeLen(bs, b))
    BY FrameMade
  <1> HIDE DEF g, n
  <1>2. ASSUME NEW k \in 1..2 * n
        PROVE  IF k % 2 = 1 THEN /\ g.body[k].kind = "blockHeader"
                                 /\ k + 1 \in 1..2 * n /\ (k + 1) % 2 = 0
               ELSE g.body[k].kind = "payload"
    <2>1. PICK b \in 1..n : IF k % 2 = 1 THEN k = 2 * b - 1 ELSE k = 2 * b /\ k % 2 = 0
      BY <1>1, FrameBlockOf
    <2>2. g.body[2 * b - 1].kind = "blockHeader" /\ g.body[2 * b].kind = "payload"
      <3> DEFINE l == MadeLen(bs, b)
                 e == EncSize(l)
                 d == (b - 1) * bs
      <3>1. g.body[2 * b - 1] = BlockHeader(e, l) /\ g.body[2 * b] = Payload("enc", d, l)
        BY <1>1
      <3> HIDE DEF l, e, d
      <3> QED  BY <3>1 DEF BlockHeader, Payload
    <2>3. k % 2 = 1 => k + 1 \in 1..2 * n /\ (k + 1) % 2 = 0
      BY <1>1, <2>1
    <2> QED  BY <2>1, <2>2, <2>3
  <1>3. g.body \in Seq(Segments)
    BY <1>1, FrameFields
  <1> QED  BY <1>1, <1>2, <1>3 DEF Alternating, g

(* Only what is in its place in b decodes in x, or x is too short.           *)
Placed(x, b) ==
  \A k \in 1..Len(x) :
    x[k].kind = "payload" /\ x[k].tag # "junk" =>
      k <= Len(b) /\ x[k].from = b[k].from /\ x[k].len = b[k].len

(* The beginning of a body, and what may follow it.                          *)
LEMMA FramePrefix ==
  ASSUME NEW b \in Seq(Segments), NEW k \in 0..Len(b)
  PROVE  /\ SubSeq(b, 1, k) \in Seq(Segments) /\ Len(SubSeq(b, 1, k)) = k
         /\ \A j \in 1..k : SubSeq(b, 1, k)[j] = b[j] /\ j <= Len(b)
  <1>1. Len(b) \in Nat /\ \A j \in 1..k : b[j] \in Segments
    BY LenProperties, ElementOfSeq
  <1>2. /\ SubSeq(b, 1, k) \in Seq(Segments) /\ Len(SubSeq(b, 1, k)) = k
        /\ \A j \in 1..k : SubSeq(b, 1, k)[j] = b[j]
    BY <1>1, SubSeqProperties
  <1> QED  BY <1>1, <1>2

LEMMA FrameOneMore ==
  ASSUME NEW s \in Seq(Segments), NEW x \in Segments
  PROVE  /\ Append(s, x) \in Seq(Segments) /\ Len(Append(s, x)) = Len(s) + 1
         /\ Append(s, x)[Len(s) + 1] = x
         /\ \A j \in 1..Len(s) : Append(s, x)[j] = s[j]
  BY AppendProperties

LEMMA FrameSpliced ==
  ASSUME NEW s \in Seq(Segments), NEW t \in Seq(Segments)
  PROVE  /\ s \o t \in Seq(Segments) /\ Len(s \o t) = Len(s) + Len(t)
         /\ Len(s) \in Nat /\ Len(t) \in Nat
         /\ \A j \in 1..Len(s) : (s \o t)[j] = s[j]
         /\ \A j \in Len(s) + 1..Len(s) + Len(t) : (s \o t)[j] = t[j - Len(s)] /\ j - Len(s) \in 1..Len(t)
  <1>1. Len(s) \in Nat /\ Len(t) \in Nat
    BY LenProperties
  <1>2. /\ s \o t \in Seq(Segments) /\ Len(s \o t) = Len(s) + Len(t)
        /\ \A j \in 1..Len(s) + Len(t) : (s \o t)[j] = IF j <= Len(s) THEN s[j] ELSE t[j - Len(s)]
    BY ConcatProperties
  <1> QED  BY <1>1, <1>2

LEMMA StrayBodies ==
  ASSUME NEW t \in Strays
  PROVE  /\ t \in Seq(Segments)
         /\ \A k \in 1..Len(t) : t[k].kind = "payload" => t[k].tag = "junk"
  BY DamageAssumption DEF IsBody

LEMMA PartSegment == Part \in Segments /\ Part.kind = "part"
  BY DEF Part, Segments

(* A body that was cut, or that goes on after its end.                       *)
LEMMA FrameCut ==
  ASSUME NEW b \in Seq(Segments), NEW k \in 0..Len(b),
         NEW x \in {SubSeq(b, 1, k), Append(SubSeq(b, 1, k), Part)}
  PROVE  x \in Seq(Segments) /\ Placed(x, b)
  <1> DEFINE s == SubSeq(b, 1, k)
  <1>1. s \in Seq(Segments) /\ Len(s) = k /\ \A j \in 1..k : s[j] = b[j] /\ j <= Len(b)
    BY FramePrefix
  <1> HIDE DEF s
  <1>2. CASE x = s
    BY <1>1, <1>2 DEF Placed
  <1>3. CASE x = Append(s, Part)
    <2>1. /\ x \in Seq(Segments) /\ Len(x) = k + 1 /\ x[k + 1] = Part
          /\ \A j \in 1..k : x[j] = s[j]
      BY <1>1, <1>3, PartSegment, FrameOneMore
    <2>2. \A j \in 1..Len(x) : j \in 1..k \/ j = k + 1
      BY <2>1
    <2> QED  BY <1>1, <2>1, <2>2, PartSegment DEF Placed
  <1> QED  BY <1>2, <1>3 DEF s

LEMMA FrameTrailing ==
  ASSUME NEW b \in Seq(Segments), NEW t \in Strays
  PROVE  b \o t \in Seq(Segments) /\ Placed(b \o t, b)
  <1>1. t \in Seq(Segments) /\ \A k \in 1..Len(t) : t[k].kind = "payload" => t[k].tag = "junk"
    BY StrayBodies
  <1> DEFINE x == b \o t
  <1>2. /\ x \in Seq(Segments) /\ Len(x) = Len(b) + Len(t) /\ Len(b) \in Nat /\ Len(t) \in Nat
        /\ \A j \in 1..Len(b) : x[j] = b[j]
        /\ \A j \in Len(b) + 1..Len(b) + Len(t) : x[j] = t[j - Len(b)] /\ j - Len(b) \in 1..Len(t)
    BY <1>1, FrameSpliced
  <1> HIDE DEF x
  <1>3. \A j \in 1..Len(x) : j \in 1..Len(b) \/ j \in Len(b) + 1..Len(b) + Len(t)
    BY <1>2
  <1> QED  BY <1>1, <1>2, <1>3 DEF Placed, x

(* A payload or a header that is not what it was.                            *)
LEMMA FrameOther ==
  ASSUME NEW b \in Seq(Segments), NEW k \in 1..Len(b), NEW h \in Segments,
         \/ h.kind = "blockHeader"
         \/ h.from = b[k].from /\ h.len = b[k].len
  PROVE  [b EXCEPT ![k] = h] \in Seq(Segments) /\ Placed([b EXCEPT ![k] = h], b)
  <1> DEFINE x == [b EXCEPT ![k] = h]
  <1>1. /\ x \in Seq(Segments) /\ Len(x) = Len(b) /\ x[k] = h
        /\ \A j \in 1..Len(b) : j # k => x[j] = b[j]
    BY FrameSegment
  <1>2. Len(b) \in Nat
    BY LenProperties
  <1> HIDE DEF x
  <1> QED  BY <1>1, <1>2 DEF Placed, x

LEMMA FrameNewField ==
  ASSUME NEW h \in Segments, h.kind = "blockHeader", NEW v \in Int
  PROVE  /\ [h EXCEPT !.origSize = v] \in Segments /\ [h EXCEPT !.origSize = v].kind = "blockHeader"
         /\ [h EXCEPT !.size = v] \in Segments /\ [h EXCEPT !.size = v].kind = "blockHeader"
  BY DEF Segments, Part

LEMMA FrameNewTag ==
  ASSUME NEW p \in Segments, p.kind = "payload", NEW tag \in {"altered", "junk"}, NEW q,
         q = [p EXCEPT !.tag = tag]
  PROVE  q \in Segments /\ q.kind = "payload" /\ q.from = p.from /\ q.len = p.len
  BY DEF Segments, Part

(* A header that gives another size: what is read of the body then.          *)
LEMMA FrameMisread ==
  ASSUME NEW g \in Frames, Alternating(g.body),
         NEW k \in HeadersOf(g), NEW v \in FieldValues, NEW f \in Misread(g, k, v)
  PROVE  \E x \in Seq(Segments) : /\ f = [g EXCEPT !.body = x]
                                  /\ Len(x) < Len(g.body) \/ Placed(x, g.body)
  <1> DEFINE b == g.body
             h == [b[k] EXCEPT !.size = v]
             s == SubSeq(b, 1, k - 1)
             head == Upto(g, k, v)
  <1>1. b \in Seq(Segments) /\ Len(b) \in Nat
    BY FrameFields
  <1>2. k \in 1..Len(b) /\ k % 2 = 1
    BY DEF HeadersOf
  <1>3. /\ b[k] \in Segments /\ b[k].kind = "blockHeader"
        /\ k + 1 \in 1..Len(b) /\ b[k + 1] \in Segments /\ b[k + 1].kind = "payload"
    <2>1. \A j \in 1..Len(b) : b[j] \in Segments
      BY FrameFields
    <2>2. b[k].kind = "blockHeader" /\ k + 1 \in 1..Len(b) /\ (k + 1) % 2 = 0
      BY <1>2 DEF Alternating
    <2>3. b[k + 1].kind = "payload"
      BY <2>2 DEF Alternating
    <2> QED  BY <1>2, <2>1, <2>2, <2>3
  <1>4. h \in Segments /\ h.kind = "blockHeader"
    BY <1>3, DamageAssumption, FrameNewField
  <1>5. /\ s \in Seq(Segments) /\ Len(s) = k - 1
        /\ \A j \in 1..k - 1 : s[j] = b[j] /\ j <= Len(b)
    <2>1. k - 1 \in 0..Len(b)
      BY <1>1, <1>2
    <2> QED  BY <1>1, <2>1, FramePrefix
  <1> HIDE DEF h, s
  <1>6. /\ head \in Seq(Segments) /\ Len(head) = k /\ head[k] = h
        /\ \A j \in 1..k - 1 : head[j] = b[j] /\ j <= Len(b)
    <2>1. /\ head \in Seq(Segments) /\ Len(head) = Len(s) + 1 /\ head[Len(s) + 1] = h
          /\ \A j \in 1..Len(s) : head[j] = s[j]
      <3>1. head = Append(s, h)
        BY DEF Upto, s, h
      <3> QED  BY <1>4, <1>5, <3>1, FrameOneMore
    <2>2. Len(s) + 1 = k
      BY <1>2, <1>5
    <2> QED  BY <1>5, <2>1, <2>2
  <1>7. \/ \E tag \in {"altered", "junk"}, t \in Strays \cup After(g, k) :
             f = [g EXCEPT !.body = Append(head, [b[k + 1] EXCEPT !.tag = tag]) \o t]
        \/ f = [g EXCEPT !.body = head]
        \/ f = [g EXCEPT !.body = Append(head, Part)]
    <2>1. \/ \E tag \in {"altered", "junk"} : f \in GoingOn(g, k, v, tag)
          \/ f \in Ending(g, k, v)
      BY DEF Misread
    <2>2. ASSUME NEW tag, f \in GoingOn(g, k, v, tag)
          PROVE  \E t \in Strays \cup After(g, k) :
                   f = [g EXCEPT !.body =
                          Append(Upto(g, k, v), [g.body[k + 1] EXCEPT !.tag = tag]) \o t]
      BY <2>2 DEF GoingOn
    <2>3. f \in Ending(g, k, v) =>
            f = [g EXCEPT !.body = head] \/ f = [g EXCEPT !.body = Append(head, Part)]
      BY DEF Ending
    <2> QED  BY <2>1, <2>2, <2>3, Zenon
  <1> HIDE DEF head, b
  <1>8. \A j \in 1..k : head[j].kind = "payload" => j <= Len(b) /\ head[j] = b[j]
    <2>1. \A j \in 1..k : j \in 1..k - 1 \/ j = k
      BY <1>2
    <2> QED  BY <1>4, <1>6, <2>1
  <1>9. ASSUME f = [g EXCEPT !.body = head]
        PROVE  \E x \in Seq(Segments) : /\ f = [g EXCEPT !.body = x]
                                        /\ Len(x) < Len(b) \/ Placed(x, b)
    BY <1>6, <1>8, <1>9 DEF Placed
  <1>10. ASSUME f = [g EXCEPT !.body = Append(head, Part)]
         PROVE  \E x \in Seq(Segments) : /\ f = [g EXCEPT !.body = x]
                                         /\ Len(x) < Len(b) \/ Placed(x, b)
    <2> DEFINE x == Append(head, Part)
    <2>1. /\ x \in Seq(Segments) /\ Len(x) = k + 1 /\ x[k + 1] = Part
          /\ \A j \in 1..k : x[j] = head[j]
      BY <1>6, PartSegment, FrameOneMore
    <2> HIDE DEF x
    <2>2. \A j \in 1..Len(x) : j \in 1..k \/ j = k + 1
      BY <1>2, <2>1
    <2>3. Placed(x, b)
      BY <1>8, <2>1, <2>2, PartSegment DEF Placed
    <2> QED  BY <1>10, <2>1, <2>3 DEF x
  <1>11. ASSUME NEW tag \in {"altered", "junk"}, NEW t \in Strays \cup After(g, k),
                f = [g EXCEPT !.body = Append(head, [b[k + 1] EXCEPT !.tag = tag]) \o t]
         PROVE  \E x \in Seq(Segments) : /\ f = [g EXCEPT !.body = x]
                                         /\ Len(x) < Len(b) \/ Placed(x, b)
    <2> DEFINE p == [b[k + 1] EXCEPT !.tag = tag]
               y == Append(head, p)
               x == y \o t
    <2>1. p \in Segments /\ p.kind = "payload" /\ p.from = b[k + 1].from /\ p.len = b[k + 1].len
      BY <1>3, FrameNewTag
    <2> HIDE DEF p
    <2>2. /\ y \in Seq(Segments) /\ Len(y) = k + 1 /\ y[k + 1] = p
          /\ \A j \in 1..k : y[j] = head[j]
      BY <1>6, <2>1, FrameOneMore
    <2> HIDE DEF y
    <2>3. CASE t \in Strays
      <3>1. t \in Seq(Segments) /\ \A j \in 1..Len(t) : t[j].kind = "payload" => t[j].tag = "junk"
        BY <2>3, StrayBodies
      <3>2. /\ x \in Seq(Segments) /\ Len(x) = k + 1 + Len(t) /\ Len(t) \in Nat
            /\ \A j \in 1..k + 1 : x[j] = y[j]
            /\ \A j \in k + 2..k + 1 + Len(t) : x[j] = t[j - (k + 1)] /\ j - (k + 1) \in 1..Len(t)
        <4>1. /\ x \in Seq(Segments) /\ Len(x) = Len(y) + Len(t) /\ Len(t) \in Nat
              /\ \A j \in 1..Len(y) : x[j] = y[j]
              /\ \A j \in Len(y) + 1..Len(y) + Len(t) : x[j] = t[j - Len(y)] /\ j - Len(y) \in 1..Len(t)
          BY <2>2, <3>1, FrameSpliced
        <4>2. Len(y) = k + 1 /\ Len(y) + 1 = k + 2
          BY <1>2, <2>2
        <4> QED  BY <4>1, <4>2
      <3> HIDE DEF x
      <3>3. \A j \in 1..Len(x) : j \in 1..k \/ j = k + 1 \/ j \in k + 2..k + 1 + Len(t)
        BY <1>2, <3>2
      <3>4. ASSUME NEW j \in 1..Len(x), x[j].kind = "payload", x[j].tag # "junk"
            PROVE  j <= Len(b) /\ x[j].from = b[j].from /\ x[j].len = b[j].len
        <4>1. CASE j \in 1..k
          <5>1. x[j] = head[j]
            BY <1>2, <2>2, <3>2, <4>1, SMTT(40)
          <5> QED  BY <1>8, <3>4, <4>1, <5>1
        <4>2. CASE j = k + 1
          BY <1>2, <1>3, <2>1, <2>2, <3>2, <4>2
        <4>3. CASE j \in k + 2..k + 1 + Len(t)
          BY <3>1, <3>2, <3>4, <4>3
        <4> QED  BY <3>3, <4>1, <4>2, <4>3
      <3>5. Placed(x, b)
        BY <3>4 DEF Placed
      <3> QED  BY <1>11, <3>2, <3>5 DEF x, y, p
    <2>4. CASE t \in After(g, k)
      <3>1. PICK j \in HeadersOf(g) : j > k + 2 /\ t = SubSeq(b, j, Len(b))
        BY <2>4 DEF After, b
      <3>2. j \in 1..Len(b)
        BY <3>1 DEF HeadersOf, b
      <3>3. t \in Seq(Segments) /\ Len(t) = Len(b) - j + 1
        <4>1. \A c \in j..Len(b) : c \in 1..Len(b) /\ b[c] \in Segments
          BY <1>1, <3>2, ElementOfSeq
        <4> QED  BY <1>1, <3>1, <3>2, <4>1, SubSeqProperties
      <3>4. x \in Seq(Segments) /\ Len(x) = Len(y) + Len(t)
        BY <2>2, <3>3, FrameSpliced
      <3> HIDE DEF x
      <3>5. Len(x) < Len(b)
        BY <1>1, <1>2, <2>2, <3>1, <3>2, <3>3, <3>4
      <3> QED  BY <1>11, <3>4, <3>5 DEF x, y, p
    <2> QED  BY <2>3, <2>4
  <1> QED  BY <1>7, <1>9, <1>10, <1>11 DEF b

(* What any damage leaves, of the frame and of the number of its blocks.     *)
KeptOf(g, f, kind) ==
  /\ kind = "none" => f = g
  /\ kind \notin {"count", "foreign"} => f.nBlocks = g.nBlocks
  /\ kind # "foreign" =>
       (kind # "count" /\ Len(f.body) < Len(g.body)) \/ Placed(f.body, g.body)

LEMMA FrameNewBody ==
  ASSUME NEW g \in Frames, NEW x \in Seq(Segments), NEW f, f = [g EXCEPT !.body = x],
         NEW kind, kind \notin {"none", "count"},
         Len(x) < Len(g.body) \/ Placed(x, g.body)
  PROVE  f \in Frames /\ KeptOf(g, f, kind)
  <1>1. f \in Frames /\ f.body = x /\ f.nBlocks = g.nBlocks
    BY FrameBody
  <1> QED  BY <1>1 DEF KeptOf

LEMMA FrameSameBody ==
  ASSUME NEW g \in Frames
  PROVE  Placed(g.body, g.body)
  BY FrameFields DEF Placed

LEMMA FrameDamage ==
  ASSUME NEW g \in Frames, Alternating(g.body),
         NEW kind \in Damages, NEW f \in Damaged(g, kind)
  PROVE  f \in Frames /\ KeptOf(g, f, kind)
  <1>1. /\ g.body \in Seq(Segments) /\ Len(g.body) \in Nat
        /\ \A k \in 1..Len(g.body) : g.body[k] \in Segments
    BY FrameFields
  <1>2. CASE kind = "none"
    BY <1>2, FrameSameBody DEF Damaged, KeptOf
  <1>3. CASE kind = "header"
    <2>1. f = [g EXCEPT !.good = FALSE] \/ \E v \in FieldValues : f = [g EXCEPT !.blockSize = v]
      BY <1>3 DEF Damaged
    <2>2. f \in Frames /\ f.body = g.body /\ f.nBlocks = g.nBlocks
      BY <2>1, DamageAssumption DEF Frames
    <2> QED  BY <1>3, <2>2, FrameSameBody DEF KeptOf
  <1>4. CASE kind = "count"
    <2>1. \E v \in FieldValues : f = [g EXCEPT !.nBlocks = v]
      BY <1>4 DEF Damaged
    <2>2. f \in Frames /\ f.body = g.body
      BY <2>1, DamageAssumption DEF Frames
    <2> QED  BY <1>4, <2>2, FrameSameBody DEF KeptOf
  <1>5. CASE kind = "cut"
    <2>1. PICK k \in 0..Len(g.body) - 1 :
            \/ f = [g EXCEPT !.body = SubSeq(g.body, 1, k)]
            \/ f = [g EXCEPT !.body = Append(SubSeq(g.body, 1, k), Part)]
      <3>1. f \in {[g EXCEPT !.body = SubSeq(@, 1, k)] : k \in 0..Len(g.body) - 1}
                 \cup {[g EXCEPT !.body = Append(SubSeq(@, 1, k), Part)] :
                         k \in 0..Len(g.body) - 1}
        BY <1>5 DEF Damaged
      <3> QED  BY <3>1, ZenonT(60)
    <2>2. k \in 0..Len(g.body)
      BY <1>1
    <2>3. PICK x \in {SubSeq(g.body, 1, k), Append(SubSeq(g.body, 1, k), Part)} :
            f = [g EXCEPT !.body = x]
      BY <2>1
    <2>4. x \in Seq(Segments) /\ Placed(x, g.body)
      BY <1>1, <2>2, FrameCut
    <2>5. kind \notin {"none", "count"}
      BY <1>5
    <2> QED  BY <2>3, <2>4, <2>5, FrameNewBody, Zenon
  <1>6. CASE kind = "trailing"
    <2>1. PICK t \in Strays : f = [g EXCEPT !.body = g.body \o t]
      BY <1>6 DEF Damaged
    <2> DEFINE x == g.body \o t
    <2>2. x \in Seq(Segments) /\ Placed(x, g.body) /\ f = [g EXCEPT !.body = x]
      BY <1>1, <2>1, FrameTrailing
    <2> HIDE DEF x
    <2> QED  BY <1>6, <2>2, FrameNewBody, SMTT(40)
  <1>7. CASE kind = "origSize"
    <2>1. PICK k \in HeadersOf(g), v \in FieldValues : f = [g EXCEPT !.body[k].origSize = v]
      BY <1>7 DEF Damaged
    <2>2. k \in 1..Len(g.body) /\ g.body[k].kind = "blockHeader"
      BY DEF HeadersOf, Alternating
    <2> DEFINE h == [g.body[k] EXCEPT !.origSize = v]
               x == [g.body EXCEPT ![k] = h]
    <2>3. h \in Segments /\ h.kind = "blockHeader"
      BY <1>1, <2>2, DamageAssumption, FrameNewField
    <2>4. f = [g EXCEPT !.body = x]
      BY <2>1
    <2> HIDE DEF h
    <2>5. x \in Seq(Segments) /\ Placed(x, g.body)
      BY <1>1, <2>2, <2>3, FrameOther
    <2> HIDE DEF x
    <2> QED  BY <1>7, <2>4, <2>5, FrameNewBody
  <1>8. CASE kind = "size"
    <2>1. PICK k \in HeadersOf(g), v \in FieldValues : f \in Misread(g, k, v)
      BY <1>8 DEF Damaged
    <2>2. PICK x \in Seq(Segments) : /\ f = [g EXCEPT !.body = x]
                                     /\ Len(x) < Len(g.body) \/ Placed(x, g.body)
      BY <2>1, FrameMisread
    <2>3. kind \notin {"none", "count"}
      BY <1>8
    <2> QED  BY <2>2, <2>3, FrameNewBody, Zenon
  <1>9. CASE kind = "payload"
    <2>1. PICK k \in PayloadsOf(g), tag \in {"altered", "junk"} : f = Retagged(g, k, tag)
      BY <1>9 DEF Damaged
    <2>2. k \in 1..Len(g.body) /\ g.body[k].kind = "payload"
      BY DEF PayloadsOf, Alternating
    <2> DEFINE h == [g.body[k] EXCEPT !.tag = tag]
               x == [g.body EXCEPT ![k] = h]
    <2>3. h \in Segments /\ h.from = g.body[k].from /\ h.len = g.body[k].len
      BY <1>1, <2>2, FrameNewTag
    <2>4. f = [g EXCEPT !.body = x]
      BY <2>1 DEF Retagged
    <2> HIDE DEF h
    <2>5. x \in Seq(Segments) /\ Placed(x, g.body)
      BY <1>1, <2>2, <2>3, FrameOther
    <2> HIDE DEF x
    <2> QED  BY <1>9, <2>4, <2>5, FrameNewBody
  <1>10. CASE kind = "foreign"
    <2>1. f \in ForeignFrames
      BY <1>10 DEF Damaged
    <2>2. f \in Frames
      BY <2>1, DamageAssumption DEF Frames, IsBody
    <2> QED  BY <1>10, <2>2 DEF KeptOf
  <1> QED  BY <1>2, <1>3, <1>4, <1>5, <1>6, <1>7, <1>8, <1>9, <1>10 DEF Damages

LEMMA FrameBegins == ASSUME FrameInit PROVE FrameIInv
  <1>1. length \in Nat /\ blockSize \in Int
    BY LimitsAssumption DEF FrameInit
  <1>2. frame \in Frames
    BY DEF FrameInit, Frames
  <1>3. FrameTypeOK
    BY <1>1, <1>2 DEF FrameInit, FrameTypeOK, Damages
  <1> QED  BY <1>3 DEF FrameIInv, FrameInit, Building, Receiving, Accepting

(* What does not change with the source.                                     *)
LEMMA FrameSame ==
  ASSUME length' = length
  PROVE  /\ \A bs : Made(bs)' = Made(bs)
         /\ \A bs : BlocksOf(bs)' = BlocksOf(bs)
  BY DEF Made, MadeSegment, MadeLen, BlocksOf, BlockHeader, Payload

LEMMA FrameType ==
  ASSUME FrameIInv
  PROVE  /\ length \in Nat /\ i \in Nat /\ rest \in Nat /\ total \in Nat /\ off \in Nat
         /\ frame \in Frames /\ sent \in Frames /\ damage \in Damages
         /\ length \in Lengths /\ blockSize \in Int
         /\ out \in Seq([from : Nat, len : Nat])
  BY LimitsAssumption DEF FrameIInv, FrameTypeOK

LEMMA Remainder ==
  ASSUME NEW x \in Int, NEW d \in Nat \ {0}
  PROVE  x % d \in 0..d - 1
  BY SMTT(20)

LEMMA FrameClamped ==
  ASSUME length \in Nat, blockSize \in Int
  PROVE  Clamped \in Nat \ {0} /\ Clamped >= MinBlockSize
  <1>1. \A x \in Int : Int32(x) \in Int
    <2> SUFFICES ASSUME NEW x \in Int PROVE Int32(x) \in Int
      OBVIOUS
    <2> DEFINE y == x + Int32Max + 1
               d == 2 * (Int32Max + 1)
    <2>1. y \in Int /\ d \in Nat \ {0}
      BY FrameLimits
    <2>2. Int32(x) = (y % d) - (Int32Max + 1)
      BY DEF Int32
    <2> HIDE DEF y
    <2>3. y % d \in 0..d - 1
      BY <2>1, Remainder
    <2> QED  BY <2>2, <2>3, FrameLimits
  <1>2. BlockBound(length) \in Int
    BY FrameLimits
  <1> QED  BY <1>1, <1>2, FrameLimits DEF Clamped

LEMMA FrameCompressHeader ==
  ASSUME FrameIInv, CompressHeader
  PROVE  FrameIInv'
  <1>1. /\ at = "compress" /\ blockSize' = Clamped
        /\ UNCHANGED <<length, off, i, rest, total, out, sent, damage>>
        /\ i = 0 /\ off = 0 /\ frame.body = <<>> /\ frame.good
        /\ rest = 0 /\ out = <<>> /\ damage = "none" /\ verdict = "none"
    BY DEF CompressHeader, FrameIInv, Building
  <1> DEFINE c == Clamped
             n == BlocksOf(c)
  <1>2. c \in Nat \ {0} /\ c >= MinBlockSize /\ length \in Nat
    BY FrameType, FrameClamped
  <1>3. CASE c > MaxBlockSize
    <2>1. at' = "returned" /\ verdict' = "init" /\ UNCHANGED frame
      BY <1>3 DEF CompressHeader
    <2>2. FrameTypeOK'
      BY <1>1, <1>2, <2>1 DEF FrameIInv, FrameTypeOK
    <2> QED  BY <1>1, <2>1, <2>2 DEF FrameIInv, Building, Receiving, Accepting
  <1>4. CASE ~(c > MaxBlockSize)
    <2>1. /\ frame' = [frame EXCEPT !.blockSize = c, !.nBlocks = n]
          /\ at' = "compressBlock" /\ verdict' = verdict /\ blockSize' = c
      BY <1>1, <1>4 DEF CompressHeader
    <2>2. c \in MinBlockSize..MaxBlockSize
      BY <1>2, <1>4, FrameLimits
    <2>3. n \in Nat
      BY <1>2, FrameBlocks
    <2>4. \A bs : Made(bs)' = Made(bs) /\ BlocksOf(bs)' = BlocksOf(bs)
      BY <1>1, FrameSame
    <2> DEFINE m == Made(c)
    <2>5. BlocksOf(blockSize)' = n /\ Made(blockSize)' = m
      <3>1. BlocksOf(blockSize)' = n
        BY <1>1 DEF BlocksOf
      <3>2. Made(blockSize)' = m
        BY <1>1 DEF Made, MadeSegment, MadeLen, BlocksOf, BlockHeader, Payload
      <3> QED  BY <3>1, <3>2
    <2> HIDE DEF c, n, m
    <2>6. /\ frame' \in Frames
          /\ frame'.good /\ frame'.blockSize = c /\ frame'.nBlocks = n /\ frame'.body = <<>>
      <3>1. frame \in Frames
        BY FrameType
      <3>2. /\ frame'.good = frame.good /\ frame'.body = frame.body
            /\ frame'.blockSize = c /\ frame'.nBlocks = n
        BY <2>1, <3>1 DEF Frames
      <3>3. frame' \in Frames
        <4>1. frame' = [good |-> frame'.good, blockSize |-> frame'.blockSize,
                        nBlocks |-> frame'.nBlocks, body |-> frame'.body]
          BY <2>1, <3>1 DEF Frames
        <4>2. frame.good \in BOOLEAN /\ frame.body \in Seq(Segments)
          BY <3>1 DEF Frames
        <4> QED  BY <1>2, <2>3, <3>2, <4>1, <4>2 DEF Frames
      <3> QED  BY <1>1, <3>2, <3>3
    <2>7. FrameTypeOK'
      BY <1>1, <1>2, <2>1, <2>6 DEF FrameIInv, FrameTypeOK
    <2>8. i' \in 0..n /\ 2 * i' = 0 /\ off' = i' * c
      BY <1>1, <1>2, <2>3
    <2>9. Building'
      <3>1. SubSeq(m.body, 1, 0) = <<>>
        BY SubSeqEmpty
      <3> QED  BY <1>1, <2>1, <2>2, <2>5, <2>6, <2>8, <3>1 DEF Building
    <2> QED  BY <1>1, <2>1, <2>7, <2>9 DEF FrameIInv, Receiving, Accepting
  <1> QED  BY <1>3, <1>4

(* While Compress builds the frame.                                          *)
LEMMA FrameBuilding ==
  ASSUME FrameIInv, at \in {"compressBlock", "transport"},
         NEW n, n = BlocksOf(blockSize)
  PROVE  /\ n \in Nat /\ i \in 0..n /\ length \in Nat
         /\ blockSize \in MinBlockSize..MaxBlockSize /\ blockSize \in Nat \ {0}
         /\ frame.good /\ frame.nBlocks = n /\ frame.blockSize = blockSize
         /\ frame.body = SubSeq(Made(blockSize).body, 1, 2 * i)
         /\ i < n => off = i * blockSize /\ SizeOf(i) = MadeLen(blockSize, i + 1)
         /\ rest = 0 /\ out = <<>> /\ damage = "none" /\ verdict = "none"
  <1>0. /\ blockSize \in MinBlockSize..MaxBlockSize
        /\ i \in 0..n
        /\ frame.good /\ frame.nBlocks = n /\ frame.blockSize = blockSize
        /\ frame.body = SubSeq(Made(blockSize).body, 1, 2 * i)
        /\ i < n => off = i * blockSize
        /\ rest = 0 /\ out = <<>> /\ damage = "none" /\ verdict = "none"
    BY DEF FrameIInv, Building
  <1>1. length \in Nat /\ blockSize \in Nat \ {0}
    <2>1. blockSize \in MinBlockSize..MaxBlockSize
      BY <1>0
    <2>2. MinBlockSize \in Nat \ {0} /\ MaxBlockSize \in Nat
      BY FrameLimits
    <2>3. length \in Nat
      BY FrameType
    <2> QED  BY <2>1, <2>2, <2>3
  <1>2. n \in Nat
    BY <1>0, <1>1, FrameMade
  <1>4. i < n => SizeOf(i) = MadeLen(blockSize, i + 1)
    <2>1. i \in Int /\ n \in Int
      BY <1>0, <1>2
    <2>2. i = n - 1 <=> i + 1 = n
      BY <2>1
    <2> QED  BY <1>0, <2>2 DEF SizeOf, MadeLen
  <1> QED  BY <1>0, <1>1, <1>2, <1>4

(* Two more elements of a sequence.                                          *)
LEMMA TwoMore ==
  ASSUME NEW S, NEW s \in Seq(S), NEW k \in Nat, k + 2 <= Len(s)
  PROVE  SubSeq(s, 1, k) \o <<s[k + 1], s[k + 2]>> = SubSeq(s, 1, k + 2)
  <1>1. Len(s) \in Nat /\ \A j \in 1..Len(s) : s[j] \in S
    BY LenProperties, ElementOfSeq
  <1>2. (\A j \in 1..k : s[j] \in S) /\ (\A j \in 1..k + 2 : s[j] \in S)
    BY <1>1
  <1>3. /\ SubSeq(s, 1, k) \in Seq(S) /\ Len(SubSeq(s, 1, k)) = k
        /\ \A j \in 1..k : SubSeq(s, 1, k)[j] = s[j]
    BY <1>2, SubSeqProperties
  <1>4. /\ SubSeq(s, 1, k + 2) \in Seq(S) /\ Len(SubSeq(s, 1, k + 2)) = k + 2
        /\ \A j \in 1..k + 2 : SubSeq(s, 1, k + 2)[j] = s[j]
    BY <1>2, SubSeqProperties
  <1> DEFINE a == SubSeq(s, 1, k)
             b == SubSeq(s, 1, k + 2)
             c == <<s[k + 1], s[k + 2]>>
  <1>5. c \in Seq(S) /\ Len(c) = 2 /\ c[1] = s[k + 1] /\ c[2] = s[k + 2]
    BY <1>2
  <1> HIDE DEF a, b, c
  <1>6. /\ a \o c \in Seq(S) /\ Len(a \o c) = k + 2
        /\ \A j \in 1..k + 2 : (a \o c)[j] = IF j <= k THEN a[j] ELSE c[j - k]
    <2>1. a \in Seq(S) /\ Len(a) = k /\ c \in Seq(S) /\ Len(c) = 2
      BY <1>3, <1>5 DEF a
    <2>2. /\ a \o c \in Seq(S) /\ Len(a \o c) = Len(a) + Len(c)
          /\ \A j \in 1..Len(a) + Len(c) : (a \o c)[j] = IF j <= Len(a) THEN a[j] ELSE c[j - Len(a)]
      <3>1. a \in Seq(S) /\ c \in Seq(S)
        BY <2>1
      <3> QED  BY <3>1, ConcatProperties
    <2> QED  BY <2>1, <2>2
  <1>7. \A j \in 1..k + 2 : (a \o c)[j] = b[j]
    <2> SUFFICES ASSUME NEW j \in 1..k + 2 PROVE (a \o c)[j] = b[j]
      OBVIOUS
    <2>1. CASE j <= k
      BY <1>3, <1>4, <1>6, <2>1 DEF a, b
    <2>2. CASE j = k + 1
      <3>1. j - k = 1 /\ ~(j <= k)
        BY <2>2
      <3> QED  BY <1>4, <1>5, <1>6, <2>2, <3>1 DEF b
    <2>3. CASE j = k + 2
      <3>1. j - k = 2 /\ ~(j <= k)
        BY <2>3
      <3> QED  BY <1>4, <1>5, <1>6, <2>3, <3>1 DEF b
    <2>4. j <= k \/ j = k + 1 \/ j = k + 2
      OBVIOUS
    <2> QED  BY <2>1, <2>2, <2>3, <2>4
  <1>8. a \o c = b
    BY <1>4, <1>6, <1>7, SeqEqual DEF b
  <1> QED  BY <1>8 DEF a, b, c
LEMMA FrameCompressBlock ==
  ASSUME FrameIInv, CompressBlock
  PROVE  FrameIInv'
  <1> DEFINE n == BlocksOf(blockSize)
             g == Made(blockSize)
             l == MadeLen(blockSize, i + 1)
             e == EncSize(l)
             d == i * blockSize
  <1>0. /\ n \in Nat /\ i \in 0..n /\ length \in Nat
        /\ blockSize \in MinBlockSize..MaxBlockSize /\ blockSize \in Nat \ {0}
        /\ frame.good /\ frame.nBlocks = n /\ frame.blockSize = blockSize
        /\ frame.body = SubSeq(g.body, 1, 2 * i)
        /\ i < n => off = d /\ SizeOf(i) = l
        /\ rest = 0 /\ out = <<>> /\ damage = "none" /\ verdict = "none"
    BY FrameBuilding DEF CompressBlock
  <1>1. /\ g \in Frames /\ Len(g.body) = 2 * n
        /\ \A b \in 1..n :
              /\ MadeLen(blockSize, b) \in 0..blockSize
              /\ (b - 1) * blockSize \in Nat
              /\ g.body[2 * b - 1] =
                   BlockHeader(EncSize(MadeLen(blockSize, b)), MadeLen(blockSize, b))
              /\ g.body[2 * b] = Payload("enc", (b - 1) * blockSize, MadeLen(blockSize, b))
    BY <1>0, FrameMade
  <1>2. i + 1 < n => l = blockSize
    BY <1>0 DEF MadeLen
  <1>3. i \in 0..n - 1 =>
          /\ l \in 0..blockSize /\ d \in Nat
          /\ g.body[2 * i + 1] = BlockHeader(e, l)
          /\ g.body[2 * i + 2] = Payload("enc", d, l)
    <2> SUFFICES ASSUME i \in 0..n - 1
                 PROVE  /\ l \in 0..blockSize /\ d \in Nat
                        /\ g.body[2 * i + 1] = BlockHeader(e, l)
                        /\ g.body[2 * i + 2] = Payload("enc", d, l)
      OBVIOUS
    <2> DEFINE b == i + 1
    <2>1. n \in Nat
      BY <1>0
    <2> HIDE DEF n
    <2>2. b \in 1..n /\ b - 1 = i /\ 2 * b - 1 = 2 * i + 1 /\ 2 * b = 2 * i + 2
      BY <2>1
    <2> HIDE DEF b, g
    <2>3. /\ MadeLen(blockSize, b) \in 0..blockSize
          /\ (b - 1) * blockSize \in Nat
          /\ g.body[2 * b - 1] =
               BlockHeader(EncSize(MadeLen(blockSize, b)), MadeLen(blockSize, b))
          /\ g.body[2 * b] = Payload("enc", (b - 1) * blockSize, MadeLen(blockSize, b))
      BY <1>1, <2>2
    <2>4. MadeLen(blockSize, b) = l
      BY DEF b
    <2> QED  BY <2>2, <2>3, <2>4, Zenon
  <1>4. i \in 0..n - 1 => (i + 1) * blockSize = d + blockSize
    <2>1. \A x, y \in Int : (x + 1) * y = x * y + y
      BY SMTT(20)
    <2>2. blockSize \in Int /\ (i \in 0..n - 1 => i \in Int)
      BY <1>0
    <2> QED  BY <2>1, <2>2, Zenon
  <1> HIDE DEF n, g, l, e, d
  <1>5. /\ at = "compressBlock" /\ i < n /\ i' = i + 1
        /\ frame' = [frame EXCEPT !.body =
                       frame.body \o <<BlockHeader(e, l), Payload("enc", off, l)>>]
        /\ off' = off + l
        /\ UNCHANGED <<length, blockSize, rest, total, out, sent, damage, at, verdict>>
    BY <1>0 DEF CompressBlock, e
  <1>6. Made(blockSize)' = g /\ BlocksOf(blockSize)' = n
    BY <1>5 DEF g, n, Made, MadeSegment, MadeLen, BlocksOf, BlockHeader, Payload
  <1>7. i \in 0..n - 1 /\ i \in Nat /\ i + 1 \in 1..n /\ 2 * i \in Nat /\ 2 * i + 2 <= 2 * n
    <2>1. n \in Nat /\ i \in 0..n /\ i < n
      BY <1>0, <1>5
    <2> QED  BY <2>1
  <1>8. g.body \in Seq(Segments)
    BY <1>1, FrameFields
  <1>9. frame.body \o <<BlockHeader(e, l), Payload("enc", off, l)>> = SubSeq(g.body, 1, 2 * i + 2)
    <2>1. SubSeq(g.body, 1, 2 * i) \o <<g.body[2 * i + 1], g.body[2 * i + 2]>>
            = SubSeq(g.body, 1, 2 * i + 2)
      BY <1>1, <1>7, <1>8, TwoMore
    <2> QED  BY <1>0, <1>3, <1>5, <1>7, <2>1, Zenon
  <1>10. SubSeq(g.body, 1, 2 * i + 2) \in Seq(Segments)
    <2> DEFINE m == 2 * i + 2
    <2>1. m \in Int /\ \A j \in 1..m : j \in 1..Len(g.body)
      BY <1>1, <1>7
    <2> HIDE DEF m
    <2>2. \A j \in 1..m : g.body[j] \in Segments
      BY <1>1, <2>1, FrameFields
    <2>3. SubSeq(g.body, 1, m) \in Seq(Segments)
      BY <2>1, <2>2, SubSeqProperties
    <2> QED  BY <2>3 DEF m
  <1>11. /\ frame' \in Frames
         /\ frame'.good /\ frame'.nBlocks = n /\ frame'.blockSize = blockSize
         /\ frame'.body = SubSeq(g.body, 1, 2 * i')
    <2>1. 2 * i' = 2 * i + 2
      BY <1>5, <1>7
    <2> DEFINE x == SubSeq(g.body, 1, 2 * i + 2)
    <2>2. x \in Seq(Segments) /\ frame' = [frame EXCEPT !.body = x]
      BY <1>5, <1>9, <1>10
    <2> HIDE DEF x
    <2>3. /\ frame' \in Frames /\ frame'.body = x /\ frame'.good = frame.good
          /\ frame'.nBlocks = frame.nBlocks /\ frame'.blockSize = frame.blockSize
      BY <2>2, FrameType, FrameBody, SMTT(40)
    <2> QED  BY <1>0, <2>1, <2>3 DEF x
  <1>13. off' \in Nat /\ i' \in 0..n /\ i' \in Nat
    <2>1. off = d /\ l \in 0..blockSize /\ d \in Nat /\ blockSize \in Nat /\ n \in Nat
      BY <1>0, <1>3, <1>5, <1>7
    <2>2. off' = off + l /\ i' = i + 1
      BY <1>5
    <2> QED  BY <1>7, <2>1, <2>2
  <1>14. i' < n => off' = i' * blockSize
    <2>1. off = d /\ (i + 1) * blockSize = d + blockSize
      BY <1>0, <1>4, <1>5, <1>7
    <2> QED  BY <1>2, <1>5, <2>1
  <1>15. FrameTypeOK'
    BY <1>5, <1>11, <1>13 DEF FrameIInv, FrameTypeOK
  <1>16. Building'
    BY <1>0, <1>5, <1>6, <1>11, <1>13, <1>14 DEF Building
  <1> QED  BY <1>0, <1>5, <1>15, <1>16 DEF FrameIInv, Receiving, Accepting

LEMMA FrameCompressReturns ==
  ASSUME FrameIInv, CompressReturns
  PROVE  FrameIInv'
  <1> DEFINE n == BlocksOf(blockSize)
             g == Made(blockSize)
  <1>1. /\ i \in 0..n /\ blockSize \in MinBlockSize..MaxBlockSize
        /\ frame.good /\ frame.nBlocks = n /\ frame.blockSize = blockSize
        /\ frame.body = SubSeq(g.body, 1, 2 * i)
        /\ i < n => off = i * blockSize
        /\ rest = 0 /\ out = <<>> /\ damage = "none" /\ verdict = "none"
    BY FrameBuilding DEF CompressReturns
  <1>2. Made(blockSize)' = g /\ BlocksOf(blockSize)' = n
    BY DEF CompressReturns, Made, MadeSegment, MadeLen, BlocksOf, BlockHeader, Payload
  <1>0. frame \in Frames
    BY FrameType
  <1> HIDE DEF n, g
  <1>3. /\ i = n /\ at' = "transport" /\ sent' = frame
        /\ UNCHANGED <<length, blockSize, off, frame, i, rest, total, out, damage, verdict>>
    BY <1>1 DEF CompressReturns
  <1>4. FrameTypeOK'
    BY <1>0, <1>3 DEF FrameIInv, FrameTypeOK
  <1>5. Building'
    BY <1>1, <1>2, <1>3 DEF Building
  <1> QED  BY <1>1, <1>3, <1>4, <1>5 DEF FrameIInv, Receiving, Accepting

(* Frames with the same fields are the same.                                 *)
LEMMA FrameEqual ==
  ASSUME NEW f \in Frames, NEW g \in Frames,
         f.good = g.good, f.blockSize = g.blockSize, f.nBlocks = g.nBlocks, f.body = g.body
  PROVE  f = g
  <1>1. f = [good |-> f.good, blockSize |-> f.blockSize, nBlocks |-> f.nBlocks, body |-> f.body]
    BY DEF Frames
  <1>2. g = [good |-> g.good, blockSize |-> g.blockSize, nBlocks |-> g.nBlocks, body |-> g.body]
    BY DEF Frames
  <1> QED  BY <1>1, <1>2, Zenon
LEMMA FrameTransport ==
  ASSUME FrameIInv, TransportFrame
  PROVE  FrameIInv'
  <1> DEFINE n == BlocksOf(blockSize)
             g == Made(blockSize)
  <1>0. at \in {"compressBlock", "transport"} /\ at = "transport"
    BY DEF TransportFrame
  <1>1. /\ n \in Nat /\ i = n /\ length \in Nat /\ blockSize \in MinBlockSize..MaxBlockSize
        /\ frame.good /\ frame.nBlocks = n /\ frame.blockSize = blockSize
        /\ frame.body = SubSeq(g.body, 1, 2 * i)
        /\ rest = 0 /\ out = <<>> /\ verdict = "none"
    <2>1. i = n
      BY <1>0 DEF FrameIInv, Building
    <2> HIDE DEF n, g
    <2> QED  BY <1>0, <2>1, FrameBuilding DEF n, g
  <1>2. /\ g \in Frames /\ g.good /\ g.nBlocks = n /\ g.blockSize = blockSize
        /\ Len(g.body) = 2 * n /\ Alternating(g.body)
    BY <1>1, FrameMade, FrameMadeAlternates
  <1>4. /\ at' = "decompress" /\ i' = 0 /\ damage' \in Damages
        /\ frame' \in Damaged(frame, damage')
        /\ UNCHANGED <<length, blockSize, off, rest, total, out, sent, verdict>>
    BY DEF TransportFrame
  <1>3. g' = g
    BY <1>4 DEF Made, MadeSegment, MadeLen, BlocksOf, BlockHeader, Payload
  <1>5. frame = g
    <2> HIDE DEF n, g
    <2>1. frame.body = g.body
      <3>1. g.body \in Seq(Segments)
        BY <1>2, FrameFields
      <3>2. SubSeq(g.body, 1, Len(g.body)) = g.body
        BY <3>1, SubSeqFull
      <3> QED  BY <1>1, <1>2, <3>2
    <2>2. frame \in Frames
      BY FrameType
    <2>3. frame.good \in BOOLEAN /\ g.good \in BOOLEAN
      BY <1>2, <2>2, FrameFields
    <2>4. frame.good = g.good
      BY <1>1, <1>2, <2>3
    <2> QED  BY <1>1, <1>2, <2>1, <2>2, <2>4, FrameEqual
  <1>9. sent = g
    BY <1>0, <1>5 DEF FrameIInv, Building
  <1> HIDE DEF n, g
  <1>6. frame' \in Damaged(g, damage')
    BY <1>4, <1>5
  <1>7. frame' \in Frames /\ KeptOf(g, frame', damage')
    BY <1>2, <1>4, <1>6, FrameDamage
  <1>8. FrameTypeOK'
    BY <1>4, <1>7 DEF FrameIInv, FrameTypeOK
  <1>10. Kept'
    BY <1>4, <1>7, <1>9 DEF Kept, KeptOf, Placed
  <1>11. Receiving'
    <2>1. rest' = 2 * i'
      BY <1>1, <1>4
    <2>2. sent' = g /\ sent'.blockSize = blockSize /\ Made(blockSize)' = g
      BY <1>2, <1>3, <1>4, <1>9 DEF g
    <2>3. Made(sent.blockSize)' = g
      <3>1. Made(sent.blockSize)' = Made(blockSize)'
        BY <1>4, <2>2
      <3> QED  BY <2>2, <3>1
    <2> QED  BY <1>1, <1>4, <1>10, <2>1, <2>2, <2>3 DEF Receiving
  <1> QED  BY <1>1, <1>4, <1>8, <1>11 DEF FrameIInv, Building, Accepting

(* While Decompress takes it apart.                                          *)
LEMMA FrameReceived ==
  ASSUME FrameIInv,
         at \in {"decompress", "scan", "decode"} \/ verdict = "nil"
  PROVE  /\ length \in Nat /\ Kept
         /\ sent.blockSize \in MinBlockSize..MaxBlockSize /\ sent = Made(sent.blockSize)
         /\ rest = 2 * i
         /\ damage = "none" => frame = sent
         /\ at \in {"decompress", "scan"} => out = <<>>
         /\ at # "decompress" => blockSize \in MinBlockSize..MaxBlockSize
         /\ at # "decompress" => frame.blockSize = blockSize
  BY FrameType DEF FrameIInv, Receiving, Kept

(* Nothing is wrong with the blocks of a frame that Compress made.           *)
LEMMA FrameMadeSound ==
  ASSUME length \in Nat, blockSize \in MinBlockSize..MaxBlockSize,
         frame = Made(blockSize)
  PROVE  /\ frame.good /\ frame.blockSize = blockSize
         /\ \A b \in 1..frame.nBlocks :
              Sound(b) /\ Intact(frame.body[2 * b - 1], frame.body[2 * b])
  <1> DEFINE n == BlocksOf(blockSize)
             bs == blockSize
  <1>1. /\ n \in Nat /\ frame.nBlocks = n /\ Len(frame.body) = 2 * n
        /\ frame.good /\ frame.blockSize = blockSize /\ blockSize \in Nat
        /\ \A b \in 1..n :
              /\ MadeLen(bs, b) \in 0..bs
              /\ MadeLen(bs, b) \in 0..BlockBound(bs)
              /\ EncSize(MadeLen(bs, b)) \in 0..BlockBound(bs)
              /\ frame.body[2 * b - 1] = BlockHeader(EncSize(MadeLen(bs, b)), MadeLen(bs, b))
              /\ frame.body[2 * b] = Payload("enc", (b - 1) * bs, MadeLen(bs, b))
    <2>1. bs \in MinBlockSize..MaxBlockSize /\ frame = Made(bs) /\ n = BlocksOf(bs)
      OBVIOUS
    <2> HIDE DEF n, bs
    <2>2. bs = blockSize /\ frame = Made(bs)
      BY <2>1 DEF bs
    <2> QED  BY <2>1, <2>2, FrameMade, SMTT(120)
  <1> HIDE DEF n
  <1> SUFFICES ASSUME NEW b \in 1..n
               PROVE  Sound(b) /\ Intact(frame.body[2 * b - 1], frame.body[2 * b])
    BY <1>1
  <1>2. 2 * b <= Len(frame.body)
    BY <1>1
  <1> DEFINE h == frame.body[2 * b - 1]
             p == frame.body[2 * b]
             l == MadeLen(bs, b)
             e == EncSize(l)
             d == (b - 1) * bs
  <1>5. /\ InRange(l) /\ InRange(e) /\ l \in 0..blockSize
        /\ h = BlockHeader(e, l) /\ p = Payload("enc", d, l)
    BY <1>1 DEF InRange
  <1> HIDE DEF h, p, l, e, d
  <1>6. /\ h.kind = "blockHeader" /\ h.size = e /\ h.origSize = l
        /\ p.kind = "payload" /\ p.tag = "enc" /\ p.len = l
    BY <1>5 DEF BlockHeader, Payload
  <1>3. Sound(b)
    BY <1>2, <1>5, <1>6 DEF Sound, h, p
  <1>4. Intact(frame.body[2 * b - 1], frame.body[2 * b])
    <2>1. l <= blockSize
      BY <1>1, <1>5
    <2> QED  BY <1>6, <2>1 DEF Intact, Decodable, h, p
  <1> QED  BY <1>3, <1>4

(* Nothing that is looked for changes while a loop of Decompress runs.       *)
LEMMA FrameLoopSame ==
  ASSUME UNCHANGED <<blockSize, frame>>
  PROVE  \A b : Sound(b)' <=> Sound(b)
  BY DEF Sound, InRange, BlockBound

LEMMA FrameKeptSame ==
  ASSUME UNCHANGED <<length, frame, sent, damage>>
  PROVE  /\ Kept' <=> Kept
         /\ Made(sent.blockSize)' = Made(sent.blockSize)
  <1>1. Made(sent.blockSize)' = Made(sent.blockSize)
    BY DEF Made, MadeSegment, MadeLen, BlocksOf, BlockHeader, Payload
  <1> QED  BY <1>1 DEF Kept

LEMMA FrameDecompressHeader ==
  ASSUME FrameIInv, DecompressHeader
  PROVE  FrameIInv'
  <1>1. /\ at = "decompress" /\ blockSize' = frame.blockSize
        /\ UNCHANGED <<length, off, frame, i, rest, total, out, sent, damage>>
        /\ verdict = "none" /\ i = 0 /\ out = <<>>
    BY DEF DecompressHeader, FrameIInv, Accepting, Receiving
  <1>2. /\ length \in Nat /\ Kept
        /\ sent.blockSize \in MinBlockSize..MaxBlockSize /\ sent = Made(sent.blockSize)
        /\ rest = 2 * i /\ (damage = "none" => frame = sent)
    BY <1>1, FrameReceived
  <1>3. blockSize' \in Int
    BY <1>1, FrameType, FrameFields
  <1>4. damage = "none" => frame.good /\ frame.blockSize \in MinBlockSize..MaxBlockSize
    BY <1>2, FrameMade
  <1>7. CASE ~frame.good
    <2>1. at' = "returned" /\ verdict' = "malformed"
      BY <1>7 DEF DecompressHeader, Answer
    <2>2. FrameTypeOK'
      BY <1>1, <1>3, <2>1 DEF FrameIInv, FrameTypeOK
    <2> QED  BY <1>1, <1>4, <1>7, <2>1, <2>2 DEF FrameIInv, Building, Receiving, Accepting
  <1>8. CASE frame.good /\ frame.blockSize \notin MinBlockSize..MaxBlockSize
    <2>1. at' = "returned" /\ verdict' = "init"
      BY <1>8 DEF DecompressHeader, Answer
    <2>2. FrameTypeOK'
      BY <1>1, <1>3, <2>1 DEF FrameIInv, FrameTypeOK
    <2> QED  BY <1>1, <2>1, <2>2 DEF FrameIInv, Building, Receiving, Accepting
  <1>9. CASE frame.good /\ frame.blockSize \in MinBlockSize..MaxBlockSize
    <2>1. at' = "scan" /\ verdict' = verdict
      BY <1>9 DEF DecompressHeader
    <2>2. FrameTypeOK'
      BY <1>1, <1>3, <2>1 DEF FrameIInv, FrameTypeOK
    <2>3. \A b \in 1..i' : Sound(b)'
      BY <1>1
    <2>4. Receiving'
      BY <1>1, <1>2, <1>9, <2>1, <2>3, FrameKeptSame DEF Receiving
    <2> QED  BY <1>1, <2>1, <2>2, <2>4 DEF FrameIInv, Building, Accepting
  <1> QED  BY <1>7, <1>8, <1>9

(* The scan.                                                                 *)
LEMMA FrameScanning ==
  ASSUME FrameIInv, at = "scan"
  PROVE  /\ frame.good /\ frame.blockSize = blockSize /\ out = <<>> /\ verdict = "none"
         /\ (i = 0 \/ i <= frame.nBlocks) /\ \A b \in 1..i : Sound(b)
  BY DEF FrameIInv, Receiving, Accepting

LEMMA FrameScan ==
  ASSUME FrameIInv, Scan
  PROVE  FrameIInv'
  <1> DEFINE b == i + 1
             h == frame.body[rest + 1]
             p == frame.body[rest + 2]
  <1>1. /\ at = "scan" /\ i < frame.nBlocks
        /\ UNCHANGED <<length, blockSize, off, frame, out, sent, damage>>
    BY DEF Scan
  <1>2. /\ length \in Nat /\ blockSize \in MinBlockSize..MaxBlockSize /\ Kept
        /\ sent.blockSize \in MinBlockSize..MaxBlockSize /\ sent = Made(sent.blockSize)
        /\ rest = 2 * i /\ (damage = "none" => frame = Made(blockSize))
    BY <1>1, FrameReceived
  <1>3. /\ frame.good /\ frame.blockSize = blockSize /\ out = <<>> /\ verdict = "none"
        /\ (i = 0 \/ i <= frame.nBlocks) /\ \A c \in 1..i : Sound(c)
    BY <1>1, FrameScanning
  <1>4. /\ i \in Nat /\ rest \in Nat /\ total \in Nat /\ frame.nBlocks \in Int
        /\ Len(frame.body) \in Nat /\ blockSize \in Nat
    BY <1>2, FrameType, FrameFields, FrameLimits
  <1>5. b \in 1..frame.nBlocks /\ 2 * b - 1 = rest + 1 /\ 2 * b = rest + 2
    BY <1>1, <1>2, <1>4
  <1> HIDE DEF b, h, p
  <1>6. There(1, "blockHeader") <=> rest + 1 <= Len(frame.body) /\ h.kind = "blockHeader"
    BY DEF There, h
  <1>7. There(2, "payload") <=> rest + 2 <= Len(frame.body) /\ p.kind = "payload"
    BY DEF There, p
  <1>8. Sound(b) <=> /\ rest + 2 <= Len(frame.body)
                     /\ h.kind = "blockHeader" /\ p.kind = "payload"
                     /\ InRange(h.size) /\ InRange(h.origSize)
    BY <1>5 DEF Sound, h, p
  <1>9. damage = "none" => Sound(b)
    BY <1>2, <1>5, FrameMadeSound
  <1>10. CASE Sound(b)
    <2>1. There(1, "blockHeader") /\ There(2, "payload")
      BY <1>4, <1>6, <1>7, <1>8, <1>10
    <2>2. /\ total' = total + h.origSize /\ rest' = rest + 2 /\ i' = i + 1
          /\ UNCHANGED <<at, verdict>>
      BY <1>8, <1>10, <2>1 DEF Scan, h
    <2>3. h.origSize \in Nat
      <3>1. h.origSize \in 0..BlockBound(blockSize) /\ BlockBound(blockSize) \in Nat
        BY <1>4, <1>8, <1>10, FrameLimits DEF InRange
      <3> QED  BY <3>1
    <2>4. FrameTypeOK'
      BY <1>1, <1>4, <2>2, <2>3 DEF FrameIInv, FrameTypeOK
    <2>5. rest' = 2 * i' /\ i' <= frame.nBlocks
      BY <1>1, <1>2, <1>4, <2>2
    <2>6. \A c \in 1..i' : Sound(c)'
      <3> SUFFICES ASSUME NEW c \in 1..i' PROVE Sound(c)'
        OBVIOUS
      <3>1. c \in 1..i \/ c = b
        BY <1>4, <2>2 DEF b
      <3>2. Sound(c)
        BY <1>3, <1>10, <3>1
      <3> QED  BY <1>1, <3>2, FrameLoopSame
    <2>7. Receiving'
      BY <1>1, <1>2, <1>3, <2>2, <2>5, <2>6, FrameKeptSame DEF Receiving
    <2> QED  BY <1>1, <1>3, <2>2, <2>4, <2>7 DEF FrameIInv, Building, Accepting
  <1>11. CASE ~Sound(b)
    <2>1. /\ at' = "returned" /\ verdict' \in {"malformed", "truncated"}
          /\ UNCHANGED <<i, rest, total>>
      <3>1. \/ ~There(1, "blockHeader") \/ ~InRange(h.size)
            \/ ~There(2, "payload") \/ ~InRange(h.origSize)
        BY <1>6, <1>7, <1>8, <1>11
      <3> QED  BY <3>1 DEF Scan, Answer, h
    <2>2. FrameTypeOK'
      BY <1>1, <2>1 DEF FrameIInv, FrameTypeOK
    <2>3. damage # "none"
      BY <1>9, <1>11
    <2> QED  BY <1>1, <2>1, <2>2, <2>3 DEF FrameIInv, Building, Receiving, Accepting
  <1> QED  BY <1>10, <1>11

LEMMA FrameScanEnds ==
  ASSUME FrameIInv, ScanEnds
  PROVE  FrameIInv'
  <1>1. /\ at = "scan" /\ i >= frame.nBlocks /\ i' = 0 /\ rest' = 0 /\ at' = "decode"
        /\ UNCHANGED <<length, blockSize, off, frame, total, out, sent, damage, verdict>>
    BY DEF ScanEnds
  <1>2. /\ length \in Nat /\ blockSize \in MinBlockSize..MaxBlockSize /\ Kept
        /\ sent.blockSize \in MinBlockSize..MaxBlockSize /\ sent = Made(sent.blockSize)
    BY <1>1, FrameReceived
  <1>3. /\ frame.good /\ frame.blockSize = blockSize /\ out = <<>> /\ verdict = "none"
        /\ \A b \in 1..i : Sound(b)
    BY <1>1, FrameScanning
  <1>4. i \in Nat /\ frame.nBlocks \in Int
    BY FrameType, FrameFields
  <1>5. \A b \in 1..frame.nBlocks : Sound(b)'
    <2> SUFFICES ASSUME NEW b \in 1..frame.nBlocks PROVE Sound(b)'
      OBVIOUS
    <2>1. b \in 1..i
      BY <1>1, <1>4
    <2> QED  BY <1>1, <1>3, <2>1, FrameLoopSame
  <1>6. FrameTypeOK'
    BY <1>1 DEF FrameIInv, FrameTypeOK
  <1>7. Len(out) = 0
    BY <1>3
  <1>8. Receiving'
    BY <1>1, <1>2, <1>3, <1>5, <1>7, FrameKeptSame DEF Receiving
  <1> QED  BY <1>1, <1>3, <1>6, <1>8 DEF FrameIInv, Building, Accepting

(* The decoding loop.                                                        *)
FrameDecodedBlock(b) ==
  /\ Intact(frame.body[2 * b - 1], frame.body[2 * b])
  /\ out[b].from = frame.body[2 * b].from
  /\ out[b].len = frame.body[2 * b].len

LEMMA FrameDecoding ==
  ASSUME FrameIInv, at = "decode" \/ verdict = "nil"
  PROVE  /\ frame.good /\ frame.blockSize = blockSize
         /\ i = 0 \/ i <= frame.nBlocks
         /\ \A b \in 1..frame.nBlocks : Sound(b)
         /\ Len(out) = i
         /\ \A b \in 1..i : FrameDecodedBlock(b)
         /\ at = "decode" => verdict = "none"
         /\ verdict = "nil" => at = "returned" /\ i >= frame.nBlocks
  BY DEF FrameIInv, Receiving, Accepting, FrameDecodedBlock, Intact

LEMMA FrameDecode ==
  ASSUME FrameIInv, Decode
  PROVE  FrameIInv'
  <1> DEFINE b == i + 1
             h == frame.body[rest + 1]
             p == frame.body[rest + 2]
  <1>1. /\ at = "decode" /\ i < frame.nBlocks
        /\ UNCHANGED <<length, blockSize, off, frame, total, sent, damage>>
    BY DEF Decode
  <1>2. /\ length \in Nat /\ blockSize \in MinBlockSize..MaxBlockSize /\ Kept
        /\ sent.blockSize \in MinBlockSize..MaxBlockSize /\ sent = Made(sent.blockSize)
        /\ rest = 2 * i /\ (damage = "none" => frame = Made(blockSize))
    BY <1>1, FrameReceived
  <1>3. /\ frame.good /\ frame.blockSize = blockSize /\ verdict = "none"
        /\ \A c \in 1..frame.nBlocks : Sound(c)
        /\ Len(out) = i
        /\ \A c \in 1..i : FrameDecodedBlock(c)
    BY <1>1, FrameDecoding
  <1>4. /\ i \in Nat /\ frame.nBlocks \in Int /\ Len(frame.body) \in Nat
        /\ out \in Seq([from : Nat, len : Nat])
        /\ \A k \in 1..Len(frame.body) : frame.body[k] \in Segments
    BY FrameType, FrameFields
  <1>5. b \in 1..frame.nBlocks /\ 2 * b - 1 = rest + 1 /\ 2 * b = rest + 2
    BY <1>1, <1>2, <1>4
  <1>6. h = frame.body[2 * b - 1] /\ p = frame.body[2 * b]
    BY <1>5
  <1>7. \A c \in 1..frame.nBlocks : Sound(c)'
    BY <1>1, <1>3, FrameLoopSame
  <1>8. Intact(h, p) \in BOOLEAN /\ (damage = "none" => Intact(h, p))
    <2>1. damage = "none" => Intact(h, p)
      BY <1>2, <1>5, <1>6, FrameMadeSound
    <2> QED  BY <2>1 DEF Intact, Decodable
  <1> HIDE DEF b, h, p
  <1>9. CASE Intact(h, p)
    <2> DEFINE r == [from |-> p.from, len |-> h.origSize]
    <2>1. /\ out' = Append(out, r) /\ rest' = rest + 2 /\ i' = i + 1
          /\ UNCHANGED <<at, verdict>>
      BY <1>9 DEF Decode, h, p
    <2>2. p \in Segments /\ p.kind = "payload"
      <3>1. 2 * b <= Len(frame.body) /\ frame.body[2 * b].kind = "payload"
        BY <1>3, <1>5 DEF Sound
      <3>2. 2 * b \in 1..Len(frame.body)
        BY <1>4, <1>5, <3>1
      <3> QED  BY <1>4, <1>6, <3>1, <3>2
    <2>3. p.from \in Nat /\ p.len \in Nat
      BY <2>2 DEF Segments, Part
    <2>4. r \in [from : Nat, len : Nat] /\ r.from = p.from /\ r.len = p.len
      BY <1>9, <2>3 DEF Intact
    <2> HIDE DEF r
    <2>5. /\ out' \in Seq([from : Nat, len : Nat]) /\ Len(out') = i + 1 /\ out'[i + 1] = r
          /\ \A c \in 1..i : out'[c] = out[c]
      BY <1>3, <1>4, <2>1, <2>4, AppendProperties
    <2>6. FrameTypeOK'
      <3>1. rest' \in Nat /\ i' \in Nat
        BY <1>2, <1>4, <2>1
      <3> QED  BY <1>1, <2>1, <2>5, <3>1 DEF FrameIInv, FrameTypeOK
    <2>7. rest' = 2 * i' /\ i' <= frame.nBlocks /\ Len(out') = i'
      <3>1. i' = i + 1 /\ rest' = rest + 2
        BY <2>1
      <3>2. rest = 2 * i /\ i \in Nat /\ i < frame.nBlocks /\ frame.nBlocks \in Int
        BY <1>1, <1>2, <1>4
      <3>3. rest' = 2 * i'
        BY <3>1, <3>2
      <3>4. i' <= frame.nBlocks
        BY <3>1, <3>2
      <3> QED  BY <2>5, <3>1, <3>3, <3>4
    <2>8. \A c \in 1..i' : FrameDecodedBlock(c)'
      <3> SUFFICES ASSUME NEW c \in 1..i' PROVE FrameDecodedBlock(c)'
        OBVIOUS
      <3>1. CASE c \in 1..i
        <4>1. FrameDecodedBlock(c) /\ out'[c] = out[c]
          BY <1>3, <2>5, <3>1
        <4> QED  BY <1>1, <4>1 DEF FrameDecodedBlock, Intact, Decodable
      <3>2. CASE c = b
        <4>1. out'[c] = r
          BY <2>5, <3>2 DEF b
        <4>2. /\ frame'.body[2 * c - 1] = h /\ frame'.body[2 * c] = p
          BY <1>1, <1>6, <3>2
        <4> QED  BY <1>1, <1>9, <2>4, <4>1, <4>2 DEF FrameDecodedBlock, Intact, Decodable
      <3>3. c \in 1..i \/ c = b
        BY <1>4, <2>1, SMTT(40) DEF b
      <3> QED  BY <3>1, <3>2, <3>3
    <2>9. Receiving'
      <3>1. \A c \in 1..i' : Sound(c)'
        <4>1. \A c \in 1..i' : c \in 1..frame.nBlocks
          BY <1>4, <2>7
        <4> QED  BY <1>7, <4>1
      <3>2. \A c \in 1..i' : /\ Intact(frame.body[2 * c - 1], frame.body[2 * c])'
                              /\ out'[c].from = frame'.body[2 * c].from
                              /\ out'[c].len = frame'.body[2 * c - 1].origSize
        BY <2>8 DEF FrameDecodedBlock, Intact
      <3> QED  BY <1>1, <1>2, <1>3, <1>7, <2>1, <2>7, <3>1, <3>2, FrameKeptSame
               DEF Receiving
    <2> QED  BY <1>1, <1>3, <2>1, <2>6, <2>9 DEF FrameIInv, Building, Accepting
  <1>10. CASE ~Intact(h, p)
    <2>1. at' = "returned" /\ verdict' \in {"crc", "malformed"} /\ UNCHANGED <<i, rest, out>>
      BY <1>10 DEF Decode, Answer, h, p
    <2>2. FrameTypeOK'
      BY <1>1, <2>1 DEF FrameIInv, FrameTypeOK
    <2>3. damage # "none"
      BY <1>8, <1>10
    <2> QED  BY <1>1, <2>1, <2>2, <2>3 DEF FrameIInv, Building, Receiving, Accepting
  <1> QED  BY <1>9, <1>10

LEMMA FrameDecompressReturns ==
  ASSUME FrameIInv, DecompressReturns
  PROVE  FrameIInv'
  <1>1. /\ at = "decode" /\ i >= frame.nBlocks /\ at' = "returned" /\ verdict' = "nil"
        /\ UNCHANGED <<length, blockSize, off, frame, i, rest, total, out, sent, damage>>
    BY DEF DecompressReturns, Answer
  <1>2. FrameTypeOK'
    BY <1>1 DEF FrameIInv, FrameTypeOK
  <1>3. Receiving'
    <2>1. /\ \A b \in 1..frame.nBlocks : Sound(b)
          /\ \A b \in 1..i : Sound(b)
      BY <1>1 DEF FrameIInv, Receiving
    <2>2. /\ \A b \in 1..frame.nBlocks : Sound(b)'
          /\ \A b \in 1..i : Sound(b)'
      BY <1>1, <2>1, FrameLoopSame
    <2>3. \A b \in 1..i : Intact(frame.body[2 * b - 1], frame.body[2 * b])'
      BY <1>1 DEF FrameIInv, Receiving, Intact, Decodable
    <2> QED  BY <1>1, <2>2, <2>3, FrameKeptSame DEF FrameIInv, Receiving
  <1> QED  BY <1>1, <1>2, <1>3 DEF FrameIInv, Building, Accepting

LEMMA FrameStutter == ASSUME FrameIInv, UNCHANGED frameVars PROVE FrameIInv'
  <1>1. UNCHANGED <<length, blockSize, off, frame, i, rest, total, out, sent, damage, at, verdict>>
    BY DEF frameVars
  <1>2. FrameTypeOK'
    BY <1>1 DEF FrameIInv, FrameTypeOK
  <1>3. Building'
    <2>1. Made(blockSize)' = Made(blockSize) /\ BlocksOf(blockSize)' = BlocksOf(blockSize)
      BY <1>1 DEF Made, MadeSegment, MadeLen, BlocksOf, BlockHeader, Payload
    <2> QED  BY <1>1, <2>1 DEF FrameIInv, Building
  <1>4. Receiving'
    <2>1. \A h, p : Intact(h, p)' <=> Intact(h, p)
      BY <1>1 DEF Intact, Decodable
    <2> QED  BY <1>1, <2>1, FrameLoopSame, FrameKeptSame DEF FrameIInv, Receiving
  <1> QED  BY <1>1, <1>2, <1>3, <1>4 DEF FrameIInv, Accepting

(***************************************************************************)
(* The invariant of the frame: what Compress has made so far is the        *)
(* beginning of Made, and what Decompress has walked over is sound.        *)
(***************************************************************************)
THEOREM FrameInvariant == FrameSpec => []FrameIInv
  <1>1. FrameInit => FrameIInv
    BY FrameBegins
  <1>2. FrameIInv /\ [FrameNext]_(frameVars) => FrameIInv'
    <2> SUFFICES ASSUME FrameIInv, [FrameNext]_(frameVars) PROVE FrameIInv'
      OBVIOUS
    <2>1. CASE CompressHeader
      BY <2>1, FrameCompressHeader
    <2>2. CASE CompressBlock
      BY <2>2, FrameCompressBlock
    <2>3. CASE CompressReturns
      BY <2>3, FrameCompressReturns
    <2>4. CASE TransportFrame
      BY <2>4, FrameTransport
    <2>5. CASE DecompressHeader
      BY <2>5, FrameDecompressHeader
    <2>6. CASE Scan
      BY <2>6, FrameScan
    <2>7. CASE ScanEnds
      BY <2>7, FrameScanEnds
    <2>8. CASE Decode
      BY <2>8, FrameDecode
    <2>9. CASE DecompressReturns
      BY <2>9, FrameDecompressReturns
    <2>10. CASE UNCHANGED frameVars
      BY <2>10, FrameStutter
    <2> QED  BY <2>1, <2>2, <2>3, <2>4, <2>5, <2>6, <2>7, <2>8, <2>9, <2>10 DEF FrameNext
  <1> QED  BY <1>1, <1>2, PTL DEF FrameSpec

(* What the loops are about to touch.                                        *)
LEMMA FrameSlices == ASSUME FrameIInv PROVE SlicesInRange
  <1> DEFINE n == BlocksOf(blockSize)
             d == i * blockSize
             r == length % blockSize
  <1>1. ASSUME at = "compressBlock", i < frame.nBlocks
        PROVE  off + SizeOf(i) <= length /\ SizeOf(i) <= BlockBound(blockSize)
    <2>1. /\ n \in Nat /\ i \in 0..n /\ length \in Nat /\ blockSize \in Nat \ {0}
          /\ blockSize \in MinBlockSize..MaxBlockSize
          /\ frame.nBlocks = n
      BY <1>1, FrameBuilding
    <2>2. off = d /\ SizeOf(i) = MadeLen(blockSize, i + 1)
      BY <1>1, <2>1, FrameBuilding
    <2>3. i \in 0..n - 1 /\ i + 1 \in 1..n
      BY <1>1, <2>1
    <2>4. InRange(MadeLen(blockSize, i + 1)) /\ BlockBound(blockSize) \in Nat
      BY <2>1, <2>3, FrameMade, FrameLimits DEF InRange
    <2>5. /\ i \in 0..n - 2 => d + blockSize <= length
          /\ n > 0 => (n - 1) * blockSize + r <= length
      BY <2>1, FrameBlocks
    <2>6. CASE i = n - 1
      <3>1. MadeLen(blockSize, i + 1) = r
        BY <2>1, <2>6 DEF MadeLen
      <3>2. n > 0 /\ d = (n - 1) * blockSize
        <4>1. n > 0
          BY <2>1, <2>3
        <4>2. d = (n - 1) * blockSize
          BY <2>6, Zenon
        <4> QED  BY <4>1, <4>2
      <3> QED  BY <2>2, <2>4, <2>5, <3>1, <3>2 DEF InRange
    <2>7. CASE i # n - 1
      <3>1. MadeLen(blockSize, i + 1) = blockSize
        BY <2>1, <2>3, <2>7 DEF MadeLen
      <3>2. i \in 0..n - 2
        BY <2>1, <2>3, <2>7
      <3> QED  BY <2>2, <2>4, <2>5, <3>1, <3>2 DEF InRange
    <2> QED  BY <2>6, <2>7
  <1>2. ASSUME at = "decode", i < frame.nBlocks
        PROVE  /\ There(1, "blockHeader") /\ There(2, "payload")
               /\ InRange(frame.body[rest + 1].size)
               /\ InRange(frame.body[rest + 1].origSize)
    <2>1. i \in Nat /\ frame.nBlocks \in Int /\ Len(frame.body) \in Nat
      BY FrameType, FrameFields
    <2>2. rest = 2 * i
      BY <1>2, FrameReceived
    <2> DEFINE b == i + 1
    <2>3. b \in 1..frame.nBlocks /\ 2 * b - 1 = rest + 1 /\ 2 * b = rest + 2
      BY <1>2, <2>1, <2>2
    <2>4. Sound(b)
      BY <1>2, <2>3, FrameDecoding
    <2> HIDE DEF b
    <2>5. rest + 2 <= Len(frame.body) /\ rest + 1 <= Len(frame.body)
      BY <2>1, <2>2, <2>3, <2>4 DEF Sound
    <2> QED  BY <2>3, <2>4, <2>5 DEF Sound, There
  <1> QED  BY <1>1, <1>2 DEF SlicesInRange

(***************************************************************************)
(* No slice expression of Compress or Decompress is out of range, whatever *)
(* the lengths and the block sizes, for a frame damaged in one place and   *)
(* for any other frame.                                                    *)
(***************************************************************************)
THEOREM FrameSlicesInRange == FrameSpec => []FrameInv
  <1>1. FrameIInv => FrameInv
    BY FrameSlices DEF FrameInv
  <1> QED  BY <1>1, FrameInvariant, PTL

(* What a call of Decompress that returns nil has decoded.                   *)
LEMMA FrameReturned ==
  ASSUME FrameIInv, verdict = "nil"
  PROVE  /\ i \in Nat /\ frame.nBlocks \in Int /\ i >= frame.nBlocks
         /\ i = 0 \/ i = frame.nBlocks
         /\ Len(out) = i /\ out \in Seq([from : Nat, len : Nat])
         /\ \A b \in 1..frame.nBlocks : Sound(b) /\ FrameDecodedBlock(b)
         /\ \A b \in 1..i : FrameDecodedBlock(b)
  <1>1. i \in Nat /\ frame.nBlocks \in Int /\ out \in Seq([from : Nat, len : Nat])
    BY FrameType, FrameFields
  <1>2. /\ i = 0 \/ i <= frame.nBlocks
        /\ i >= frame.nBlocks /\ Len(out) = i
        /\ \A b \in 1..frame.nBlocks : Sound(b)
        /\ \A b \in 1..i : FrameDecodedBlock(b)
    BY FrameDecoding
  <1>3. \A b \in 1..frame.nBlocks : b \in 1..i
    BY <1>1, <1>2
  <1> QED  BY <1>1, <1>2, <1>3

LEMMA FrameWhole ==
  ASSUME FrameIInv
  PROVE  RoundTripsUnlessMultiple
  <1> SUFFICES ASSUME at = "returned", damage = "none", verdict # "init",
                      length % blockSize # 0 \/ length = 0
               PROVE  verdict = "nil" /\ Covers(out, length)
    BY DEF RoundTripsUnlessMultiple
  <1> DEFINE n == BlocksOf(blockSize)
             r == length % blockSize
  <1>1. verdict = "nil"
    BY DEF FrameIInv, Accepting
  <1>2. /\ length \in Nat /\ blockSize \in MinBlockSize..MaxBlockSize /\ frame = Made(blockSize)
    <2>1. at # "decompress"
      OBVIOUS
    <2> QED  BY <1>1, <2>1, FrameReceived
  <1>3. blockSize \in Nat \ {0}
    BY <1>2, FrameLimits
  <1>4. /\ n \in Nat /\ frame.nBlocks = n
        /\ \A b \in 1..n :
             frame.body[2 * b] = Payload("enc", (b - 1) * blockSize, MadeLen(blockSize, b))
    BY <1>2, FrameMade
  <1>5. i = n /\ Len(out) = n
    <2>1. /\ i \in Nat /\ i >= frame.nBlocks /\ (i = 0 \/ i = frame.nBlocks) /\ Len(out) = i
      BY <1>1, FrameReturned
    <2> QED  BY <1>2, <1>4, <2>1
  <1>6. ASSUME NEW b \in 1..n
        PROVE  out[b].from = (b - 1) * blockSize /\ out[b].len = MadeLen(blockSize, b)
    <2>1. FrameDecodedBlock(b)
      BY <1>1, <1>5, FrameReturned
    <2>2. frame.body[2 * b] = Payload("enc", (b - 1) * blockSize, MadeLen(blockSize, b))
      BY <1>2, <1>4
    <2> QED  BY <2>1, <2>2 DEF FrameDecodedBlock, Payload
  <1>7. /\ r # 0 => n > 0 /\ (n - 1) * blockSize + r = length
        /\ length = 0 => n = 0
        /\ \A b \in 0..n - 1 : b * blockSize \in Nat /\ (b + 1) * blockSize = b * blockSize + blockSize
    BY <1>2, <1>3, FrameBlocks
  <1>8. ASSUME NEW k \in 1..Len(out)
        PROVE  out[k].from = IF k = 1 THEN 0 ELSE out[k - 1].from + out[k - 1].len
    <2>1. k \in 1..n
      BY <1>5
    <2>2. CASE k = 1
      <3>1. (k - 1) * blockSize = 0
        BY <1>3, <2>2
      <3> QED  BY <1>6, <2>1, <2>2, <3>1
    <2>3. CASE k # 1
      <3>1. k - 1 \in 1..n /\ k - 2 \in 0..n - 1 /\ k - 1 # n
            /\ k - 1 - 1 = k - 2 /\ k - 2 + 1 = k - 1
        BY <1>4, <2>1, <2>3
      <3>2. out[k - 1].from = (k - 2) * blockSize /\ out[k - 1].len = blockSize
        <4>1. out[k - 1].from = (k - 1 - 1) * blockSize /\ out[k - 1].len = MadeLen(blockSize, k - 1)
          BY <1>6, <3>1
        <4>2. MadeLen(blockSize, k - 1) = blockSize
          BY <3>1 DEF MadeLen
        <4> QED  BY <3>1, <4>1, <4>2
      <3>3. (k - 1) * blockSize = (k - 2) * blockSize + blockSize
        BY <1>7, <3>1
      <3> QED  BY <1>6, <2>1, <2>3, <3>2, <3>3
    <2> QED  BY <2>2, <2>3
  <1>9. length = IF out = <<>> THEN 0 ELSE Last(out).from + Last(out).len
    <2>1. CASE out = <<>>
      <3>1. n = 0
        BY <1>5, <2>1
      <3> QED  BY <1>4, <1>7, <2>1, <3>1
    <2>2. CASE out # <<>>
      <3>1. n > 0 /\ n \in 1..n
        <4>1. out \in Seq([from : Nat, len : Nat])
          BY FrameType
        <4>2. Len(out) # 0
          BY <2>2, <4>1, EmptySeq
        <4> QED  BY <1>4, <1>5, <4>2
      <3>2. MadeLen(blockSize, n) = r
        BY DEF MadeLen
      <3>3. out[n].from = (n - 1) * blockSize /\ out[n].len = r
        BY <1>6, <3>1, <3>2
      <3>4. length = out[n].from + out[n].len
        BY <1>7, <3>1, <3>3
      <3> QED  BY <1>5, <2>2, <3>4 DEF Last
    <2> QED  BY <2>1, <2>2
  <1> QED  BY <1>1, <1>8, <1>9 DEF Covers

(***************************************************************************)
(* Undamaged, a frame comes back whole unless the source's length is a     *)
(* positive multiple of the block size used.                               *)
(***************************************************************************)
THEOREM FrameRoundTrips == FrameSpec => []RoundTripsUnlessMultiple
  <1>1. FrameIInv => RoundTripsUnlessMultiple
    BY FrameWhole
  <1> QED  BY <1>1, FrameInvariant, PTL

LEMMA FrameAccepted ==
  ASSUME FrameIInv
  PROVE  AcceptedIsTheSource
  <1> SUFFICES ASSUME at = "returned", verdict = "nil", damage # "foreign"
               PROVE  /\ \A k \in 1..Len(out) : /\ out[k].from = sent.body[2 * k].from
                                                /\ out[k].len = sent.body[2 * k].len
                      /\ IF damage = "count" THEN Len(out) <= sent.nBlocks
                         ELSE Len(out) = sent.nBlocks
    BY DEF AcceptedIsTheSource
  <1> DEFINE n == BlocksOf(sent.blockSize)
  <1>1. /\ length \in Nat /\ Kept
        /\ sent.blockSize \in MinBlockSize..MaxBlockSize /\ sent = Made(sent.blockSize)
    BY FrameReceived
  <1>2. n \in Nat /\ sent.nBlocks = n /\ Len(sent.body) = 2 * n
    BY <1>1, FrameMade
  <1> HIDE DEF n
  <1>3. /\ i \in Nat /\ frame.nBlocks \in Int /\ i >= frame.nBlocks
        /\ i = 0 \/ i = frame.nBlocks
        /\ Len(out) = i
        /\ \A b \in 1..frame.nBlocks : Sound(b) /\ FrameDecodedBlock(b)
        /\ \A b \in 1..i : FrameDecodedBlock(b)
    BY FrameReturned
  <1>4. Len(frame.body) \in Nat
    BY FrameType, FrameFields
  <1>5. damage # "count" => frame.nBlocks = n
    BY <1>1, <1>2 DEF Kept
  <1>6. ~(damage # "count" /\ Len(frame.body) < Len(sent.body))
    <2> SUFFICES ASSUME damage # "count", Len(frame.body) < Len(sent.body) PROVE FALSE
      OBVIOUS
    <2>1. n \in 1..frame.nBlocks
      BY <1>2, <1>4, <1>5
    <2>2. 2 * n <= Len(frame.body)
      BY <1>3, <2>1 DEF Sound
    <2> QED  BY <1>2, <1>4, <2>2
  <1>7. \A k \in 1..Len(frame.body) :
          frame.body[k].kind = "payload" /\ frame.body[k].tag # "junk" =>
            /\ k <= Len(sent.body)
            /\ frame.body[k].from = sent.body[k].from /\ frame.body[k].len = sent.body[k].len
    BY <1>1, <1>6 DEF Kept
  <1>8. ASSUME NEW b \in 1..i
        PROVE  /\ b <= n
               /\ out[b].from = sent.body[2 * b].from /\ out[b].len = sent.body[2 * b].len
    <2>1. b \in 1..frame.nBlocks
      BY <1>3
    <2>2. Sound(b) /\ FrameDecodedBlock(b)
      BY <1>3, <2>1
    <2>3. /\ 2 * b \in 1..Len(frame.body) /\ frame.body[2 * b].kind = "payload"
          /\ frame.body[2 * b].tag # "junk"
      BY <1>4, <2>2 DEF Sound, FrameDecodedBlock, Intact, Decodable
    <2>4. /\ 2 * b <= Len(sent.body)
          /\ frame.body[2 * b].from = sent.body[2 * b].from
          /\ frame.body[2 * b].len = sent.body[2 * b].len
      BY <1>7, <2>3
    <2>5. b <= n
      BY <1>2, <2>4
    <2> QED  BY <2>2, <2>4, <2>5 DEF FrameDecodedBlock
  <1>9. i <= n
    <2>1. CASE i = 0
      BY <1>2, <2>1
    <2>2. CASE i # 0
      <3>1. i \in 1..i
        BY <1>3, <2>2
      <3> QED  BY <1>8, <3>1
    <2> QED  BY <2>1, <2>2
  <1>10. damage # "count" => i = n
    BY <1>2, <1>3, <1>5
  <1> QED  BY <1>2, <1>3, <1>8, <1>9, <1>10

(***************************************************************************)
(* What Decompress returns without an error is the source, of a frame that *)
(* was damaged in one place and was not refused: all of it, or its first   *)
(* blocks when the number of blocks is what was damaged.                   *)
(***************************************************************************)
THEOREM FrameAcceptedIsTheSource == FrameSpec => []AcceptedIsTheSource
  <1>1. FrameIInv => AcceptedIsTheSource
    BY FrameAccepted
  <1> QED  BY <1>1, FrameInvariant, PTL
=============================================================================
