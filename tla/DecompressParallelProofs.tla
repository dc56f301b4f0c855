---------------------- MODULE DecompressParallelProofs ----------------------
(***************************************************************************)
(* Proofs about DecompressParallel, for every file, any number of workers  *)
(* and every order in which the goroutines run: the arrays that the rounds *)
(* share hold, where they are read, the blocks of the round in hand; the   *)
(* barrier separates the goroutines from the main one; a fault costs less  *)
(* than a round of good blocks; and the rounds implement the abstract      *)
(* decoder, which the sequential Reader implements too.                    *)
(***************************************************************************)
EXTENDS DecompressParallel, Bzip3FormatTheorems

(* Where in the file the header of the block of slot s is; its payload       *)
(* follows.                                                                  *)
HeaderAt(s) == fpos - (IF pc = "payload" THEN 1 ELSE 0) - 2 * (n - s) + 1

(* Slot s holds the block with header h and compressed block c: read, given  *)
(* to a goroutine, or decoded.                                               *)
Holds(s, h, c) ==
  /\ origSizes[s] = h.origSize
  /\ IF pc \in {"read", "payload", "spawn"} \/ worker[s] = "started"
       THEN buffers[s] = c.body
       ELSE /\ worker[s] = "done"
            /\ errs[s] = "nil" => /\ buffers[s] = Raw(c.body.data)
                                  /\ dSizes[s] = Len(c.body.data)

InRound == pc \in {"read", "payload", "spawn", "wait", "write"}

Position ==
  /\ pc = "header" => n = 0
  /\ InRound =>
       /\ 2 * n + (IF pc = "payload" THEN 1 ELSE 0) <= fpos
       /\ \A s \in Slot : s < n => Holds(s, file[HeaderAt(s)], file[HeaderAt(s) + 1])
  /\ pc \in {"read", "payload"} => n < Workers
  /\ pc = "payload" => origSizes[n] = file[fpos].origSize
  /\ pc = "write" => i < n
  /\ pc \in {"spawn", "wait"} => n > 0
  /\ \A s \in Slot : worker[s] = "started" => pc = "wait" /\ s < n

IInv == TypeOK /\ Position

-----------------------------------------------------------------------------
FileSegments == Segments(Bodies)

LEMMA WorkersNatural == /\ Workers \in Nat \ {0, 1}
                        /\ 0 \in Slot
                        /\ \A s : s \in Slot <=> s \in Nat /\ s < Workers
  BY WorkersAssumption DEF Slot

(* What a segment of the file is, by its kind. *)
LEMMA SegmentFields ==
  ASSUME TypeOK, ~AtEnd
  PROVE  /\ fpos \in Nat /\ fpos + 1 \in 1..Len(file) /\ Len(file) \in Nat
         /\ Seg.kind = "blockHeader" => Seg.newSize \in Int /\ Seg.origSize \in Int
         /\ Seg.kind = "payload" => Seg.body \in Bodies
  <1>1. file \in Seq(FileSegments) /\ fpos \in 0..Len(file) /\ Len(file) \in Nat
    BY FilesAssumption, LenProperties DEF TypeOK, FileSegments, IsFile
  <1>2. fpos \in Nat /\ fpos + 1 \in 1..Len(file)
    BY <1>1 DEF AtEnd
  <1>3. Seg \in FileSegments
    BY <1>1, <1>2, ElementOfSeq DEF Seg
  <1>4. /\ Seg.kind = "blockHeader" => Seg.newSize \in Int /\ Seg.origSize \in Int
        /\ Seg.kind = "payload" => Seg.body \in Bodies
    BY <1>3 DEF FileSegments, Segments, Part
  <1> QED  BY <1>1, <1>2, <1>4

(* The program gives up, or has come to its end. *)
LEMMA ReturnInv ==
  ASSUME IInv, pc # "wait", pc' = "returned", TypeOK', UNCHANGED worker
  PROVE  IInv'
  BY DEF IInv, Position, InRound

-----------------------------------------------------------------------------
LEMMA InitInv == Init => IInv
  <1> SUFFICES ASSUME Init PROVE IInv
    OBVIOUS
  <1>1. TypeOK
    <2>1. Raw(<<>>) \in BufferContent /\ <<>> \in Seq(Seq(Byte))
      BY EmptySeq DEF Raw, BufferContent
    <2>2. file \in Files /\ fpos = 0 /\ Len(file) \in Nat
      BY FilesAssumption, LenProperties DEF Init, IsFile
    <2>3. /\ buffers \in [Slot -> BufferContent] /\ newSizes \in [Slot -> Int]
          /\ origSizes \in [Slot -> Int] /\ dSizes \in [Slot -> Nat \cup {-1}]
          /\ errs \in [Slot -> {"nil", "crc"}]
          /\ worker \in [Slot -> {"none", "started", "done"}]
      BY <2>1 DEF Init
    <2>4. n \in 0..Workers /\ i \in Slot
      BY WorkersNatural DEF Init
    <2>5. eof = FALSE /\ ioErr = FALSE
      BY DEF Init
    <2> QED  BY <2>1, <2>2, <2>3, <2>4, <2>5 DEF Init, TypeOK
  <1>2. Position
    BY DEF Init, Position, InRound
  <1> QED  BY <1>1, <1>2 DEF IInv

LEMMA ReadHeaderInv == ASSUME IInv, ReadHeader PROVE IInv'
  <1>1. /\ pc = "header" /\ n = 0 /\ \A s \in Slot : worker[s] # "started"
        /\ UNCHANGED <<file, eof, buffers, newSizes, origSizes, dSizes, errs, worker, n, i, out>>
    BY DEF ReadHeader, IInv, Position, slots
  <1>2. CASE pc' = "returned"
    <2>1. /\ ioErr' \in BOOLEAN /\ result' \in {"none", "malformed"}
          /\ blockSize' = blockSize /\ fpos' \in 0..Len(file)
      <3>1. fpos + 1 \in 0..Len(file) \/ ~Whole("header")
        BY SegmentFields DEF Whole, IInv
      <3>2. result' = "malformed" /\ blockSize' = blockSize
        BY <1>2 DEF ReadHeader, Return, Goto
      <3>3. fpos' \in 0..Len(file)
        BY <3>1 DEF ReadHeader, Consume, IInv, TypeOK
      <3>4. ioErr' = TRUE \/ ioErr' = ioErr
        BY DEF ReadHeader, IoError
      <3> QED  BY <3>2, <3>3, <3>4 DEF IInv, TypeOK
    <2>2. TypeOK'
      BY <1>1, <1>2, <2>1 DEF IInv, TypeOK
    <2> QED  BY <1>1, <1>2, <2>2, ReturnInv
  <1>3. CASE pc' # "returned"
    <2>1. /\ Whole("header") /\ fpos' = fpos + 1 /\ UNCHANGED ioErr
          /\ ValidBlockSize(Seg.blockSize) /\ blockSize' = Seg.blockSize
          /\ pc' = "read" /\ UNCHANGED result
      BY <1>3 DEF ReadHeader, Return, Consume, Goto
    <2>2. fpos' \in 0..Len(file) /\ fpos' \in Nat
      BY <2>1, SegmentFields DEF Whole, IInv
    <2>3. TypeOK'
      BY <1>1, <2>1, <2>2 DEF IInv, TypeOK, ValidBlockSize
    <2>4. Position'
      <3>1. n' = 0 /\ \A s \in Slot : ~(s < n')
        BY <1>1, WorkersNatural
      <3> QED  BY <1>1, <2>1, <2>2, <3>1, WorkersNatural DEF Position
    <2> QED  BY <2>3, <2>4 DEF IInv
  <1> QED  BY <1>2, <1>3

LEMMA ReadBlockHeaderInv == ASSUME IInv, ReadBlockHeader PROVE IInv'
  <1>1. /\ pc = "read" /\ n \in Nat /\ n < Workers /\ n \in Slot /\ 2 * n <= fpos /\ fpos \in Nat
        /\ \A s \in Slot : worker[s] # "started"
        /\ UNCHANGED <<file, blockSize, buffers, dSizes, errs, worker, n, i, out>>
    <2>1. pc = "read"
      BY DEF ReadBlockHeader
    <2>2. n \in Nat /\ n < Workers /\ n \in Slot /\ fpos \in Nat
      <3>1. n \in 0..Workers /\ n < Workers /\ fpos \in Nat
        BY <2>1 DEF IInv, TypeOK, Position
      <3> QED  BY <3>1, WorkersNatural
    <2>3. 2 * n <= fpos
      BY <2>1, <2>2 DEF IInv, Position, InRound
    <2> QED  BY <2>1, <2>2, <2>3 DEF ReadBlockHeader, IInv, Position
  <1>2. CASE UNCHANGED <<fpos, newSizes, origSizes>>
    <2>1. /\ eof' \in BOOLEAN /\ ioErr' \in BOOLEAN
          /\ \/ pc' = "returned" /\ result' \in {"nil", "readErr", "truncated"}
             \/ pc' = "spawn" /\ UNCHANGED result /\ n # 0
      <3>1. fpos' # fpos + 1
        BY <1>1, <1>2
      <3>2. /\ eof' = eof \/ eof' = TRUE
            /\ ioErr' = ioErr \/ ioErr' = TRUE
            /\ \/ pc' = "returned" /\ result' \in {"nil", "readErr", "truncated"}
               \/ pc' = "spawn" /\ UNCHANGED result /\ n # 0
        BY <3>1 DEF ReadBlockHeader, Return, Goto, IoError, Consume
      <3> QED  BY <3>2 DEF IInv, TypeOK
    <2>2. TypeOK'
      BY <1>1, <1>2, <2>1 DEF IInv, TypeOK
    <2>3. CASE pc' = "returned"
      BY <1>1, <2>2, <2>3, ReturnInv
    <2>4. CASE pc' = "spawn"
      <3>1. n # 0
        BY <2>1, <2>4
      <3>2. \A s \in Slot : HeaderAt(s)' = HeaderAt(s)
        BY <1>1, <1>2, <2>4 DEF HeaderAt
      <3>3. ASSUME NEW s \in Slot, s < n
            PROVE  Holds(s, file[HeaderAt(s)], file[HeaderAt(s) + 1])'
        BY <1>1, <1>2, <2>4, <3>2, <3>3 DEF IInv, Position, InRound, Holds
      <3>4. n' > 0 /\ 2 * n' + 0 <= fpos'
        BY <1>1, <1>2, <3>1
      <3>5. \A s \in Slot : worker'[s] # "started"
        BY <1>1
      <3>6. \A s \in Slot : s < n' => Holds(s, file[HeaderAt(s)], file[HeaderAt(s) + 1])'
        BY <1>1, <3>3
      <3> HIDE DEF HeaderAt, Holds
      <3>7. Position'
        BY <2>4, <3>4, <3>5, <3>6 DEF Position
      <3> QED  BY <2>2, <3>7 DEF IInv
    <2> QED  BY <2>1, <2>3, <2>4
  <1>3. CASE /\ Whole("blockHeader")
             /\ Consume
             /\ newSizes' = [newSizes EXCEPT ![n] = Seg.newSize]
             /\ origSizes' = [origSizes EXCEPT ![n] = Seg.origSize]
             /\ IF SizesInBounds(Seg, blockSize) THEN Goto("payload") ELSE Return("malformed")
             /\ UNCHANGED <<eof, ioErr>>
    <2>1. /\ fpos' = fpos + 1 /\ fpos' \in 0..Len(file)
          /\ Seg.newSize \in Int /\ Seg.origSize \in Int
      BY <1>3, SegmentFields DEF Whole, Consume, IInv
    <2>2. \/ pc' = "returned" /\ result' = "malformed"
          \/ pc' = "payload" /\ UNCHANGED result
      BY <1>3 DEF Goto, Return
    <2>3. TypeOK'
      BY <1>1, <1>3, <2>1, <2>2 DEF IInv, TypeOK
    <2>4. CASE pc' = "returned"
      BY <1>1, <2>3, <2>4, ReturnInv
    <2>5. CASE pc' = "payload"
      <3>1. \A s \in Slot : HeaderAt(s)' = HeaderAt(s)
        BY <1>1, <2>1, <2>5, WorkersNatural DEF HeaderAt
      <3>2. ASSUME NEW s \in Slot, s < n
            PROVE  Holds(s, file[HeaderAt(s)], file[HeaderAt(s) + 1])'
        <4>1. origSizes'[s] = origSizes[s]
          BY <1>1, <1>3, <3>2, WorkersNatural DEF IInv, TypeOK
        <4> QED  BY <1>1, <2>5, <3>1, <3>2, <4>1 DEF IInv, Position, InRound, Holds
      <3>3. Position'
        <4>1. origSizes'[n'] = file'[fpos'].origSize
          BY <1>1, <1>3, <2>1 DEF Seg, IInv, TypeOK
        <4>2. /\ 2 * n' + 1 <= fpos' /\ n' < Workers
              /\ \A s \in Slot : worker'[s] # "started"
          BY <1>1, <2>1
        <4>3. \A s \in Slot : s < n' => Holds(s, file[HeaderAt(s)], file[HeaderAt(s) + 1])'
          BY <1>1, <3>2
        <4> QED  BY <2>5, <4>1, <4>2, <4>3 DEF Position
      <3> QED  BY <2>3, <3>3 DEF IInv
    <2> QED  BY <2>2, <2>4, <2>5
  <1> QED  BY <1>2, <1>3 DEF ReadBlockHeader

LEMMA ReadPayloadInv == ASSUME IInv, ReadPayload PROVE IInv'
  <1>1. /\ pc = "payload" /\ n \in Nat /\ n < Workers /\ n \in Slot /\ 2 * n + 1 <= fpos
        /\ fpos \in Nat /\ \A s \in Slot : worker[s] # "started"
        /\ UNCHANGED <<file, blockSize, eof, newSizes, origSizes, dSizes, errs, worker, i, out>>
    <2>1. pc = "payload"
      BY DEF ReadPayload
    <2>2. n \in 0..Workers /\ n < Workers /\ fpos \in Nat
      BY <2>1 DEF IInv, TypeOK, Position
    <2>3. 2 * n + 1 <= fpos
      BY <2>1 DEF IInv, Position, InRound
    <2> QED  BY <2>1, <2>2, <2>3, WorkersNatural DEF ReadPayload, IInv, Position
  <1>2. CASE /\ IoError \/ ((AtEnd \/ Short) /\ UNCHANGED ioErr)
             /\ Return("truncated")
             /\ buffers' = [buffers EXCEPT ![n] = Junk]
             /\ UNCHANGED <<fpos, n>>
    <2>1. Junk \in BufferContent
      BY EmptySeq DEF Junk, BufferContent
    <2>2. TypeOK'
      BY <1>1, <1>2, <2>1 DEF IoError, Return, IInv, TypeOK
    <2> QED  BY <1>1, <1>2, <2>2, ReturnInv DEF Return
  <1>3. CASE /\ Whole("payload")
             /\ Consume
             /\ buffers' = [buffers EXCEPT ![n] = Seg.body]
             /\ n' = n + 1
             /\ UNCHANGED ioErr
             /\ Goto(IF RoundFull(n + 1) THEN "spawn" ELSE "read")
    <2>1. /\ fpos' = fpos + 1 /\ fpos' \in 0..Len(file) /\ Seg.body \in BufferContent
          /\ Seg = file[fpos + 1]
      BY <1>3, SegmentFields DEF Whole, Consume, IInv, Bodies, BufferContent, Seg
    <2>2. /\ pc' = (IF n + 1 = Workers THEN "spawn" ELSE "read") /\ UNCHANGED result
      BY <1>3 DEF Goto, RoundFull
    <2>3. n + 1 \in 0..Workers
      BY <1>1, WorkersNatural
    <2>4. TypeOK'
      BY <1>1, <1>3, <2>1, <2>2, <2>3 DEF IInv, TypeOK
    <2>5. \A s \in Slot : s = n => HeaderAt(s)' = fpos
      BY <1>1, <1>3, <2>1, <2>2 DEF HeaderAt
    <2>6. \A s \in Slot : HeaderAt(s)' = HeaderAt(s)
      BY <1>1, <1>3, <2>1, <2>2, WorkersNatural DEF HeaderAt
    <2>7. ASSUME NEW s \in Slot, s < n'
          PROVE  Holds(s, file[HeaderAt(s)], file[HeaderAt(s) + 1])'
      <3>1. CASE s = n
        <4>1. buffers'[s] = file'[fpos + 1].body
          BY <1>1, <1>3, <2>1, <3>1 DEF IInv, TypeOK
        <4>2. HeaderAt(s)' = fpos
          BY <2>5, <3>1
        <4>3. origSizes'[s] = file'[fpos].origSize
          BY <1>1, <3>1 DEF IInv, Position
        <4> QED  BY <2>2, <4>1, <4>2, <4>3 DEF Holds
      <3>2. CASE s # n
        <4>1. s < n
          BY <1>1, <1>3, <2>7, <3>2, WorkersNatural
        <4>2. buffers'[s] = buffers[s]
          BY <1>1, <1>3, <3>2 DEF IInv, TypeOK
        <4>3. Holds(s, file[HeaderAt(s)], file[HeaderAt(s) + 1])
          BY <1>1, <4>1 DEF IInv, Position, InRound
        <4> QED  BY <1>1, <2>2, <2>6, <4>2, <4>3 DEF Holds
      <3> QED  BY <3>1, <3>2
    <2>8. Position'
      <3>1. 2 * n' + (IF pc' = "payload" THEN 1 ELSE 0) <= fpos'
        BY <1>1, <1>3, <2>1, <2>2
      <3>2. /\ pc' \in {"read", "spawn"} /\ n' > 0 /\ (pc' = "read" => n' < Workers)
        BY <1>1, <1>3, <2>2, WorkersNatural
      <3> QED  BY <1>1, <2>7, <3>1, <3>2 DEF Position
    <2> QED  BY <2>4, <2>8 DEF IInv
  <1> QED  BY <1>2, <1>3 DEF ReadPayload

-----------------------------------------------------------------------------
LEMMA SpawnInv == ASSUME IInv, Spawn PROVE IInv'
  <1>1. /\ pc = "spawn" /\ pc' = "wait"
        /\ \A s \in Slot : worker'[s] = IF s < n THEN "started" ELSE "none"
        /\ UNCHANGED <<file, fpos, blockSize, eof, ioErr, buffers, newSizes, origSizes, dSizes,
                       errs, n, i, out, result>>
    BY DEF Spawn, Goto, input
  <1>2. TypeOK'
    BY <1>1 DEF Spawn, IInv, TypeOK
  <1>3. \A s \in Slot : HeaderAt(s)' = HeaderAt(s)
    BY <1>1 DEF HeaderAt
  <1>4. \A s \in Slot : s < n' => Holds(s, file[HeaderAt(s)], file[HeaderAt(s) + 1])'
    BY <1>1, <1>3 DEF IInv, Position, InRound, Holds
  <1>5. Position'
    BY <1>1, <1>4 DEF IInv, Position, InRound
  <1> QED  BY <1>2, <1>5 DEF IInv

(* A goroutine decodes what its slot holds, or fails. *)
LEMMA GoroutineInv == ASSUME IInv, NEW s \in Slot, Goroutine(s) PROVE IInv'
  <1>1. PICK d \in DecodeResults(buffers[s], origSizes[s], blockSize) :
          /\ errs' = [errs EXCEPT ![s] = d.err]
          /\ dSizes' = [dSizes EXCEPT ![s] = IF d.err = "nil" THEN Len(d.data) ELSE -1]
          /\ buffers' = [buffers EXCEPT ![s] = IF d.err = "nil" THEN Raw(d.data) ELSE Junk]
    BY DEF Goroutine
  <1>2. /\ worker[s] = "started" /\ pc = "wait" /\ s < n
        /\ worker' = [worker EXCEPT ![s] = "done"]
        /\ UNCHANGED <<file, fpos, blockSize, eof, ioErr, newSizes, origSizes, n, i, pc, result,
                       out>>
    BY DEF Goroutine, input, IInv, Position
  <1>3. d.err \in {"nil", "crc"} /\ (d.err = "nil" => d.data = buffers[s].data)
    BY DEF DecodeResults, Refused, Decoded
  <1>4. buffers[s].data \in Seq(Byte) /\ Len(buffers[s].data) \in Nat
    BY LenProperties DEF IInv, TypeOK, BufferContent
  <1>5. Raw(buffers[s].data) \in BufferContent /\ Junk \in BufferContent
    BY <1>4, EmptySeq DEF Raw, Junk, BufferContent
  <1>6. TypeOK'
    BY <1>1, <1>2, <1>3, <1>4, <1>5 DEF IInv, TypeOK
  <1>7. \A r \in Slot : HeaderAt(r)' = HeaderAt(r)
    BY <1>2 DEF HeaderAt
  <1>8. ASSUME NEW r \in Slot, r < n
        PROVE  Holds(r, file[HeaderAt(r)], file[HeaderAt(r) + 1])'
    <2>1. Holds(r, file[HeaderAt(r)], file[HeaderAt(r) + 1])
      BY <1>2, <1>8 DEF IInv, Position, InRound
    <2>2. CASE r = s
      <3>1. /\ worker'[r] = "done" /\ errs'[r] = d.err
            /\ d.err = "nil" => buffers'[r] = Raw(d.data) /\ dSizes'[r] = Len(d.data)
        BY <1>1, <1>2, <2>2 DEF IInv, TypeOK
      <3>2. buffers[r] = file[HeaderAt(r) + 1].body
        BY <1>2, <2>1, <2>2 DEF Holds
      <3> QED  BY <1>2, <1>3, <1>7, <2>1, <2>2, <3>1, <3>2 DEF Holds
    <2>3. CASE r # s
      <3>1. /\ worker'[r] = worker[r] /\ errs'[r] = errs[r]
            /\ buffers'[r] = buffers[r] /\ dSizes'[r] = dSizes[r]
        BY <1>1, <1>2, <2>3 DEF IInv, TypeOK
      <3> QED  BY <1>2, <1>7, <2>1, <3>1 DEF Holds
    <2> QED  BY <2>2, <2>3
  <1>9. Position'
    <2>1. \A r \in Slot : worker'[r] = "started" => r < n
      BY <1>2 DEF IInv, TypeOK, Position
    <2> QED  BY <1>2, <1>8, <2>1 DEF IInv, Position, InRound
  <1> QED  BY <1>6, <1>9 DEF IInv

LEMMA WaitInv == ASSUME IInv, Wait PROVE IInv'
  <1>1. /\ pc = "wait" /\ pc' = "write" /\ i' = 0 /\ n > 0
        /\ \A s \in Slot : worker[s] # "started"
        /\ UNCHANGED <<file, fpos, blockSize, eof, ioErr, buffers, newSizes, origSizes, dSizes,
                       errs, worker, n, out, result>>
    BY DEF Wait, AllDone, Goto, input, slots, IInv, Position
  <1>2. TypeOK'
    BY <1>1, WorkersNatural DEF IInv, TypeOK
  <1>3. \A s \in Slot : HeaderAt(s)' = HeaderAt(s)
    BY <1>1 DEF HeaderAt
  <1>4. \A s \in Slot : s < n' => Holds(s, file[HeaderAt(s)], file[HeaderAt(s) + 1])'
    BY <1>1, <1>3 DEF IInv, Position, InRound, Holds
  <1>5. Position'
    BY <1>1, <1>4 DEF IInv, Position, InRound
  <1> QED  BY <1>2, <1>5 DEF IInv

(* What is written is a beginning of the decoded block. *)
LEMMA WriteInv == ASSUME IInv, Write PROVE IInv'
  <1>1. /\ pc = "write" /\ n \in Nat /\ i \in Slot /\ i < n /\ n <= Workers
        /\ \A s \in Slot : worker[s] # "started"
        /\ UNCHANGED <<file, fpos, blockSize, eof, buffers, newSizes, origSizes, dSizes, errs,
                       worker>>
    <2>1. pc = "write"
      BY DEF Write
    <2>2. n \in 0..Workers /\ i \in Slot /\ i < n
      BY <2>1 DEF IInv, TypeOK, Position
    <2> QED  BY <2>1, <2>2, WorkersNatural DEF Write, slots, IInv, Position
  <1>2. CASE /\ pc' = "returned" /\ UNCHANGED <<out, n, i, ioErr>>
             /\ result' \in {"nil", "crc", "malformed"}
    <2>1. TypeOK'
      BY <1>1, <1>2 DEF IInv, TypeOK
    <2> QED  BY <1>1, <1>2, <2>1, ReturnInv
  <1> DEFINE c == file[HeaderAt(i) + 1].body.data
  <1>3. CASE errs[i] = "nil" /\ dSizes[i] = origSizes[i]
    <2>1. /\ buffers[i].data \in Seq(Byte) /\ Len(buffers[i].data) = origSizes[i]
          /\ origSizes[i] \in Nat
      <3>1. Holds(i, file[HeaderAt(i)], file[HeaderAt(i) + 1])
        BY <1>1 DEF IInv, Position, InRound
      <3>2. buffers[i] = Raw(c) /\ dSizes[i] = Len(c)
        BY <1>1, <1>3, <3>1 DEF Holds
      <3>3. buffers[i].data = c
        BY <3>2 DEF Raw
      <3>4. buffers[i].data \in Seq(Byte)
        BY <1>1 DEF IInv, TypeOK, BufferContent
      <3> QED  BY <1>3, <3>2, <3>3, <3>4, LenProperties
    <2>2. \A k \in 0..origSizes[i] :
            Append(out, SubSeq(buffers[i].data, 1, k)) \in Seq(Seq(Byte))
      <3>1. \A k \in 0..origSizes[i] : SubSeq(buffers[i].data, 1, k) \in Seq(Byte)
        BY <2>1, SubSeqProperties, ElementOfSeq
      <3> QED  BY <3>1, AppendProperties DEF IInv, TypeOK
    <2>3. CASE /\ out' = Append(out, SubSeq(buffers[i].data, 1, origSizes[i]))
               /\ IF i + 1 < n
                    THEN i' = i + 1 /\ Goto("write") /\ UNCHANGED n
                    ELSE /\ IF eof THEN Return("nil") ELSE Goto("read")
                         /\ n' = 0
                         /\ i' = 0
               /\ UNCHANGED ioErr
      <3>1. out' \in Seq(Seq(Byte))
        BY <2>1, <2>2, <2>3
      <3>2. CASE i + 1 < n
        <4>1. i' = i + 1 /\ pc' = "write" /\ UNCHANGED <<n, result>> /\ i + 1 \in Slot
          BY <1>1, <2>3, <3>2, WorkersNatural DEF Goto
        <4>2. TypeOK'
          BY <1>1, <2>3, <3>1, <4>1 DEF IInv, TypeOK
        <4>3. \A s \in Slot : HeaderAt(s)' = HeaderAt(s)
          BY <1>1, <4>1 DEF HeaderAt
        <4>4. \A s \in Slot : s < n' => Holds(s, file[HeaderAt(s)], file[HeaderAt(s) + 1])'
          BY <1>1, <4>1, <4>3 DEF IInv, Position, InRound, Holds
        <4>5. Position'
          BY <1>1, <3>2, <4>1, <4>4 DEF IInv, Position, InRound
        <4> QED  BY <4>2, <4>5 DEF IInv
      <3>3. CASE ~(i + 1 < n)
        <4>1. /\ n' = 0 /\ i' = 0
              /\ \/ pc' = "returned" /\ result' = "nil"
                 \/ pc' = "read" /\ result' = result
          BY <2>3, <3>3 DEF Goto, Return
        <4>2. TypeOK'
          <5>1. n' \in 0..Workers /\ i' \in Slot
            BY <4>1, WorkersNatural
          <5>2. pc' \in {"returned", "read"} /\ (result' = "nil" \/ result' = result)
            BY <4>1
          <5> QED  BY <1>1, <2>3, <3>1, <5>1, <5>2 DEF IInv, TypeOK
        <4>3. \A s \in Slot : ~(s < n')
          BY <4>1, WorkersNatural
        <4>4. 0 < Workers /\ 2 * n' + 0 <= fpos'
          BY <1>1, <4>1, WorkersNatural DEF IInv, TypeOK
        <4>5. Position'
          BY <1>1, <4>1, <4>3, <4>4 DEF Position, InRound
        <4> QED  BY <4>2, <4>5 DEF IInv
      <3> QED  BY <3>2, <3>3
    <2>4. CASE /\ \E k \in 0..origSizes[i] :
                     out' = IF k = 0 THEN out ELSE Append(out, SubSeq(buffers[i].data, 1, k))
               /\ IoError
               /\ Return("writeErr")
               /\ UNCHANGED <<n, i>>
      <3>1. out' \in Seq(Seq(Byte))
        BY <2>2, <2>4 DEF IInv, TypeOK
      <3>2. TypeOK'
        BY <1>1, <2>4, <3>1 DEF IoError, Return, IInv, TypeOK
      <3> QED  BY <1>1, <2>4, <3>2, ReturnInv DEF Return
    <2> QED  BY <1>3, <2>3, <2>4 DEF Write
  <1>4. errs[i] \in {"nil", "crc"}
    BY <1>1 DEF IInv, TypeOK
  <1> QED  BY <1>2, <1>3, <1>4 DEF Write, Return

-----------------------------------------------------------------------------
LEMMA StutterInv == ASSUME IInv, UNCHANGED vars PROVE IInv'
  BY DEF IInv, TypeOK, Position, InRound, Holds, HeaderAt, vars

(***************************************************************************)
(* Whatever the file and the order of the goroutines, the slots of a round *)
(* hold its blocks, first as they are in the file, then decoded, and a     *)
(* goroutine only works while the main one waits (cmd/bzip3/main.go,       *)
(* decompressParallel).                                                    *)
(***************************************************************************)
THEOREM DecompressInvariant == Spec => []IInv
  <1>1. Init => IInv
    BY InitInv
  <1>2. IInv /\ [Next]_vars => IInv'
    <2> SUFFICES ASSUME IInv, [Next]_vars PROVE IInv'
      OBVIOUS
    <2>1. CASE ReadHeader
      BY <2>1, ReadHeaderInv
    <2>2. CASE ReadBlockHeader
      BY <2>2, ReadBlockHeaderInv
    <2>3. CASE ReadPayload
      BY <2>3, ReadPayloadInv
    <2>4. CASE Spawn
      BY <2>4, SpawnInv
    <2>5. CASE \E s \in Slot : Goroutine(s)
      BY <2>5, GoroutineInv
    <2>6. CASE Wait
      BY <2>6, WaitInv
    <2>7. CASE Write
      BY <2>7, WriteInv
    <2>8. CASE Returned \/ UNCHANGED vars
      BY <2>8, StutterInv DEF Returned
    <2> QED  BY <2>1, <2>2, <2>3, <2>4, <2>5, <2>6, <2>7, <2>8 DEF Next, Main
  <1> QED  BY <1>1, <1>2, PTL DEF Spec

(* No block is written but by the round that read it and after the goroutine *)
(* that decoded it has ended; what is written is the block of the file whose *)
(* turn it is.                                                               *)
THEOREM BarrierIsKept == Spec => []Inv
  <1>1. IInv => Inv
    <2> SUFFICES ASSUME IInv PROVE BarrierHolds
      BY DEF IInv, Inv
    <2>1. CASE pc = "write"
      <3>1. n \in Nat /\ n <= Workers /\ i < n
        BY <2>1, WorkersNatural DEF IInv, TypeOK, Position
      <3>2. ASSUME NEW s \in 0..n - 1
            PROVE  /\ worker[s] = "done"
                   /\ origSizes[s] = file[fpos - 2 * (n - s) + 1].origSize
                   /\ errs[s] = "nil" =>
                        buffers[s] = Raw(file[fpos - 2 * (n - s) + 2].body.data)
        <4>1. s \in Slot /\ s < n
          BY <3>1, WorkersNatural
        <4>2. HeaderAt(s) = fpos - 2 * (n - s) + 1 /\ HeaderAt(s) + 1 = fpos - 2 * (n - s) + 2
          BY <2>1, <3>1 DEF HeaderAt, IInv, TypeOK
        <4>3. Holds(s, file[HeaderAt(s)], file[HeaderAt(s) + 1])
          BY <2>1, <4>1 DEF IInv, Position, InRound
        <4> QED  BY <2>1, <4>1, <4>2, <4>3 DEF Holds, IInv, Position
      <3> QED  BY <2>1, <3>1, <3>2 DEF BarrierHolds, IInv, Position
    <2>2. CASE pc # "write"
      BY <2>2 DEF BarrierHolds, IInv, Position
    <2> QED  BY <2>1, <2>2
  <1> QED  BY <1>1, DecompressInvariant, PTL

-----------------------------------------------------------------------------
(* Blocks written in the round in hand, and before it. *)
Written == IF pc = "write" THEN i ELSE 0
Base    == Len(out) - Written

(* What is known of the block with header h and compressed block c, read    *)
(* into slot s: it passed the check of the sizes, and once it has been      *)
(* decoded, errs tells whether it could be.                                 *)
Judged(s, h, c) ==
  /\ SizesInBounds(h, blockSize)
  /\ c.kind = "payload"
  /\ pc \in {"wait", "write"} /\ worker[s] = "done" =>
       IF errs[s] = "nil" THEN c.body.tag = "enc" /\ Len(c.body.data) <= blockSize
       ELSE \/ c.body.tag # "enc"
            \/ Len(c.body.data) > blockSize
            \/ Len(c.body.data) # h.origSize

AllJudged == \A s \in Slot : s < n => Judged(s, file[HeaderAt(s)], file[HeaderAt(s) + 1])

(* The blocks written are the first of the file, and they are good. *)
OutIsGood ==
  /\ HeaderGood(file) /\ blockSize = file[1].blockSize
  /\ GoodUpTo(file, Len(out))
  /\ out = [k \in 1..Len(out) |-> BlockData(file, k)]

(* The rounds before this one were full. *)
RoundsDone ==
  /\ Base \in Nat
  /\ \E q \in Nat : Base = Workers * q
  /\ fpos = 1 + 2 * (Base + n) + (IF pc = "payload" THEN 1 ELSE 0)

Running ==
  /\ pc # "returned" => result = "none" /\ ~ioErr
  /\ pc = "header" => fpos = 0 /\ out = <<>>
  /\ pc = "payload" => SizesInBounds(file[fpos], blockSize)
  /\ pc \in {"header", "read", "payload"} => ~eof
  /\ pc \in {"spawn", "wait", "write"} => n = Workers \/ eof
  /\ eof => fpos = Len(file)

Progress == Running /\ (InRound => OutIsGood /\ RoundsDone /\ AllJudged)

(* What the result says of the file, and of the blocks written. *)
Verdict ==
  pc = "returned" /\ ~ioErr =>
    /\ result \notin {"none", "readErr", "writeErr"}
    /\ result = "nil" => Intact(file) /\ FlattenSeq(out) = Content(file)
    /\ result # "nil" => ~Intact(file)
    /\ LossIsBounded

-----------------------------------------------------------------------------
LEMMA TheFile ==
  ASSUME TypeOK
  PROVE  /\ IsFile(file) /\ Len(file) \in Nat /\ fpos \in Nat /\ fpos <= Len(file)
         /\ out \in Seq(Seq(Byte)) /\ Len(out) \in Nat
         /\ n \in Nat /\ n <= Workers /\ i \in Nat /\ Workers \in Nat \ {0}
  <1>1. IsFile(file) /\ Len(file) \in Nat
    BY FilesAssumption, FileProperties DEF TypeOK
  <1>2. out \in Seq(Seq(Byte)) /\ Len(out) \in Nat
    BY LenProperties DEF TypeOK
  <1>3. n \in 0..Workers /\ i \in Slot /\ fpos \in 0..Len(file)
    BY DEF TypeOK
  <1> QED  BY <1>1, <1>2, <1>3, WorkersNatural

LEMMA InitProgress == Init => Progress /\ Verdict
  BY DEF Init, Progress, Running, InRound, Verdict

(* A block that cannot be read: the round before it is the last one written. *)
LEMMA ReadFault ==
  ASSUME IInv, Progress, pc \in {"read", "payload"}, ~BlockGood(file, Base + n + 1),
         Len(file) >= 2 + 2 * (Base + n), UNCHANGED <<file, out>>,
         result' \notin {"none", "nil", "readErr", "writeErr"}
  PROVE  Verdict'
  <1>1. /\ IsFile(file) /\ Len(out) \in Nat /\ n \in Nat /\ n < Workers /\ Base = Len(out)
        /\ Workers \in Nat \ {0} /\ Len(file) \in Nat
    BY TheFile, SMTT(40) DEF IInv, Base, Written, Position
  <1>2. PICK q \in Nat : Len(out) = Workers * q
    BY <1>1 DEF Progress, InRound, RoundsDone
  <1>3. HeaderGood(file) /\ GoodUpTo(file, Len(out))
    BY DEF Progress, InRound, OutIsGood
  <1> DEFINE good == GoodBlocks(file)
             m    == Len(out) + n
  <1>4. good \in Nat /\ Len(out) <= good /\ good <= m
    <2>1. m \in Nat /\ ~BlockGood(file, m + 1)
      BY <1>1
    <2> HIDE DEF m
    <2>2. good \in Nat /\ good <= m
      BY <1>1, <1>3, <2>1, GoodAtMost
    <2>3. Len(out) <= good
      BY <1>1, <1>3, GoodBlocksProperties
    <2> QED  BY <2>2, <2>3
  <1> HIDE DEF good
  <1>5. Workers * (good \div Workers) = Len(out)
    <2>1. Workers * q <= good /\ good < Workers * q + Workers
      BY <1>1, <1>2, <1>4
    <2> QED  BY <1>1, <1>2, <1>4, <2>1, QuotientOfSum
  <1>6. ~Intact(file)
    BY <1>1, <1>4 DEF Intact, good
  <1>7. LossIsBounded'
    BY <1>5 DEF LossIsBounded, good
  <1> QED  BY <1>6, <1>7 DEF Verdict

-----------------------------------------------------------------------------
(* Without a good stream header there is nothing in the file. *)
LEMMA ReadHeaderVerdict ==
  ASSUME IInv, Progress, ReadHeader, pc' = "returned" PROVE Verdict'
  <1>1. pc = "header" /\ fpos = 0 /\ out = <<>> /\ ~ioErr /\ UNCHANGED <<file, out>>
    BY DEF ReadHeader, Progress, Running
  <1>2. file \in Seq(FileSegments) /\ Len(file) \in Nat
    BY TheFile, FileProperties DEF IInv, FileSegments
  <1>3. CASE ioErr'
    BY <1>3 DEF Verdict
  <1>4. CASE ~ioErr'
    <2>1. result' = "malformed" /\ ~HeaderGood(file)
      <3>1. CASE AtEnd \/ Short
        BY <1>1, <1>2, <1>4, <3>1, EmptySeq
           DEF ReadHeader, Return, IoError, Whole, AtEnd, Short, Seg, HeaderGood, Part
      <3>2. CASE ~(AtEnd \/ Short)
        BY <1>1, <1>2, <1>4, <3>2
           DEF ReadHeader, Return, Goto, IoError, AtEnd, Short, Seg, HeaderGood
      <3> QED  BY <3>1, <3>2
    <2>2. ~Intact(file) /\ GoodBlocks(file) = 0
      BY <2>1 DEF Intact, GoodBlocks
    <2>3. Len(out) = 0
      BY <1>1
    <2>4. LossIsBounded'
      BY <1>1, <2>2, <2>3 DEF LossIsBounded
    <2> QED  BY <1>1, <2>1, <2>2, <2>4 DEF Verdict
  <1> QED  BY <1>3, <1>4

LEMMA ReadHeaderProgress == ASSUME IInv, Progress, ReadHeader PROVE Progress'
  <1>1. /\ pc = "header" /\ fpos = 0 /\ out = <<>> /\ ~ioErr /\ ~eof /\ n = 0
        /\ UNCHANGED <<file, eof, slots, n, i, out>>
    BY DEF ReadHeader, Progress, Running, IInv, Position
  <1>2. CASE pc' = "returned"
    BY <1>1, <1>2 DEF Progress, Running, InRound
  <1>3. CASE pc' # "returned"
    <2>1. /\ Whole("header") /\ fpos' = 1 /\ blockSize' = Seg.blockSize /\ Seg.magic
          /\ ValidBlockSize(Seg.blockSize) /\ pc' = "read" /\ result' = result /\ ~ioErr'
      BY <1>1, <1>3 DEF ReadHeader, Return, Goto, Consume
    <2>2. Seg = file[1] /\ file # <<>> /\ Seg.kind = "header"
      BY <1>1, <2>1 DEF Seg, Whole, AtEnd
    <2>3. OutIsGood'
      <3>1. GoodUpTo(file, 0) /\ <<>> = [k \in 1..0 |-> BlockData(file, k)] /\ Len(out) = 0
        BY <1>1 DEF GoodUpTo
      <3> QED  BY <1>1, <2>1, <2>2, <3>1 DEF OutIsGood, HeaderGood
    <2>4. RoundsDone'
      <3>1. Base' = 0 /\ 0 = Workers * 0
        BY <1>1, <2>1, WorkersNatural DEF Base, Written
      <3> QED  BY <1>1, <2>1, <3>1 DEF RoundsDone
    <2>5. AllJudged'
      BY <1>1, WorkersNatural DEF AllJudged
    <2>6. Running'
      BY <1>1, <2>1 DEF Progress, Running
    <2> QED  BY <2>3, <2>4, <2>5, <2>6 DEF Progress
  <1> QED  BY <1>2, <1>3

-----------------------------------------------------------------------------
(* Where the main goroutine is in the file while it reads a round. *)
LEMMA AtRead ==
  ASSUME IInv, Progress, pc \in {"read", "payload"}
  PROVE  /\ Base = Len(out) /\ Base \in Nat /\ n \in Nat /\ n < Workers
         /\ fpos = 1 + 2 * (Base + n) + (IF pc = "payload" THEN 1 ELSE 0)
         /\ HeaderGood(file) /\ blockSize = file[1].blockSize
         /\ IsFile(file) /\ Len(file) \in Nat /\ fpos \in Nat /\ fpos <= Len(file)
  BY TheFile DEF IInv, Position, Progress, InRound, RoundsDone, OutIsGood, Base, Written

LEMMA ReadBlockHeaderVerdict ==
  ASSUME IInv, Progress, ReadBlockHeader, pc' = "returned" PROVE Verdict'
  <1>1. pc = "read" /\ ~ioErr /\ UNCHANGED <<file, out, n>>
    BY DEF ReadBlockHeader, Progress, Running
  <1> DEFINE m == Base + n
             j == fpos + 1
  <1>2. /\ m \in Nat /\ fpos = 1 + 2 * m /\ j = 2 * m + 2 /\ HeaderGood(file) /\ IsFile(file)
        /\ blockSize = file[1].blockSize
        /\ Len(file) \in Nat /\ fpos \in Nat /\ fpos <= Len(file) /\ Base = Len(out)
        /\ n \in Nat
    BY <1>1, AtRead
  <1> HIDE DEF m, j
  <1>3. CASE ioErr'
    BY <1>3 DEF Verdict
  <1>4. CASE ~ioErr' /\ AtEnd
    <2>1. n = 0 /\ result' = "nil"
      BY <1>1, <1>4 DEF ReadBlockHeader, Return, Goto, IoError, Short, Whole
    <2>2. m = Len(out) /\ Len(file) = 1 + 2 * m
      BY <1>2, <1>4, <2>1 DEF m, AtEnd
    <2>3. GoodUpTo(file, m)
      BY <1>1, <2>2 DEF Progress, InRound, OutIsGood
    <2>4. GoodBlocks(file) = m
      BY <1>2, <2>2, <2>3, FaultAt
    <2>5. FlattenSeq(out) = Content(file) /\ Intact(file)
      BY <1>1, <1>2, <2>2, <2>4, FlattenBlocks
         DEF Content, Intact, Progress, InRound, OutIsGood
    <2> QED  BY <1>1, <2>1, <2>5 DEF Verdict, LossIsBounded, Status
  <1>5. CASE ~ioErr' /\ ~AtEnd
    <2>1. /\ result' \in {"truncated", "malformed"}
          /\ file[j] = Part \/ ~SizesInBounds(file[j], blockSize)
      BY <1>1, <1>5 DEF ReadBlockHeader, Return, Goto, IoError, Short, Whole, Seg, j
    <2>2. j \in 1..Len(file) /\ Len(file) >= 2 + 2 * m
      BY <1>2, <1>5 DEF AtEnd, j
    <2>3. ~BlockGood(file, m + 1)
      BY <1>2, <2>1, <2>2, FaultyBlock
    <2> QED  BY <1>1, <2>1, <2>2, <2>3, ReadFault DEF m
  <1> QED  BY <1>3, <1>4, <1>5

LEMMA ReadBlockHeaderProgress ==
  ASSUME IInv, Progress, ReadBlockHeader PROVE Progress'
  <1>1. /\ pc = "read" /\ ~ioErr /\ ~eof /\ result = "none"
        /\ UNCHANGED <<file, blockSize, buffers, dSizes, errs, worker, n, i, out>>
    BY DEF ReadBlockHeader, Progress, Running
  <1>2. CASE pc' = "returned"
    BY <1>1, <1>2 DEF Progress, Running, InRound, ReadBlockHeader, AtEnd, IInv, TypeOK
  <1>3. CASE pc' # "returned"
    <2>1. /\ n \in Nat /\ Base \in Nat /\ fpos \in Nat /\ fpos = 1 + 2 * (Base + n)
      BY <1>1, AtRead
    <2>2. /\ \/ /\ pc' = "spawn" /\ fpos' = fpos /\ eof' /\ AtEnd
             \/ /\ pc' = "payload" /\ fpos' = fpos + 1 /\ ~eof'
                /\ SizesInBounds(file[fpos + 1], blockSize)
          /\ result' = result /\ ~ioErr'
      BY <1>1, <1>3 DEF ReadBlockHeader, Return, Goto, Consume, Seg
    <2>3. Running'
      BY <1>1, <2>1, <2>2 DEF Progress, Running, AtEnd
    <2>4. Base' = Base
      BY <1>1, <2>2 DEF Base, Written
    <2>5. RoundsDone'
      BY <1>1, <2>1, <2>2, <2>4 DEF Progress, InRound, RoundsDone
    <2>6. OutIsGood'
      BY <1>1 DEF Progress, InRound, OutIsGood
    <2>7. \A s \in Slot : HeaderAt(s)' = HeaderAt(s)
      BY <1>1, <2>1, <2>2, WorkersNatural DEF HeaderAt
    <2>8. AllJudged'
      BY <1>1, <2>2, <2>7 DEF Progress, InRound, AllJudged, Judged
    <2> QED  BY <2>3, <2>5, <2>6, <2>8 DEF Progress
  <1> QED  BY <1>2, <1>3

LEMMA ReadPayloadVerdict ==
  ASSUME IInv, Progress, ReadPayload, pc' = "returned" PROVE Verdict'
  <1>1. pc = "payload" /\ ~ioErr /\ UNCHANGED <<file, out>>
    BY DEF ReadPayload, Progress, Running
  <1> DEFINE m == Base + n
  <1>2. /\ m \in Nat /\ fpos = 2 * m + 2 /\ HeaderGood(file) /\ IsFile(file)
        /\ Len(file) \in Nat /\ fpos \in Nat /\ fpos <= Len(file)
    BY <1>1, AtRead
  <1> HIDE DEF m
  <1>3. CASE ioErr'
    BY <1>3 DEF Verdict
  <1>4. CASE ~ioErr'
    <2>1. result' = "truncated" /\ (AtEnd \/ Short)
      BY <1>1, <1>4 DEF ReadPayload, Return, Goto, IoError, RoundFull
    <2>2. Len(file) < fpos + 1 \/ file[fpos + 1] = Part
      BY <1>2, <2>1 DEF AtEnd, Short, Seg
    <2>3. ~BlockGood(file, m + 1)
      BY <1>2, <2>2, FaultyBlock
    <2>4. Len(file) >= 2 + 2 * m
      BY <1>2
    <2> QED  BY <1>1, <2>1, <2>3, <2>4, ReadFault DEF m
  <1> QED  BY <1>3, <1>4

LEMMA ReadPayloadProgress ==
  ASSUME IInv, Progress, ReadPayload PROVE Progress'
  <1>1. /\ pc = "payload" /\ ~ioErr /\ ~eof /\ result = "none"
        /\ UNCHANGED <<file, blockSize, eof, newSizes, origSizes, dSizes, errs, worker, i, out>>
    BY DEF ReadPayload, Progress, Running
  <1>2. CASE pc' = "returned"
    BY <1>1, <1>2 DEF Progress, Running, InRound
  <1>3. CASE pc' # "returned"
    <2>1. /\ n \in Nat /\ Base \in Nat /\ fpos \in Nat /\ fpos = 2 + 2 * (Base + n)
          /\ n < Workers
      BY <1>1, AtRead
    <2>2. /\ fpos' = fpos + 1 /\ n' = n + 1 /\ file[fpos + 1].kind = "payload"
          /\ pc' = (IF n + 1 = Workers THEN "spawn" ELSE "read")
          /\ result' = result /\ ~ioErr'
      BY <1>1, <1>3 DEF ReadPayload, Return, Goto, Consume, Whole, Seg, RoundFull
    <2>3. Running'
      BY <1>1, <2>1, <2>2 DEF Running
    <2>4. Base' = Base
      BY <1>1, <2>2 DEF Base, Written
    <2>5. RoundsDone'
      <3>1. fpos' = 1 + 2 * (Base' + n')
        BY <2>1, <2>2, <2>4
      <3> QED  BY <1>1, <2>1, <2>2, <2>4, <3>1 DEF Progress, InRound, RoundsDone
    <2>6. OutIsGood'
      BY <1>1 DEF Progress, InRound, OutIsGood
    <2>7. \A s \in Slot : HeaderAt(s)' = HeaderAt(s) /\ (s = n => HeaderAt(s)' = fpos)
      BY <1>1, <2>1, <2>2, WorkersNatural DEF HeaderAt
    <2>8. ASSUME NEW s \in Slot, s < n'
          PROVE  Judged(s, file[HeaderAt(s)], file[HeaderAt(s) + 1])'
      <3>1. CASE s = n
        <4>1. SizesInBounds(file[fpos], blockSize)
          BY <1>1 DEF Progress, Running
        <4>2. HeaderAt(s)' = fpos /\ pc' \notin {"wait", "write"}
          BY <2>2, <2>7, <3>1
        <4> QED  BY <1>1, <2>2, <4>1, <4>2 DEF Judged
      <3>2. CASE s # n
        <4>1. s < n
          BY <2>1, <2>2, <2>8, <3>2, WorkersNatural
        <4>2. Judged(s, file[HeaderAt(s)], file[HeaderAt(s) + 1])
          BY <1>1, <4>1 DEF Progress, InRound, AllJudged
        <4>3. HeaderAt(s)' = HeaderAt(s) /\ pc' \notin {"wait", "write"}
          BY <2>2, <2>7
        <4> QED  BY <1>1, <4>2, <4>3 DEF Judged
      <3> QED  BY <3>1, <3>2
    <2> QED  BY <2>3, <2>5, <2>6, <2>8 DEF Progress, AllJudged
  <1> QED  BY <1>2, <1>3

-----------------------------------------------------------------------------
LEMMA SpawnProgress == ASSUME IInv, Progress, Spawn PROVE Progress'
  <1>1. /\ pc = "spawn" /\ pc' = "wait"
        /\ \A s \in Slot : s < n => worker'[s] # "done"
        /\ UNCHANGED <<file, fpos, blockSize, eof, ioErr, buffers, newSizes, origSizes, dSizes,
                       errs, n, i, out, result>>
    BY DEF Spawn, Goto, input
  <1>2. Base' = Base /\ \A s \in Slot : HeaderAt(s)' = HeaderAt(s)
    BY <1>1 DEF Base, Written, HeaderAt
  <1>3. Running' /\ OutIsGood' /\ RoundsDone'
    BY <1>1, <1>2 DEF Progress, InRound, Running, OutIsGood, RoundsDone
  <1>4. AllJudged'
    BY <1>1, <1>2 DEF Progress, InRound, AllJudged, Judged
  <1> QED  BY <1>3, <1>4 DEF Progress

LEMMA GoroutineProgress == ASSUME IInv, Progress, NEW s \in Slot, Goroutine(s) PROVE Progress'
  <1>1. /\ worker[s] = "started" /\ pc = "wait" /\ s < n
        /\ worker' = [worker EXCEPT ![s] = "done"]
        /\ UNCHANGED <<file, fpos, blockSize, eof, ioErr, newSizes, origSizes, n, i, pc, result,
                       out>>
    BY DEF Goroutine, input, IInv, Position
  <1>2. Base' = Base /\ \A r \in Slot : HeaderAt(r)' = HeaderAt(r)
    BY <1>1 DEF Base, Written, HeaderAt
  <1>3. Running' /\ OutIsGood' /\ RoundsDone'
    BY <1>1, <1>2 DEF Progress, InRound, Running, OutIsGood, RoundsDone
  <1>4. ASSUME NEW r \in Slot, r < n
        PROVE  Judged(r, file[HeaderAt(r)], file[HeaderAt(r) + 1])'
    <2>1. Judged(r, file[HeaderAt(r)], file[HeaderAt(r) + 1])
      BY <1>1, <1>4 DEF Progress, InRound, AllJudged
    <2>2. CASE r = s
      <3> DEFINE h == file[HeaderAt(r)]
                 c == file[HeaderAt(r) + 1]
      <3>1. PICK d \in DecodeResults(buffers[s], origSizes[s], blockSize) :
              errs' = [errs EXCEPT ![s] = d.err]
        BY DEF Goroutine
      <3>2. errs'[s] = d.err /\ d \in DecodeResults(c.body, h.origSize, blockSize)
        <4>1. Holds(r, h, c)
          BY <1>1, <2>2 DEF IInv, Position, InRound
        <4> QED  BY <1>1, <2>2, <3>1, <4>1 DEF Holds, IInv, TypeOK
      <3>3. /\ Len(c.body.data) \in Nat /\ blockSize \in Int
            /\ SizesInBounds(h, blockSize) /\ c.kind = "payload"
        <4>1. buffers[s] = c.body /\ buffers[s].data \in Seq(Byte)
          BY <1>1, <2>2 DEF IInv, Position, InRound, Holds, TypeOK, BufferContent
        <4>2. blockSize \in Int
          BY FormatAssumption DEF IInv, TypeOK
        <4> QED  BY <2>1, <4>1, <4>2, LenProperties DEF Judged
      <3> HIDE DEF h, c
      <3>4. IF d.err = "nil" THEN c.body.tag = "enc" /\ Len(c.body.data) <= blockSize
            ELSE \/ c.body.tag # "enc"
                 \/ Len(c.body.data) > blockSize
                 \/ Len(c.body.data) # h.origSize
        BY <3>2, <3>3 DEF DecodeResults, Refused, Decoded
      <3> QED  BY <1>1, <1>2, <2>2, <3>2, <3>3, <3>4 DEF Judged, h, c
    <2>3. CASE r # s
      <3>1. worker'[r] = worker[r] /\ errs'[r] = errs[r]
        BY <1>1, <2>3 DEF Goroutine, IInv, TypeOK
      <3> QED  BY <1>1, <1>2, <2>1, <3>1 DEF Judged
    <2> QED  BY <2>2, <2>3
  <1> QED  BY <1>1, <1>3, <1>4 DEF Progress, AllJudged

LEMMA WaitProgress == ASSUME IInv, Progress, Wait PROVE Progress'
  <1>1. /\ pc = "wait" /\ pc' = "write" /\ i' = 0
        /\ UNCHANGED <<file, fpos, blockSize, eof, ioErr, buffers, newSizes, origSizes, dSizes,
                       errs, worker, n, out, result>>
    BY DEF Wait, Goto, input, slots
  <1>2. Base' = Base /\ \A s \in Slot : HeaderAt(s)' = HeaderAt(s)
    BY <1>1 DEF Base, Written, HeaderAt
  <1>3. Running' /\ OutIsGood' /\ RoundsDone'
    BY <1>1, <1>2 DEF Progress, InRound, Running, OutIsGood, RoundsDone
  <1>4. AllJudged'
    BY <1>1, <1>2 DEF Progress, InRound, AllJudged, Judged
  <1> QED  BY <1>1, <1>3, <1>4 DEF Progress

-----------------------------------------------------------------------------
(* The block whose turn it is to be written is the one after those written,  *)
(* and it is good exactly when it decoded to the size its header gives.      *)
LEMMA AtWrite ==
  ASSUME IInv, Progress, pc = "write"
  PROVE  /\ i \in Slot /\ i \in Nat /\ n \in Nat /\ i < n /\ Len(out) \in Nat
         /\ Len(out) = Base + i /\ Base \in Nat
         /\ fpos = 1 + 2 * (Base + n) /\ fpos <= Len(file) /\ Len(file) \in Nat
         /\ HeaderGood(file) /\ IsFile(file) /\ GoodUpTo(file, Len(out))
         /\ out \in Seq(Seq(Byte)) /\ out = [k \in 1..Len(out) |-> BlockData(file, k)]
         /\ IF errs[i] = "nil" /\ dSizes[i] = origSizes[i]
              THEN /\ BlockGood(file, Len(out) + 1)
                   /\ buffers[i].data = BlockData(file, Len(out) + 1)
                   /\ origSizes[i] = Len(buffers[i].data) /\ buffers[i].data \in Seq(Byte)
              ELSE ~BlockGood(file, Len(out) + 1)
  <1>1. /\ i \in Slot /\ i \in Nat /\ n \in Nat /\ i < n /\ Len(out) \in Nat
        /\ fpos <= Len(file) /\ Len(file) \in Nat /\ IsFile(file) /\ out \in Seq(Seq(Byte))
    BY TheFile DEF IInv, TypeOK, Position
  <1>2. /\ Len(out) = Base + i /\ Base \in Nat /\ fpos = 1 + 2 * (Base + n)
        /\ HeaderGood(file) /\ GoodUpTo(file, Len(out)) /\ blockSize = file[1].blockSize
        /\ out = [k \in 1..Len(out) |-> BlockData(file, k)]
    BY <1>1 DEF Progress, InRound, RoundsDone, OutIsGood, Base, Written
  <1> DEFINE m == Len(out)
             j == HeaderAt(i)
  <1>3. j = 2 * m + 2 /\ m \in Nat /\ j + 1 <= Len(file)
    BY <1>1, <1>2 DEF HeaderAt
  <1> HIDE DEF m, j
  <1>4. /\ worker[i] = "done" /\ origSizes[i] = file[j].origSize
        /\ errs[i] = "nil" => /\ buffers[i] = Raw(file[j + 1].body.data)
                              /\ dSizes[i] = Len(file[j + 1].body.data)
    <2>1. Holds(i, file[j], file[j + 1]) /\ worker[i] # "started"
      BY <1>1 DEF IInv, Position, InRound, j
    <2> QED  BY <2>1 DEF Holds
  <1>5. /\ SizesInBounds(file[j], blockSize) /\ file[j + 1].kind = "payload"
        /\ IF errs[i] = "nil"
             THEN file[j + 1].body.tag = "enc" /\ Len(file[j + 1].body.data) <= blockSize
             ELSE \/ file[j + 1].body.tag # "enc"
                  \/ Len(file[j + 1].body.data) > blockSize
                  \/ Len(file[j + 1].body.data) # file[j].origSize
    <2>1. Judged(i, file[j], file[j + 1])
      BY <1>1 DEF Progress, InRound, AllJudged, j
    <2> QED  BY <1>4, <2>1 DEF Judged
  <1>6. CASE errs[i] = "nil" /\ dSizes[i] = origSizes[i]
    <2>1. buffers[i].data = file[j + 1].body.data /\ buffers[i].data \in Seq(Byte)
      BY <1>1, <1>4, <1>6 DEF Raw, IInv, TypeOK, BufferContent
    <2>2. /\ Len(file[j + 1].body.data) = file[j].origSize
          /\ file[j].origSize <= file[1].blockSize
      BY <1>2, <1>4, <1>5, <1>6
    <2>3. BlockGood(file, m + 1) /\ BlockData(file, m + 1) = buffers[i].data
      BY <1>2, <1>3, <1>5, <1>6, <2>1, <2>2, BlockGoodAt, SMTT(40)
    <2> QED  BY <1>1, <1>2, <1>4, <1>6, <2>1, <2>2, <2>3 DEF m
  <1>7. CASE ~(errs[i] = "nil" /\ dSizes[i] = origSizes[i])
    <2>1. \/ file[j + 1].body.tag # "enc"
          \/ Len(file[j + 1].body.data) > file[1].blockSize
          \/ Len(file[j + 1].body.data) # file[j].origSize
      BY <1>2, <1>4, <1>5, <1>7
    <2>2. ~BlockGood(file, m + 1)
      BY <1>1, <1>2, <1>3, <2>1, FaultyBlock
    <2> QED  BY <1>1, <1>2, <1>7, <2>2 DEF m
  <1> QED  BY <1>6, <1>7

(* Another good block is appended to what has been written. *)
LEMMA OneBlockMore ==
  ASSUME NEW ss, ss \in Seq(Seq(Byte)), Len(ss) \in Nat, NEW f, GoodUpTo(f, Len(ss)),
         ss = [k \in 1..Len(ss) |-> BlockData(f, k)], BlockGood(f, Len(ss) + 1),
         NEW tt, tt = Append(ss, BlockData(f, Len(ss) + 1)), BlockData(f, Len(ss) + 1) \in Seq(Byte)
  PROVE  /\ Len(tt) = Len(ss) + 1
         /\ GoodUpTo(f, Len(tt))
         /\ tt = [k \in 1..Len(tt) |-> BlockData(f, k)]
  <1> DEFINE m == Len(ss)
             b == BlockData(f, m + 1)
  <1>1. /\ tt \in Seq(Seq(Byte)) /\ Len(tt) = m + 1 /\ m \in Nat /\ tt[m + 1] = b
        /\ \A k \in 1..m : tt[k] = ss[k]
    BY AppendProperties
  <1>2. GoodUpTo(f, m + 1)
    BY GoodUpToNext
  <1>3. \A k \in 1..m + 1 : tt[k] = BlockData(f, k)
    <2> SUFFICES ASSUME NEW k \in 1..m + 1 PROVE tt[k] = BlockData(f, k)
      OBVIOUS
    <2>1. CASE k = m + 1
      BY <1>1, <2>1
    <2>2. CASE k # m + 1
      <3>1. k \in 1..m
        BY <1>1, <2>2
      <3> QED  BY <1>1, <3>1
    <2> QED  BY <2>1, <2>2
  <1>4. tt = [k \in 1..Len(tt) |-> tt[k]]
    BY <1>1
  <1> QED  BY <1>1, <1>2, <1>3, <1>4

(* What a Write that does not fail appends. *)
WriteWhole ==
  /\ errs[i] = "nil" /\ dSizes[i] = origSizes[i]
  /\ out' = Append(out, SubSeq(buffers[i].data, 1, origSizes[i]))
  /\ IF i + 1 < n
       THEN i' = i + 1 /\ Goto("write") /\ UNCHANGED n
       ELSE /\ IF eof THEN Return("nil") ELSE Goto("read")
            /\ n' = 0
            /\ i' = 0
  /\ UNCHANGED ioErr

LEMMA WriteWholeGrows ==
  ASSUME IInv, Progress, Write, WriteWhole
  PROVE  /\ Len(out') = Len(out) + 1
         /\ GoodUpTo(file, Len(out'))
         /\ out' = [k \in 1..Len(out') |-> BlockData(file, k)]
  <1>1. pc = "write"
    BY DEF Write
  <1>2. out' = Append(out, BlockData(file, Len(out) + 1))
    <2>1. /\ buffers[i].data = BlockData(file, Len(out) + 1)
          /\ origSizes[i] = Len(buffers[i].data) /\ buffers[i].data \in Seq(Byte)
      BY <1>1, AtWrite DEF WriteWhole
    <2>2. SubSeq(buffers[i].data, 1, Len(buffers[i].data)) = buffers[i].data
      BY <2>1, SubSeqFull
    <2> QED  BY <2>1, <2>2 DEF WriteWhole
  <1>3. BlockGood(file, Len(out) + 1) /\ BlockData(file, Len(out) + 1) \in Seq(Byte)
    BY <1>1, AtWrite DEF WriteWhole
  <1>4. /\ out \in Seq(Seq(Byte)) /\ Len(out) \in Nat /\ GoodUpTo(file, Len(out))
        /\ out = [k \in 1..Len(out) |-> BlockData(file, k)]
    BY <1>1, AtWrite
  <1> DEFINE tt == out'
  <1>5. tt = Append(out, BlockData(file, Len(out) + 1))
    BY <1>2
  <1> HIDE DEF tt
  <1>6. /\ Len(tt) = Len(out) + 1 /\ GoodUpTo(file, Len(tt))
        /\ tt = [k \in 1..Len(tt) |-> BlockData(file, k)]
    BY <1>3, <1>4, <1>5, OneBlockMore
  <1> QED  BY <1>6 DEF tt

LEMMA WriteVerdict == ASSUME IInv, Progress, Write, pc' = "returned" PROVE Verdict'
  <1>1. pc = "write" /\ ~ioErr /\ UNCHANGED <<file, fpos>>
    BY DEF Write, Progress, Running
  <1>2. CASE ioErr'
    BY <1>2 DEF Verdict
  <1>3. CASE ~ioErr' /\ WriteWhole
    <2> DEFINE m == Len(out')
    <2>1. /\ m = Len(out) + 1 /\ GoodUpTo(file, m)
          /\ out' = [k \in 1..m |-> BlockData(file, k)]
      BY <1>1, <1>3, WriteWholeGrows
    <2>2. result' = "nil" /\ eof /\ ~(i + 1 < n)
      BY <1>3 DEF WriteWhole, Goto, Return
    <2>3. fpos = Len(file)
      BY <2>2 DEF Progress, Running
    <2>4. Len(file) = 1 + 2 * m /\ m \in Nat
      BY <1>1, <2>1, <2>2, <2>3, AtWrite, SMTT(40)
    <2>5. GoodBlocks(file) = m
      <3> HIDE DEF m
      <3>1. Len(file) < (2 * m + 2) + 1
        BY <2>4
      <3> QED  BY <1>1, <2>1, <2>4, <3>1, AtWrite, FaultAt
    <2>6. FlattenSeq(out') = Content(file) /\ Intact(file)
      BY <1>1, <2>1, <2>4, <2>5, FlattenBlocks, AtWrite DEF Content, Intact
    <2> QED  BY <1>1, <2>2, <2>6 DEF Verdict, LossIsBounded, Status
  <1>4. CASE ~ioErr' /\ ~WriteWhole
    <2>1. /\ ~(errs[i] = "nil" /\ dSizes[i] = origSizes[i])
          /\ result' = errs[i] \/ result' = "malformed"
          /\ result' # "nil" /\ out' = out
      BY <1>1, <1>4 DEF Write, WriteWhole, Return, IoError
    <2>2. errs[i] \in {"nil", "crc"}
      BY <1>1, AtWrite DEF IInv, TypeOK
    <2>3. GoodBlocks(file) = Len(out)
      BY <1>1, <2>1, AtWrite, FirstFault
    <2>4. ~Intact(file)
      <3>1. Len(file) > 1 + 2 * Len(out)
        BY <1>1, AtWrite
      <3> QED  BY <1>1, <2>3, <3>1, AtWrite DEF Intact
    <2>5. LossIsBounded'
      BY <1>1, <2>1, <2>3 DEF LossIsBounded
    <2> QED  BY <1>1, <2>1, <2>2, <2>4, <2>5 DEF Verdict
  <1> QED  BY <1>2, <1>3, <1>4

LEMMA WriteProgress == ASSUME IInv, Progress, Write PROVE Progress'
  <1>1. /\ pc = "write" /\ ~ioErr /\ result = "none"
        /\ UNCHANGED <<file, fpos, blockSize, eof, slots>>
    BY DEF Write, Progress, Running
  <1>2. CASE pc' = "returned"
    BY <1>1, <1>2 DEF Progress, Running, InRound
  <1>3. CASE pc' # "returned"
    <2>1. WriteWhole
      BY <1>1, <1>3 DEF Write, Return, WriteWhole
    <2>2. /\ Len(out') = Len(out) + 1 /\ GoodUpTo(file, Len(out'))
          /\ out' = [k \in 1..Len(out') |-> BlockData(file, k)]
      BY <2>1, WriteWholeGrows
    <2>3. /\ i \in Nat /\ n \in Nat /\ i < n /\ Len(out) = Base + i /\ Base \in Nat
          /\ fpos = 1 + 2 * (Base + n)
      BY <1>1, AtWrite
    <2>4. OutIsGood'
      BY <1>1, <2>2 DEF OutIsGood, Progress, InRound
    <2>5. CASE i + 1 < n
      <3>1. i' = i + 1 /\ pc' = "write" /\ n' = n /\ result' = result /\ ioErr' = ioErr
        BY <2>1, <2>5 DEF WriteWhole, Goto
      <3>2. Base' = Base
        <4>1. Base' = Len(out') - i'
          BY <3>1 DEF Base, Written
        <4> QED  BY <2>2, <2>3, <3>1, <4>1
      <3>3. \A s \in Slot : HeaderAt(s)' = HeaderAt(s)
        BY <1>1, <3>1 DEF HeaderAt
      <3>4. Running' /\ RoundsDone'
        BY <1>1, <3>1, <3>2 DEF Progress, Running, InRound, RoundsDone
      <3>5. AllJudged'
        BY <1>1, <3>1, <3>3 DEF Progress, InRound, AllJudged, Judged, slots
      <3> QED  BY <2>4, <3>4, <3>5 DEF Progress
    <2>6. CASE ~(i + 1 < n)
      <3>1. i' = 0 /\ pc' = "read" /\ n' = 0 /\ ~eof /\ result' = result /\ ioErr' = ioErr
        BY <1>3, <2>1, <2>6 DEF WriteWhole, Goto, Return
      <3>2. n = Workers
        BY <1>1, <3>1 DEF Progress, Running
      <3>3. Base' = Base + n
        <4>1. Base' = Len(out') - 0
          BY <3>1 DEF Base, Written
        <4>2. Len(out') = Base + n
          BY <2>2, <2>3, <2>6
        <4> QED  BY <2>3, <4>1, <4>2
      <3>4. RoundsDone'
        <4>1. PICK q \in Nat : Base = Workers * q
          BY <1>1 DEF Progress, InRound, RoundsDone
        <4>2. Base' = Workers * (q + 1) /\ q + 1 \in Nat
          BY <3>2, <3>3, <4>1, WorkersNatural
        <4>3. Base' \in Nat /\ fpos' = 1 + 2 * (Base' + n') + 0
          BY <1>1, <2>3, <3>1, <3>3
        <4> QED  BY <3>1, <4>2, <4>3 DEF RoundsDone
      <3>5. Running'
        BY <1>1, <3>1 DEF Progress, Running
      <3>6. AllJudged'
        BY <3>1, WorkersNatural DEF AllJudged
      <3> QED  BY <2>4, <3>4, <3>5, <3>6 DEF Progress
    <2> QED  BY <2>5, <2>6
  <1> QED  BY <1>2, <1>3

-----------------------------------------------------------------------------
LEMMA ProgressStep == ASSUME IInv, Progress, [Next]_vars PROVE Progress'
  <1>1. CASE ReadHeader
    BY <1>1, ReadHeaderProgress
  <1>2. CASE ReadBlockHeader
    BY <1>2, ReadBlockHeaderProgress
  <1>3. CASE ReadPayload
    BY <1>3, ReadPayloadProgress
  <1>4. CASE Spawn
    BY <1>4, SpawnProgress
  <1>5. CASE \E s \in Slot : Goroutine(s)
    BY <1>5, GoroutineProgress
  <1>6. CASE Wait
    BY <1>6, WaitProgress
  <1>7. CASE Write
    BY <1>7, WriteProgress
  <1>8. CASE Returned \/ UNCHANGED vars
    BY <1>8 DEF Returned, vars, Progress, Running, InRound, OutIsGood, RoundsDone, Base, Written,
                AllJudged, Judged, HeaderAt
  <1> QED  BY <1>1, <1>2, <1>3, <1>4, <1>5, <1>6, <1>7, <1>8 DEF Next, Main

(* The program gives its verdict once. *)
LEMMA VerdictStep == ASSUME IInv, Progress, Verdict, [Next]_vars PROVE Verdict'
  <1>1. CASE pc' # "returned"
    BY <1>1 DEF Verdict
  <1>2. CASE pc' = "returned" /\ pc # "returned"
    <2>1. ReadHeader \/ ReadBlockHeader \/ ReadPayload \/ Write
      BY <1>2 DEF Next, Main, Spawn, Wait, Goto, Goroutine, Returned, vars
    <2> QED  BY <1>2, <2>1, ReadHeaderVerdict, ReadBlockHeaderVerdict, ReadPayloadVerdict,
                WriteVerdict
  <1>3. CASE pc' = "returned" /\ pc = "returned"
    <2>1. UNCHANGED vars
      BY <1>3 DEF Next, Main, ReadHeader, ReadBlockHeader, ReadPayload, Spawn, Wait, Write,
                  Goroutine, Returned, IInv, Position
    <2> QED  BY <2>1 DEF vars, Verdict, LossIsBounded, Status
  <1> QED  BY <1>1, <1>2, <1>3

LEMMA DecompressProgress == Spec => [](IInv /\ Progress /\ Verdict)
  <1>1. Init => IInv /\ Progress /\ Verdict
    BY InitInv, InitProgress
  <1>2. IInv /\ Progress /\ Verdict /\ [Next]_vars => Progress' /\ Verdict'
    BY ProgressStep, VerdictStep
  <1> QED  BY <1>1, <1>2, DecompressInvariant, PTL DEF Spec

(***************************************************************************)
(* A file is never refused before all the good blocks that come first have *)
(* been written, but for those of the round that was being read: Workers - *)
(* 1 blocks at most (cmd/bzip3/main.go, decompressParallel).               *)
(***************************************************************************)
THEOREM LossIsAtMostOneRound == Spec => []LossIsBounded
  <1>1. Progress /\ Verdict => LossIsBounded
    BY DEF Progress, Running, Verdict, LossIsBounded, Status
  <1> QED  BY <1>1, DecompressProgress, PTL

-----------------------------------------------------------------------------
(* DecodedStream says the same of a file as FileContents here.               *)
LEMMA SameHeaderGood == ASSUME NEW f PROVE Abstract!HeaderGood(f) <=> HeaderGood(f)
  BY DEF HeaderGood, Abstract!HeaderGood, ValidBlockSize, Abstract!ValidBlockSize

LEMMA SameBlockGood == ASSUME NEW f, NEW k PROVE Abstract!BlockGood(f, k) <=> BlockGood(f, k)
  BY DEF BlockGood, Abstract!BlockGood, Bound, Abstract!Bound

LEMMA SameGoodBlocks == ASSUME NEW f PROVE Abstract!GoodBlocks(f) = GoodBlocks(f)
  <1>1. {m \in 0..Len(f) : \A k \in 1..m : Abstract!BlockGood(f, k)}
          = {m \in 0..Len(f) : \A k \in 1..m : BlockGood(f, k)}
    BY SameBlockGood
  <1>2. ASSUME NEW T PROVE Abstract!Max(T) = Max(T)
    BY DEF Max, Abstract!Max
  <1> DEFINE T == {m \in 0..Len(f) : \A k \in 1..m : BlockGood(f, k)}
  <1>3. GoodBlocks(f) = IF HeaderGood(f) THEN Max(T) ELSE 0
    BY DEF GoodBlocks
  <1>4. Abstract!GoodBlocks(f) = IF Abstract!HeaderGood(f) THEN Abstract!Max(T) ELSE 0
    BY <1>1 DEF Abstract!GoodBlocks
  <1> HIDE DEF T
  <1> QED  BY <1>2, <1>3, <1>4, SameHeaderGood

LEMMA SameContent == ASSUME NEW f PROVE Abstract!Content(f) = Content(f)
  <1>1. ASSUME NEW ss PROVE Abstract!FlattenSeq(ss) = FlattenSeq(ss)
    BY DEF FlattenSeq, Abstract!FlattenSeq
  <1> QED  BY <1>1, SameGoodBlocks DEF Content, Abstract!Content, Bytes, Abstract!Bytes, BlockData, Abstract!BlockData

LEMMA SameIntact == ASSUME NEW f PROVE Abstract!Intact(f) <=> Intact(f)
  BY SameHeaderGood, SameGoodBlocks DEF Intact, Abstract!Intact

(* The abstract step that each kind of step of the program is.               *)
LEMMA StepIsDeliver ==
  ASSUME Status = "open", Status' = "open", file' = file,
         NEW j \in Len(FlattenSeq(out))..Len(Content(file)),
         FlattenSeq(out') = SubSeq(Content(file), 1, j)
  PROVE  Abstract!Next
  <1>1. Abstract!Deliver
    BY SameContent DEF Abstract!Deliver
  <1> QED  BY <1>1 DEF Abstract!Next

LEMMA StepIsIoFail ==
  ASSUME Status = "open", Status' = "ioFailed", file' = file,
         NEW j \in Len(FlattenSeq(out))..Len(Content(file)),
         FlattenSeq(out') = SubSeq(Content(file), 1, j)
  PROVE  Abstract!Next
  <1>1. Abstract!IoFail
    BY SameContent DEF Abstract!IoFail
  <1> QED  BY <1>1 DEF Abstract!Next

LEMMA StepIsFinish ==
  ASSUME Status = "open", Status' = "done", file' = file, Intact(file),
         FlattenSeq(out') = Content(file)
  PROVE  Abstract!Next
  <1>1. Abstract!Finish
    BY SameContent, SameIntact DEF Abstract!Finish
  <1> QED  BY <1>1 DEF Abstract!Next

LEMMA StepIsRefuse ==
  ASSUME Status = "open", Status' = "refused", file' = file, ~Intact(file), out' = out
  PROVE  Abstract!Next
  <1>1. Abstract!Refuse
    BY SameIntact DEF Abstract!Refuse
  <1> QED  BY <1>1 DEF Abstract!Next

(* What is written is a beginning of what the file holds. *)
BeginsContent(ss) ==
  /\ FlattenSeq(ss) = SubSeq(Content(file), 1, Len(FlattenSeq(ss)))
  /\ Len(FlattenSeq(ss)) \in Len(FlattenSeq(out))..Len(Content(file))

LEMMA OutIsPrefix == ASSUME IInv, Progress, pc # "returned" PROVE BeginsContent(out)
  <1>1. IsFile(file) /\ Content(file) \in Seq(Byte) /\ Len(out) \in Nat
    BY TheFile, ContentType DEF IInv
  <1>2. CASE pc = "header"
    <2>1. FlattenSeq(out) = <<>> /\ Len(FlattenSeq(out)) = 0
      BY <1>2, FlattenEmpty DEF Progress, Running
    <2>2. SubSeq(Content(file), 1, 0) = <<>> /\ Len(Content(file)) \in Nat
      BY <1>1, SubSeqEmpty, LenProperties
    <2> QED  BY <2>1, <2>2 DEF BeginsContent
  <1>3. CASE pc # "header"
    <2>1. OutIsGood
      BY <1>3 DEF Progress, InRound, IInv, TypeOK
    <2>2. FlattenSeq(out) = Bytes(file, Len(out))
      BY <2>1, FlattenBlocks DEF OutIsGood
    <2>3. /\ FlattenSeq(out) \in Seq(Byte)
          /\ \E r \in Seq(Byte) : Content(file) = FlattenSeq(out) \o r
      BY <1>1, <2>1, <2>2, ContentExtends DEF OutIsGood
    <2> DEFINE F == FlattenSeq(out)
    <2> HIDE DEF F
    <2>4. F = SubSeq(Content(file), 1, Len(F)) /\ Len(F) \in Len(F)..Len(Content(file))
      BY <2>3, PrefixOfConcat DEF F
    <2> QED  BY <2>4 DEF F, BeginsContent
  <1> QED  BY <1>2, <1>3

LEMMA BytesAssociative ==
  \A a, b, c \in Seq(Byte) : (a \o b) \o c = a \o (b \o c)
  BY ConcatAssociative, SMTT(40)

LEMMA WrittenIsPrefix ==
  ASSUME IInv, Progress, pc = "write", errs[i] = "nil", dSizes[i] = origSizes[i],
         NEW k \in 0..origSizes[i]
  PROVE  BeginsContent(Append(out, SubSeq(buffers[i].data, 1, k)))
  <1> DEFINE b == buffers[i].data
             l == Len(b)
             s == SubSeq(b, 1, k)
             t == SubSeq(b, k + 1, l)
             F == FlattenSeq(out)
             C == Content(file)
             m == Len(out)
  <1>1. /\ b = BlockData(file, m + 1) /\ origSizes[i] = l /\ b \in Seq(Byte) /\ l \in Nat
        /\ HeaderGood(file) /\ IsFile(file) /\ GoodUpTo(file, m + 1) /\ m \in Nat
        /\ out \in Seq(Seq(Byte)) /\ out = [q \in 1..m |-> BlockData(file, q)]
    BY AtWrite, GoodUpToNext, LenProperties
  <1> HIDE DEF b, l
  <1>2. s \in Seq(Byte) /\ t \in Seq(Byte)
    <2>1. (\A j \in 1..k : j \in 1..l) /\ (\A j \in k + 1..l : j \in 1..l) /\ k \in Int /\ k + 1 \in Int
      BY <1>1
    <2> QED  BY <1>1, <2>1, SubSeqProperties, ElementOfSeq DEF l
  <1>3. s \o t = b
    <2>1. 1 \in 1..Len(b) + 1 /\ k \in 1 - 1..Len(b) /\ l \in k..Len(b)
      BY <1>1 DEF l
    <2>2. s \o t = SubSeq(b, 1, l)
      BY <1>1, <2>1, ConcatAdjacentSubSeq
    <2> QED  BY <1>1, <2>2, SubSeqFull DEF l
  <1> HIDE DEF m
  <1>4. Bytes(file, m + 1) = F \o b
    <2>1. \A q \in 1..m + 1 : BlockData(file, q) \in Seq(Byte)
      BY <1>1, GoodUpToData
    <2>2. F = Bytes(file, m)
      BY <1>1, FlattenBlocks DEF m
    <2> QED  BY <1>1, <2>1, <2>2, BytesNext
  <1>5. PICK r \in Seq(Byte) : C = (F \o b) \o r
    <2> DEFINE p == m + 1
    <2>1. p \in Nat /\ GoodUpTo(file, p) /\ Bytes(file, p) = F \o b
      BY <1>1, <1>4
    <2> HIDE DEF p
    <2>2. \E r \in Seq(Byte) : Content(file) = Bytes(file, p) \o r
      BY <1>1, <2>1, ContentExtends
    <2> QED  BY <2>1, <2>2
  <1>6. FlattenSeq(Append(out, s)) = F \o s /\ F \in Seq(Byte)
    BY <1>1, <1>2, FlattenAppend
  <1> HIDE DEF s, t, F, C
  <1>7. F \in Seq(Byte) /\ s \in Seq(Byte) /\ t \in Seq(Byte) /\ r \in Seq(Byte)
    BY <1>2, <1>5, <1>6
  <1>8. F \o s \in Seq(Byte) /\ t \o r \in Seq(Byte)
    BY <1>7, ConcatProperties
  <1>9. C = (F \o s) \o (t \o r)
    <2>1. (F \o s) \o t = F \o (s \o t)
      BY <1>7, BytesAssociative, SMTT(40)
    <2> DEFINE H == F \o s
    <2>2. H \in Seq(Byte)
      BY <1>8
    <2> HIDE DEF H
    <2>3. (H \o t) \o r = H \o (t \o r)
      BY <1>7, <2>2, BytesAssociative, ZenonT(60)
    <2> QED  BY <1>3, <1>5, <2>1, <2>3 DEF H
  <1> DEFINE G == F \o s
  <1>10. Len(F) <= Len(G) /\ Len(F) \in Nat
    BY <1>7, ConcatProperties, LenProperties
  <1>11. G = SubSeq(C, 1, Len(G)) /\ Len(G) \in Nat /\ Len(C) \in Nat /\ Len(G) <= Len(C)
    <2> HIDE DEF G
    <2>1. G \in Seq(Byte) /\ C = G \o (t \o r)
      BY <1>8, <1>9 DEF G
    <2> QED  BY <1>8, <2>1, PrefixOfConcat
  <1> HIDE DEF G
  <1>12. Len(G) \in Len(F)..Len(C)
    BY <1>10, <1>11
  <1> QED  BY <1>6, <1>11, <1>12 DEF BeginsContent, G, F, C, s, b

(* Only the last step writes anything and fails. *)
LEMMA WhatAStepWrites ==
  ASSUME IInv, Progress, [Next]_vars, pc # "returned"
  PROVE  /\ file' = file
         /\ BeginsContent(out')
         /\ result' = "none" => ~ioErr'
         /\ result' # "none" => pc' = "returned"
         /\ pc' # "returned" => result' = "none"
         /\ result' \notin {"none", "nil"} /\ ~ioErr' => out' = out
  <1>1. file' = file
    BY DEF Next, Main, ReadHeader, ReadBlockHeader, ReadPayload, Spawn, Wait, Write, Goroutine,
           Returned, input, vars
  <1>2. result = "none" /\ ~ioErr
    BY DEF Progress, Running
  <1>3. CASE Write /\ out' # out
    <2>1. /\ pc = "write" /\ errs[i] = "nil" /\ dSizes[i] = origSizes[i]
      BY <1>3 DEF Write
    <2>2. /\ origSizes[i] \in Nat
      BY <2>1, AtWrite, LenProperties
    <2>3. PICK k \in 0..origSizes[i] : out' = Append(out, SubSeq(buffers[i].data, 1, k))
      BY <1>3, <2>1, <2>2 DEF Write
    <2>4. BeginsContent(out')
      BY <2>1, <2>3, WrittenIsPrefix
    <2>5. \/ result' \in {"none", "nil"} /\ ioErr' = ioErr /\ (result' = "nil" => pc' = "returned")
          \/ result' = "writeErr" /\ ioErr' /\ pc' = "returned"
      BY <1>2, <1>3, <2>1 DEF Write, Return, Goto, IoError
    <2>6. pc' # "returned" => result' = "none"
      BY <1>2, <1>3, <2>1 DEF Write, Return, Goto, IoError
    <2> QED  BY <1>1, <1>2, <2>4, <2>5, <2>6
  <1>4. CASE ~(Write /\ out' # out)
    <2>1. out' = out
      BY <1>4 DEF Next, Main, ReadHeader, ReadBlockHeader, ReadPayload, Spawn, Wait, Goroutine,
                  Returned, input, vars
    <2>2. BeginsContent(out')
      BY <2>1, OutIsPrefix
    <2>3. (result' = "none" => ~ioErr') /\ (result' # "none" <=> pc' = "returned")
      <3>1. CASE ReadHeader \/ ReadBlockHeader \/ ReadPayload
        BY <1>2, <3>1 DEF ReadHeader, ReadBlockHeader, ReadPayload, Return, Goto, IoError
      <3>2. CASE Write
        <4>1. pc = "write" /\ errs[i] \in {"nil", "crc"}
          BY <3>2, AtWrite DEF Write, IInv, TypeOK
        <4> QED  BY <1>2, <3>2, <4>1 DEF Write, Return, Goto, IoError
      <3>3. CASE UNCHANGED <<result, ioErr>> /\ pc' # "returned"
        BY <1>2, <3>3
      <3> QED  BY <3>1, <3>2, <3>3
               DEF Next, Main, Spawn, Wait, Goto, Goroutine, Returned, input, vars
    <2> QED  BY <1>1, <2>1, <2>2, <2>3
  <1> QED  BY <1>3, <1>4

LEMMA StepRefines ==
  ASSUME IInv, Progress, Verdict', [Next]_vars
  PROVE  [Abstract!Next]_<<file, FlattenSeq(out), Status>>
  <1>1. CASE pc = "returned"
    <2>1. UNCHANGED vars
      BY <1>1 DEF Next, Main, ReadHeader, ReadBlockHeader, ReadPayload, Spawn, Wait, Write,
                  Goroutine, Returned, IInv, Position
    <2> QED  BY <2>1 DEF vars, Status
  <1>2. CASE pc # "returned"
    <2>1. Status = "open"
      BY <1>2 DEF Progress, Running, Status
    <2>2. /\ file' = file /\ BeginsContent(out')
          /\ result' = "none" => ~ioErr'
          /\ result' # "none" => pc' = "returned"
          /\ result' \notin {"none", "nil"} /\ ~ioErr' => out' = out
      BY <1>2, WhatAStepWrites
    <2> DEFINE j == Len(FlattenSeq(out'))
    <2>3. j \in Len(FlattenSeq(out))..Len(Content(file)) /\ FlattenSeq(out') = SubSeq(Content(file), 1, j)
      BY <2>2 DEF BeginsContent
    <2> HIDE DEF j
    <2>4. CASE result' = "none"
      <3>1. Status' = "open"
        BY <2>2, <2>4 DEF Status
      <3> QED  BY <2>1, <2>2, <2>3, <3>1, StepIsDeliver
    <2>5. CASE result' = "nil" /\ ~ioErr'
      <3>1. Status' = "done" /\ Intact(file) /\ FlattenSeq(out') = Content(file)
        BY <2>2, <2>5 DEF Status, Verdict
      <3> QED  BY <2>1, <2>2, <3>1, StepIsFinish
    <2>6. CASE result' \notin {"none", "nil"} /\ ioErr'
      <3>1. Status' = "ioFailed"
        BY <2>6 DEF Status
      <3> QED  BY <2>1, <2>2, <2>3, <3>1, StepIsIoFail
    <2>7. CASE result' \notin {"none", "nil"} /\ ~ioErr'
      <3>1. Status' = "refused" /\ ~Intact(file)
        BY <2>2, <2>7 DEF Status, Verdict
      <3> QED  BY <2>1, <2>2, <2>7, <3>1, StepIsRefuse
    <2>8. ~(result' = "nil" /\ ioErr')
      BY <1>2 DEF Progress, Running, Next, Main, ReadHeader, ReadBlockHeader, ReadPayload, Spawn,
                  Wait, Write, Goroutine, Returned, Goto, Return, IoError, IInv, TypeOK, input, vars
    <2> QED  BY <2>4, <2>5, <2>6, <2>7, <2>8
  <1> QED  BY <1>1, <1>2

(***************************************************************************)
(* decompressParallel implements DecodedStream, as the Reader does:        *)
(* whatever the file, however many workers and in whatever order they run, *)
(* what it has written is at every moment a beginning of the bytes of the  *)
(* good blocks; it succeeds only on an intact file, all of it written, and *)
(* refuses only a file with a fault.                                       *)
(***************************************************************************)
THEOREM DecompressRefinesDecodedStream == Spec => RefinesDecodedStream
  <1>1. Init => Abstract!Init
    BY FlattenEmpty DEF Init, Abstract!Init, Status
  <1>2. IInv /\ Progress /\ Verdict' /\ [Next]_vars
          => [Abstract!Next]_<<file, FlattenSeq(out), Status>>
    BY StepRefines
  <1> QED  BY <1>1, <1>2, DecompressProgress, PTL
           DEF Spec, RefinesDecodedStream, Abstract!Spec, Abstract!vars
=============================================================================
