----------------------------- MODULE RunLength -----------------------------
(***************************************************************************)
(* internal/rle/rle.go.  Encode counts, for each byte value, what          *)
(* collapsing its runs would gain, then writes a bitmap of the values      *)
(* worth it and the input with the runs of those collapsed; Decode expands *)
(* them again and insists on an exact output length.                       *)
(*                                                                         *)
(* The largest byte, 255 in the code, is a constant, and so is the largest *)
(* int32.  The 32-byte bitmap is the set of the values it marks.           *)
(***************************************************************************)
EXTENDS StageBytes

CONSTANTS MaxLen,      \* bound on the length of the inputs
          MaxCodeLen   \* bound on the length of encodings not made by Encode

ASSUME ConstantsAssumption ==
  Int32Max \in Nat /\ MaxByte \in 1..Int32Max /\ MaxLen \in 0..Int32Max /\ MaxCodeLen \in Nat

VARIABLES
  in,       \* the input of Encode, or of Decode without its bitmap
  original, \* the input of Encode; what Decode should give (its length, if foreign)
  foreign,  \* in was not made by Encode
  ip,       \* next position of in
  t,        \* Encode: the gain of each value; Decode: 1 if its runs are collapsed
  run,
  prev,     \* pc in the code: the previous byte (Encode), a run byte (Decode), -1 at first
  c,        \* Decode: the byte whose run is being read
  out,      \* bytes written so far
  pc,
  result

vars == <<in, original, foreign, ip, t, run, prev, c, out, pc, result>>

Init ==
  /\ ip = 1 /\ run = 0 /\ prev = -1 /\ c = 0 /\ out = <<>> /\ result = "none"
  /\ \/ /\ in \in UNION {[1..len -> Byte] : len \in 0..MaxLen}
        /\ original = in
        /\ foreign = FALSE
        /\ t = [b \in Byte |-> 0]
        /\ pc = "count"
     \/ /\ in \in UNION {[1..len -> Byte] : len \in 0..MaxCodeLen}
        /\ original \in {[k \in 1..len |-> 0] : len \in 0..MaxLen}
        /\ foreign = TRUE
        /\ t \in [Byte -> {0, 1}]
        /\ pc = "decode"
     \/ /\ in = <<>>                  \* a code that does not even hold a bitmap
        /\ original \in {[k \in 1..len |-> 0] : len \in 0..MaxLen}
        /\ foreign = TRUE
        /\ t = [b \in Byte |-> 0]
        /\ pc = "short"

-----------------------------------------------------------------------------
(* Faulty variant: the further length bytes of a long run are not counted.   *)
GainOfShort(b, r) == IF b # prev THEN -1 ELSE 1

(* First pass: a run gains a byte for each repetition, but for those that    *)
(* take another length byte, and costs one length byte.                      *)
Gain(b, r) == IF b # prev THEN -1 ELSE IF r % MaxByte # 0 THEN 1 ELSE 0

Count ==
  /\ pc = "count"
  /\ ip <= Len(in)
  /\ LET b == in[ip]
     IN  /\ run' = IF b = prev THEN run + 1 ELSE 0
         /\ t' = [t EXCEPT ![b] = @ + Gain(b, run')]
         /\ prev' = b
  /\ ip' = ip + 1
  /\ UNCHANGED <<in, original, foreign, c, out, pc, result>>

CountEnds ==
  /\ pc = "count"
  /\ ip > Len(in)
  /\ ip' = 1 /\ run' = 0 /\ prev' = -1
  /\ pc' = "encode"
  /\ UNCHANGED <<in, original, foreign, t, c, out, result>>

(* Faulty variant: one length byte too many when the length is a multiple.   *)
CollapsedWide(b, r) ==
  LET full == r \div MaxByte
  IN  <<b>> \o [k \in 1..full |-> MaxByte] \o <<r % MaxByte>>

(* A run of b: its length less one, after as many largest bytes as fit.      *)
Collapsed(b, r) ==
  LET full == (r - 1) \div MaxByte
  IN  <<b>> \o [k \in 1..full |-> MaxByte] \o <<r - full * MaxByte - 1>>

(* Second pass, over the input and a terminator: at the end of each run,     *)
(* write it.                                                                 *)
Encode ==
  /\ pc = "encode"
  /\ ip <= Len(in) + 1
  /\ LET b == IF ip <= Len(in) THEN in[ip] ELSE -1
     IN  /\ IF b = prev THEN run' = run + 1 /\ UNCHANGED out
            ELSE /\ run' = 1
                 /\ out' = out \o (IF run = 0 THEN <<>>
                                   ELSE IF t[prev] > 0 THEN Collapsed(prev, run)
                                   ELSE [k \in 1..run |-> prev])
         /\ prev' = b
  /\ ip' = ip + 1
  /\ UNCHANGED <<in, original, foreign, t, c, pc, result>>

(* The bitmap marks the values with a gain; Decode starts from it.           *)
EncodeEnds ==
  /\ pc = "encode"
  /\ ip > Len(in) + 1
  /\ t' = [b \in Byte |-> IF t[b] > 0 THEN 1 ELSE 0]
  /\ in' = out
  /\ out' = <<>>
  /\ ip' = 1 /\ run' = 0 /\ prev' = -1
  /\ pc' = "decode"
  /\ UNCHANGED <<original, foreign, c, result>>

-----------------------------------------------------------------------------
OutLen == Len(original)

TooShort ==
  /\ pc = "short"
  /\ pc' = "returned"
  /\ result' = "corrupt"
  /\ UNCHANGED <<in, original, foreign, ip, t, run, prev, c, out>>

Decode ==
  /\ pc = "decode"
  /\ Len(out) < OutLen /\ ip <= Len(in)
  /\ ip' = ip + 1
  /\ IF t[in[ip]] # 0
       THEN c' = in[ip] /\ run' = 0 /\ pc' = "runByte" /\ UNCHANGED out
       ELSE out' = Append(out, in[ip]) /\ UNCHANGED <<c, run, pc>>
  /\ UNCHANGED <<in, original, foreign, t, prev, result>>

(* One byte of the length of a run: the largest byte means that more follow. *)
RunByte ==
  /\ pc = "runByte"
  /\ ip <= Len(in)
  /\ prev' = in[ip]
  /\ ip' = ip + 1
  /\ IF in[ip] # MaxByte THEN pc' = "expand" /\ UNCHANGED run
     ELSE run' = Int32(run + MaxByte) /\ UNCHANGED pc
  /\ UNCHANGED <<in, original, foreign, t, c, out, result>>

(* A length cut off by the end of the input is completed with the last run   *)
(* byte read, whichever run it was of.                                       *)
RunCut ==
  /\ pc = "runByte"
  /\ ip > Len(in)
  /\ pc' = "expand"
  /\ UNCHANGED <<in, original, foreign, ip, t, run, prev, c, out, result>>

(* Faulty variant: a run is written in full whatever room is left. *)
Unclipped(full, room) == IF full < 0 THEN 0 ELSE full

Clipped(full, room) == IF full < 0 THEN 0 ELSE MinOf(full, room)

Expand ==
  /\ pc = "expand"
  /\ LET full == Int32(run + prev + 1)
         room == OutLen - Len(out)
         len  == Clipped(full, room)
     IN  /\ out' = out \o [k \in 1..len |-> c]
         /\ run' = full - len
  /\ pc' = "decode"
  /\ UNCHANGED <<in, original, foreign, ip, t, prev, c, result>>

DecodeReturns ==
  /\ pc = "decode"
  /\ Len(out) >= OutLen \/ ip > Len(in)
  /\ pc' = "returned"
  /\ result' = IF Len(out) # OutLen THEN "corrupt" ELSE "nil"
  /\ UNCHANGED <<in, original, foreign, ip, t, run, prev, c, out>>

Next == \/ Count \/ CountEnds \/ Encode \/ EncodeEnds
        \/ TooShort \/ Decode \/ RunByte \/ RunCut \/ Expand \/ DecodeReturns
        \/ pc = "returned" /\ UNCHANGED vars

Spec == Init /\ [][Next]_vars

-----------------------------------------------------------------------------
TypeOK ==
  /\ in \in Seq(Byte)
  /\ original \in Seq(Byte)
  /\ foreign \in BOOLEAN
  /\ ip \in 1..Len(in) + 2
  /\ t \in [Byte -> -Int32Max - 1..Int32Max]
  /\ run \in -Int32Max - 1..Int32Max
  /\ prev \in Byte \cup {-1}
  /\ c \in Byte
  /\ out \in Seq(Byte)
  /\ pc \in {"count", "encode", "decode", "runByte", "expand", "short", "returned"}
  /\ result \in {"none", "nil", "corrupt"}

(***************************************************************************)
(* Decode gives back what Encode was given, for runs shorter than, as long *)
(* as and longer than what one, two or more length bytes hold.             *)
(***************************************************************************)
RunLengthRoundTrips ==
  pc = "returned" /\ ~foreign => result = "nil" /\ out = original

(***************************************************************************)
(* "Runs are collapsed only for byte values where doing so yields a net    *)
(* gain" (rle.go): the gains counted in the first pass are exactly the     *)
(* bytes saved by the second, so the encoding, without its bitmap, is      *)
(* shorter than the input by their sum and never longer.                   *)
(***************************************************************************)
GainsAreExact ==
  pc = "encode" /\ ip > Len(in) + 1 =>
    Len(out) = Len(in) - FoldSet(LAMBDA b, sum : sum + t[b], 0, {b \in Byte : t[b] > 0})

(***************************************************************************)
(* Whatever the encoding, one shorter than its bitmap included, Decode     *)
(* never writes beyond the output it was given, and it reports success     *)
(* only if it has filled it.                                               *)
(***************************************************************************)
DecodeStaysInside ==
  pc \in {"short", "decode", "runByte", "expand", "returned"} =>
    /\ Len(out) <= OutLen
    /\ result = "nil" => Len(out) = OutLen

(***************************************************************************)
(* The int32 counters never need more than their width: the gains of the   *)
(* first pass, and the run lengths of both (those that Decode adds up wrap *)
(* as the code's do).  The output keeps its bound, whatever the code.      *)
(***************************************************************************)
Inv == TypeOK /\ DecodeStaysInside
=============================================================================
