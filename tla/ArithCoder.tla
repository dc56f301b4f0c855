----------------------------- MODULE ArithCoder -----------------------------
(***************************************************************************)
(* internal/cm/cm.go.  Encode narrows the interval low..high once per bit, *)
(* in proportion to how probable the model thinks the bit is, and writes   *)
(* the leading digits (bytes) on which both ends agree.  Decode repeats    *)
(* the same narrowing, told by the digits where the interval lies.  Both   *)
(* learn the same model on the way; one step of theirs that differs loses  *)
(* the rest of the block.                                                  *)
(*                                                                         *)
(* The sizes are parameters: digits of 0..Base - 1 for bytes, numbers of   *)
(* Digits of them for uint32, Symbols for 256, counters below 16 * Step    *)
(* for uint16.                                                             *)
(***************************************************************************)
EXTENDS Integers, Sequences

CONSTANTS
  Symbols,         \* 256
  Step,            \* 4096: 16 intervals of it make a probability
  Base, Digits,    \* 256 and 4
  Top,             \* 2^24
  Inputs,          \* what Encode is given
  ForeignSources,  \* what else Decode may be given
  Wanted           \* how many symbols are asked of it then

(* Powers of the base. *)
Power[n \in 0..Digits] == IF n = 0 THEN 1 ELSE Base * Power[n - 1]

(* Symbols have a fixed number of bits. *)
ASSUME SymbolsAssumption == /\ Symbols \in Nat /\ Symbols >= 2
                            /\ \A d \in 2..Symbols : Symbols % d = 0 => d % 2 = 0
ASSUME StepAssumption    == Step \in Nat \ {0}
ASSUME DigitsAssumption  == /\ Base \in Nat /\ Base >= 2 /\ Top \in Nat \ {0}
                            /\ Digits \in Nat \ {0}
ASSUME TopAssumption     == Top = Power[Digits - 1]
ASSUME InputsAssumption  == /\ Inputs \subseteq Seq(0..Symbols - 1)
                            /\ ForeignSources \subseteq Seq(0..Base - 1)
                            /\ Wanted \in Nat

Size  == Base * Top    \* 2^32
Scale == 16 * Step     \* 2^16

VARIABLES
  phase,             \* encode, flush, prime, decode or done
  c0, c1, c2,        \* Coder: what the model has learnt
  low, high,
  ctx,               \* the bits of the symbol so far after a 1; 0 between symbols
  run,
  last, beforeLast,  \* the local variables c1 and c2
  pos,               \* symbols finished
  c,                 \* Encode: the bits of the symbol still to come
  k,                 \* the loops that write and read Digits digits
  out,               \* the digits: what Encode writes and Decode reads
  data,              \* what Encode is given; <<>> if out is foreign
  code, inPos, dst,  \* Decode
  want               \* Decode: len(dst)

model    == <<c0, c1, c2>>
symbol   == <<ctx, run, last, beforeLast, pos>>
decoding == <<code, inPos, dst, want>>
vars     == <<phase, model, low, high, symbol, c, k, out, data, decoding>>

-----------------------------------------------------------------------------
(* Begin, and the first lines of Encode and of Decode. *)
Fresh0 == [x \in 1..Symbols - 1 |-> 8 * Step]
Fresh1 == [s \in 0..Symbols - 1 |-> Fresh0]
Fresh2 == [x \in 2..2 * Symbols - 1 |->
             [j \in 0..16 |-> IF j = 16 THEN Scale - 1 ELSE j * Step]]

Init == /\ c0 = Fresh0 /\ c1 = Fresh1 /\ c2 = Fresh2
        /\ low = 0 /\ high = Size - 1
        /\ ctx = 0 /\ run = 0 /\ last = 0 /\ beforeLast = 0 /\ pos = 0
        /\ c = 0 /\ k = 0 /\ code = 0 /\ inPos = 0 /\ dst = <<>>
        /\ \/ phase = "encode" /\ data \in Inputs /\ out = <<>> /\ want = Len(data)
           \/ phase = "prime" /\ data = <<>> /\ out \in ForeignSources /\ want = Wanted

Begin == /\ c0' = Fresh0 /\ c1' = Fresh1 /\ c2' = Fresh2
         /\ low' = 0 /\ high' = Size - 1
         /\ ctx' = 0 /\ run' = 0 /\ last' = 0 /\ beforeLast' = 0 /\ pos' = 0

-----------------------------------------------------------------------------
(* The prediction: the three counters, refined by the interpolated fourth.   *)
p0 == c0[ctx]
p1 == c1[last][ctx]
p2 == c1[beforeLast][ctx]
p  == ((p0 + p1) * 7 + p2 + p2) \div 16

row  == 2 * ctx + (IF run > 2 THEN 1 ELSE 0)
j1   == p \div Step
x1   == c2[row][j1]
x2   == c2[row][j1 + 1]
ssep == x1 + (((x2 - x1) * (p % Step)) \div Step)

mid == low + (((high - low) * (ssep * 3 + p)) \div (4 * Scale))

(* A counter moves a part of the way to the largest or to the smallest value. *)
Learn(x, bit, part) == IF bit THEN x + ((Scale - 1 - x) \div part) ELSE x - (x \div part)

(* Faulty variant: the bound itself stays in both halves. *)
LowAboveNothing == mid

LowAbove == mid + 1

Bit(bit) ==
  /\ IF bit THEN high' = mid /\ low' = low ELSE low' = LowAbove /\ high' = high
  /\ c0' = [c0 EXCEPT ![ctx] = Learn(p0, bit, 4)]
  /\ c1' = [c1 EXCEPT ![last][ctx] = Learn(p1, bit, 16)]
  /\ c2' = [c2 EXCEPT ![row][j1] = Learn(x1, bit, 64),
                      ![row][j1 + 1] = Learn(x2, bit, 64)]
  /\ ctx' = 2 * ctx + (IF bit THEN 1 ELSE 0)
  /\ UNCHANGED <<phase, run, last, beforeLast, pos, k, data, inPos, dst, want>>

(* The loop after each bit: no bit is coded while the leading digits agree. *)
Settled == low \div Top # high \div Top

Shift == /\ low' = (low * Base) % Size
         /\ high' = ((high * Base) % Size) + Base - 1
         /\ UNCHANGED <<phase, model, symbol, k, data, dst, want>>

Coding    == phase \in {"encode", "decode"} /\ Settled
BitToCome == Coding /\ ctx \in 1..Symbols - 1

BeginSymbol == /\ Coding /\ ctx = 0 /\ pos < want
               /\ ctx' = 1
               /\ run' = IF last = beforeLast THEN run + 1 ELSE 0
               /\ c' = IF phase = "encode" THEN data[pos + 1] ELSE 0
               /\ UNCHANGED <<phase, model, low, high, last, beforeLast, pos, k,
                              out, data, decoding>>

EndSymbol == /\ Coding /\ ctx >= Symbols
             /\ ctx' = 0 /\ pos' = pos + 1
             /\ beforeLast' = last /\ last' = ctx - Symbols
             /\ dst' = IF phase = "decode" THEN Append(dst, ctx - Symbols) ELSE dst
             /\ UNCHANGED <<phase, model, low, high, run, c, k, out, data,
                            code, inPos, want>>

-----------------------------------------------------------------------------
EncodeBit == /\ phase = "encode" /\ BitToCome
             /\ Bit(c >= Symbols \div 2)
             /\ c' = (2 * c) % Symbols
             /\ UNCHANGED <<out, code>>

EncodeShift == /\ phase = "encode" /\ ~Settled
               /\ out' = Append(out, low \div Top)
               /\ Shift
               /\ UNCHANGED <<c, code, inPos>>

EncodeEnds == /\ phase = "encode" /\ Settled /\ ctx = 0 /\ pos = want
              /\ phase' = "flush"
              /\ UNCHANGED <<model, low, high, symbol, c, k, out, data, decoding>>

Flush == /\ phase = "flush" /\ k < Digits
         /\ out' = Append(out, low \div Top)
         /\ low' = (low * Base) % Size
         /\ k' = k + 1
         /\ UNCHANGED <<phase, model, high, symbol, c, data, decoding>>

EncodeReturns == /\ phase = "flush" /\ k = Digits
                 /\ phase' = "prime" /\ k' = 0
                 /\ Begin
                 /\ UNCHANGED <<c, out, data, decoding>>

-----------------------------------------------------------------------------
(* One digit more at the end of code; all ones once there are none left.     *)
readIn == IF inPos < Len(out) THEN out[inPos + 1] ELSE Size - 1

ReadDigit == /\ code' = (code * Base + readIn) % Size
             /\ inPos' = IF inPos < Len(out) THEN inPos + 1 ELSE inPos
             /\ UNCHANGED <<c, out>>

Prime == /\ phase = "prime" /\ k < Digits
         /\ ReadDigit
         /\ k' = k + 1
         /\ UNCHANGED <<phase, model, low, high, symbol, data, dst, want>>

DecodeStarts == /\ phase = "prime" /\ k = Digits
                /\ phase' = "decode"
                /\ UNCHANGED <<model, low, high, symbol, c, k, out, data, decoding>>

(* Faulty variant: the bound itself is taken for the upper half. *)
DecodedBitStrict == code < mid

DecodedBit == code <= mid

DecodeBit == /\ phase = "decode" /\ BitToCome
             /\ Bit(DecodedBit)
             /\ UNCHANGED <<c, out, code>>

DecodeShift == phase = "decode" /\ ~Settled /\ ReadDigit /\ Shift

DecodeReturns == /\ phase = "decode" /\ Settled /\ ctx = 0 /\ pos = want
                 /\ phase' = "done"
                 /\ UNCHANGED <<model, low, high, symbol, c, k, out, data, decoding>>

Next == \/ BeginSymbol \/ EndSymbol
        \/ EncodeBit \/ EncodeShift \/ EncodeEnds \/ Flush \/ EncodeReturns
        \/ Prime \/ DecodeStarts \/ DecodeBit \/ DecodeShift \/ DecodeReturns
        \/ phase = "done" /\ UNCHANGED vars

Spec == Init /\ [][Next]_vars

-----------------------------------------------------------------------------
Counter == 0..Scale - 1

TypeOK ==
  /\ phase \in {"encode", "flush", "prime", "decode", "done"}
  /\ c0 \in [1..Symbols - 1 -> Counter]
  /\ c1 \in [0..Symbols - 1 -> [1..Symbols - 1 -> Counter]]
  /\ c2 \in [2..2 * Symbols - 1 -> [0..16 -> Counter]]
  /\ low \in 0..Size - 1 /\ high \in 0..Size - 1 /\ code \in 0..Size - 1
  /\ ctx \in 0..2 * Symbols - 1 /\ run \in Nat
  /\ last \in 0..Symbols - 1 /\ beforeLast \in 0..Symbols - 1
  /\ k \in 0..Digits
  /\ inPos \in 0..Len(out)
  /\ out \in Seq(0..Base - 1)

(* The interval is never empty, so every bit leaves a way on.                *)
IntervalNotEmpty == phase # "flush" => low <= high

(* Decode starts with the whole interval; as long as it has read real digits *)
(* only, the number they make lies in what is left of it.                    *)
CodeInInterval ==
  /\ phase = "prime" => low = 0 /\ high = Size - 1
  /\ phase = "decode" /\ inPos < Len(out) => low <= code /\ code <= high

(***************************************************************************)
(* The coder's state stays consistent, whatever the data or the source:    *)
(* counters within uint16 (so that a prediction is a proper fraction and   *)
(* its row of the fourth table exists), the interval never empty, the      *)
(* decoder's number inside it.                                             *)
(***************************************************************************)
IInv == TypeOK /\ IntervalNotEmpty /\ CodeInInterval

(***************************************************************************)
(* Decode gives back what Encode was given and reads every digit that it   *)
(* wrote, none more: the block codec finds nothing amiss and no digit was  *)
(* made up.                                                                *)
(***************************************************************************)
CoderRoundTrips ==
  phase = "done" /\ data # <<>> => dst = data /\ inPos = Len(out)
=============================================================================
