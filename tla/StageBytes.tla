----------------------------- MODULE StageBytes -----------------------------
(***************************************************************************)
(* Bytes and lengths, as the run-length and the LZP stage have them.  The  *)
(* largest byte, 255 in the code, is a constant, and so is the largest     *)
(* int32.                                                                  *)
(***************************************************************************)
EXTENDS Integers, Sequences, SequencesExt

CONSTANTS MaxByte,    \* the largest byte
          Int32Max    \* the largest int32

Byte == 0..MaxByte

Int32(x) == ((x + Int32Max + 1) % (2 * (Int32Max + 1))) - (Int32Max + 1)

MinOf(a, b) == IF a <= b THEN a ELSE b
=============================================================================
