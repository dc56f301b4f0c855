------------------------- MODULE MCCompressParallel -------------------------
(* Model-checking instance of CompressParallel: numbered bytes, and blocks  *)
(* that compress differently.                                               *)
EXTENDS CompressParallelProofs

CONSTANT InputLength

MCByte       == 1..InputLength
MCInput      == [k \in 1..InputLength |-> k]
MCEncSize(b) == IF b[1] % 2 = 0 THEN 9 + Len(b) ELSE 8 + Len(b)
=============================================================================
