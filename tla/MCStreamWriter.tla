--------------------------- MODULE MCStreamWriter ---------------------------
(* Model-checking instance of StreamWriter: numbered bytes, so that a byte  *)
(* lost, repeated or moved shows, and blocks that compress differently.     *)
EXTENDS StreamRecovery

MCByte       == 1..10
MCInput      == [k \in 1..10 |-> k]
MCEncSize(b) == IF b[1] % 2 = 0 THEN 9 + Len(b) ELSE 8 + Len(b)
=============================================================================
