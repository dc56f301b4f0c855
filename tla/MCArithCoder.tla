---------------------------- MODULE MCArithCoder ----------------------------
(* Model-checking instance of ArithCoder: every input of up to MaxLength     *)
(* symbols, longer ones that repeat (for the run state) or alternate, and    *)
(* every source of up to MaxSource digits out of SomeDigits.                 *)
EXTENDS ArithCoder

CONSTANTS MaxLength, LongLength, MaxSource, SomeDigits

Symbol == 0..Symbols - 1

MCInputs ==
  UNION {[1..len -> Symbol] : len \in 0..MaxLength}
  \cup {[x \in 1..LongLength |-> IF x % m = 0 THEN b ELSE a] :
          a \in Symbol, b \in Symbol, m \in {2, 6}}

MCForeignSources == UNION {[1..len -> SomeDigits] : len \in 0..MaxSource}
=============================================================================
