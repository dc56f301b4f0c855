-------------------------------- MODULE Bwt --------------------------------
(***************************************************************************)
(* internal/bwt: the Burrows-Wheeler transform and its inverse.  Encode    *)
(* sorts the suffixes (module Sais) and outputs the bytes before them.     *)
(* Unbwt.Decode finds its way back two bytes at a time: it groups the rows *)
(* of the sorted matrix by the two bytes that follow in the text, keeps in *)
(* psi (the code's p) where each of them continues, and finds the group of *)
(* a row through fastbits, a sparse index of the groups.                   *)
(*                                                                         *)
(* Decode gets what Encode made, or whatever a damaged block held.  The    *)
(* Unbwt is used again and again and fastbits is never cleared, so what it *)
(* holds at the start is left open.  Rows, positions and w count from 0.   *)
(***************************************************************************)
EXTENDS Sais

CONSTANTS FastbitsLog,  \* 17: fastbits has 2^FastbitsLog + 1 entries
          Leftovers,    \* what an earlier use may have left in an entry of fastbits
          Damaged       \* records [in, idx]: the decoder's input from damaged blocks

ASSUME BwtAssumption ==
  /\ FastbitsLog \in Nat
  /\ Leftovers \subseteq 0..Alphabet * Alphabet - 1
  /\ \A d \in Damaged : d.in \in Seq(0..Alphabet - 1) /\ d.idx \in Int

VARIABLES in,        \* the transform
          idx,       \* the primary index
          fastbits,  \* sparse index of the groups of rows
          ends,      \* bucket2 after biPSI: where the group of each byte pair ends
          psi,       \* p: where the walk continues from each row
          here,      \* p0: the row the walk is at
          restored,  \* what Decode has written
          step       \* "encode", "decode", "walk", "done" or "invalid index"

decodeVars == <<fastbits, ends, psi, here, restored>>
bwtVars    == <<saisVars, in, idx, decodeVars, step>>

Pairs == 0..Alphabet * Alphabet - 1    \* w, a pair of bytes

(* fastbits in a decoder that has been used before, or not. *)
Used == [0..2^FastbitsLog -> Leftovers]

Idle == ends = [w \in Pairs |-> 0] /\ psi = <<>> /\ here = 0 /\ restored = <<>>

InitEncode(s) == /\ IF Len(s) >= 2 THEN SaisInit(s)
                    ELSE /\ text = s /\ SA = [x \in 0..Len(s) - 1 |-> 0]
                         /\ frames = <<>> /\ at = "sorted"
                 /\ in = <<>> /\ idx = 0 /\ step = "encode"
                 /\ fastbits = <<>> /\ Idle

InitDamaged(d) == /\ text = <<>> /\ SA = <<>> /\ frames = <<>> /\ at = "sorted"
                  /\ in = d.in /\ idx = d.idx /\ step = "decode"
                  /\ fastbits \in Used /\ Idle

BwtInit == \/ \E s \in Texts \cup {<<>>} \cup {<<c>> : c \in 0..Alphabet - 1} : InitEncode(s)
           \/ \E d \in Damaged : InitDamaged(d)

ComputeSA == step = "encode" /\ SaisNext /\ UNCHANGED <<in, idx, decodeVars, step>>

-----------------------------------------------------------------------------
(* The last byte, then the bytes before the suffixes in their order.  The    *)
(* whole text has none before it: its place becomes the primary index.       *)
Encode ==
  /\ step = "encode" /\ at = "sorted"
  /\ LET n == Len(text)
         whole  == CHOOSE x \in DOMAIN SA : SA[x] = 0
         others == RemoveAt([x \in 1..n |-> SA[x - 1]], whole + 1)
     IN  IF n <= 1
           THEN in' = text /\ idx' = n
           ELSE /\ in' = <<Last(text)>> \o [x \in DOMAIN others |-> text[others[x]]]
                /\ idx' = whole + 1
  /\ fastbits' \in Used
  /\ step' = "decode"
  /\ UNCHANGED <<saisVars, ends, psi, here, restored>>

-----------------------------------------------------------------------------
N    == Len(in)
Rows == (0..N) \ {idx}

FastbitsShift == CHOOSE x \in 0..N : /\ N \div 2^x <= 2^FastbitsLog
                                     /\ \A y \in 0..x - 1 : N \div 2^y > 2^FastbitsLog

(* The byte before row r, which in holds without a gap for row idx. *)
L(r) == in[IF r < idx THEN r + 1 ELSE r]

(* bucket1: the first row that starts with c. *)
FirstRow == [c \in 0..Alphabet |-> 1 + Cardinality({x \in 1..N : in[x] < c})]

(* bucket2: the rows are counted by the byte before them (w \div Alphabet)   *)
(* and the one at their start, then summed up.  One place is left free for   *)
(* the row that has the sentinel as its second byte, before the pairs that   *)
(* start with the last byte of the text.                                     *)
PairCount ==
  LET first == FirstRow
  IN  [w \in Pairs |->
         Cardinality({r \in Rows : /\ first[w % Alphabet] <= r /\ r < first[(w % Alphabet) + 1]
                                   /\ L(r) = w \div Alphabet})]

(* Faulty variant: no place is left free.                                    *)
PairStartsDense(count) ==
  LET s[w \in Pairs] == IF w = 0 THEN 1 ELSE s[w - 1] + count[w - 1]
  IN  [w \in Pairs |-> s[w]]

PairStarts(count) ==
  LET s[w \in Pairs] == (IF w = 0 THEN 1 ELSE s[w - 1] + count[w - 1])
                        + (IF w = in[1] * Alphabet THEN 1 ELSE 0)
  IN  [w \in Pairs |-> s[w]]

(* fastbits: for each stretch of 2^FastbitsShift places the first pair that  *)
(* ends in it or later.  Entries after the last pair are not written.        *)

(* Faulty variant: without the pair that ends at the start of the stretch.   *)
FastbitsLate(count, start) ==
  [v \in DOMAIN fastbits |->
     LET reach == {w \in Pairs : count[w] > 0 /\ (start[w] + count[w] - 1) \div 2^FastbitsShift > v}
     IN  IF reach = {} THEN fastbits[v] ELSE CHOOSE w \in reach : \A x \in reach : w <= x]

FastbitsOf(count, start) ==
  [v \in DOMAIN fastbits |->
     LET reach == {w \in Pairs : count[w] > 0 /\ (start[w] + count[w] - 1) \div 2^FastbitsShift >= v}
     IN  IF reach = {} THEN fastbits[v] ELSE CHOOSE w \in reach : \A x \in reach : w <= x]

(* biPSI: row r continues to the left with the next row that starts with the *)
(* byte before it, and is put at the next place of the pair of bytes before  *)
(* and at the start of that row.                                             *)
BiPSI(s, r) ==
  LET c  == L(r)
      pp == s.bucket1[c]
      w  == (L(pp) * Alphabet) + c
      t  == [s EXCEPT !.bucket1[c] = pp + 1]
  IN  IF r = idx THEN s
      ELSE IF pp = idx THEN t
      ELSE [t EXCEPT !.p[t.bucket2[w]] = r, !.bucket2[w] = @ + 1]

(* Decode up to the walk. *)
Prepare ==
  /\ step = "decode" /\ N >= 2 /\ idx \in 1..N
  /\ LET count == PairCount
         start == PairStarts(count)
         s == Up(BiPSI, [bucket1 |-> FirstRow, bucket2 |-> start, p |-> [x \in 0..N |-> 0]], N + 1)
     IN  /\ fastbits' = FastbitsOf(count, start)
         /\ ends' = s.bucket2
         /\ psi' = s.p
  /\ here' = idx
  /\ step' = "walk"
  /\ UNCHANGED <<saisVars, in, idx, restored>>

(* Texts of at most one byte are their own transform. *)
Copy ==
  /\ step = "decode" /\ N <= 1 /\ idx = N
  /\ restored' = in
  /\ step' = "done"
  /\ UNCHANGED <<saisVars, in, idx, fastbits, ends, psi, here>>

InvalidIndex ==
  /\ step = "decode"
  /\ IF N <= 1 THEN idx # N ELSE idx \notin 1..N
  /\ step' = "invalid index"
  /\ UNCHANGED <<saisVars, in, idx, decodeVars>>

(* The pairs among which the walk, looking upwards, finds that of its row. *)
Found == {w \in Pairs : w >= fastbits[here \div 2^FastbitsShift] /\ ends[w] > here}

Walk ==
  /\ step = "walk" /\ Len(restored) \div 2 < N \div 2
  /\ LET w == CHOOSE x \in Found : \A y \in Found : x <= y
     IN  restored' = restored \o <<w \div Alphabet, w % Alphabet>>
  /\ here' = psi[here]
  /\ UNCHANGED <<saisVars, in, idx, fastbits, ends, psi, step>>

(* The last byte is known, whatever the walk has made of it. *)
Finish ==
  /\ step = "walk" /\ Len(restored) \div 2 = N \div 2
  /\ restored' = Append(SubSeq(restored, 1, N - 1), in[1])
  /\ step' = "done"
  /\ UNCHANGED <<saisVars, in, idx, fastbits, ends, psi, here>>

(* The call has returned. *)
Returned == step \in {"done", "invalid index"} /\ UNCHANGED bwtVars

BwtNext == \/ ComputeSA \/ Encode
           \/ Prepare \/ Copy \/ InvalidIndex \/ Walk \/ Finish
           \/ Returned

BwtSpec == BwtInit /\ [][BwtNext]_bwtVars

-----------------------------------------------------------------------------
(* What Encode made of a text, Decode turns back into it, whatever an        *)
(* earlier use has left in fastbits.                                         *)
BwtRoundTrips == step = "done" /\ text # <<>> => restored = text

(* "Any idx in the valid range decodes without out-of-bounds access": on     *)
(* whatever a block held, also with what an earlier use has left in          *)
(* fastbits, the walk stays inside psi and fastbits, and the search for the  *)
(* pair of a row ends before the end of bucket2.                             *)
LookupsInRange ==
  step = "walk" /\ Len(restored) \div 2 < N \div 2 =>
    /\ here \in 0..N
    /\ here \div 2^FastbitsShift \in 0..2^FastbitsLog
    /\ Found # {}
=============================================================================
