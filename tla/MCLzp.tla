------------------------------- MODULE MCLzp -------------------------------
(* Model-checking instance of Lzp: bytes 0 (an ordinary one) to 3 (the       *)
(* escape), a table of two entries in which contexts collide.                *)
EXTENDS Lzp

MCHash(w) == (w[1] + w[2]) % 2

Plain(len)    == [1..len -> {0, MatchByte}]
Same(b, len)  == [k \in 1..len |-> b]
Altered(s, p) == [k \in 1..Len(s) |-> IF k = p THEN MatchByte - s[k] ELSE s[k]]

(* A text that comes twice, the second time with or without a change (after  *)
(* its end: none) that shortens or splits the match, and a tail of two runs; *)
(* and runs of one byte of every length, among them those too short.         *)
MCInputs ==
  {x \o Same(y, 1) \o Altered(x, p) \o Same(y, 4) \o Same(z, 5) :
     x \in Plain(9), y \in {0, MatchByte}, z \in {0, MatchByte}, p \in {4, 6, 10}}
  \cup {Same(b, len) : b \in {0, MatchByte}, len \in 0..28}

(* Any beginning, then lengths within range, negative once wrapped (13, 14)  *)
(* and wrapped to small ones (29), cut off or not.                           *)
MCForeignCodes ==
  {a \o <<MatchByte>> \o Same(Long, k) \o b :
     a \in [1..4 -> {0, MatchByte, Escape}], k \in {0, 1, 2, 5, 13, 14, 29},
     b \in UNION {[1..len -> {0, MatchByte, Escape}] : len \in 0..2}}
  \cup {<<>>, <<0>>}
=============================================================================
