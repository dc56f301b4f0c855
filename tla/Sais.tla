-------------------------------- MODULE Sais --------------------------------
(***************************************************************************)
(* internal/sais: suffix sorting by induced sorting of the left-most       *)
(* S-type suffixes (LMS).  One array SA serves for everything: it receives *)
(* the result, it holds the reduced text that the recursive call sorts,    *)
(* and what is left at its end (fs entries) holds bucket tables.  One step *)
(* is one loop nest of computeSA.                                          *)
(*                                                                         *)
(* computeSA_byte sorts the text, computeSA_int, line by line the same,    *)
(* the reduced texts; here both are a frame of the call stack.  Positions  *)
(* count from 0.  The cursor that the code keeps in a local and writes     *)
(* back to its bucket when the character changes is the bucket itself.     *)
(***************************************************************************)
EXTENDS Integers, Sequences, SequencesExt

CONSTANTS Alphabet,       \* 256: the number of byte values
          MinBucketSize,  \* 512: tables up to this size are allocated, not put into SA
          Texts           \* the texts to sort

ASSUME SaisAssumption ==
  /\ MinBucketSize \in Nat /\ Alphabet \in 1..MinBucketSize
  /\ \A s \in Texts : s \in Seq(0..Alphabet - 1) /\ Len(s) >= 2

VARIABLES text,    \* the bytes to sort
          SA,      \* the one array, of the length of text
          frames,  \* call stack of computeSA, the innermost call last
          at       \* where the innermost call is; "sorted" when all have returned

saisVars == <<text, SA, frames, at>>

(* A call is given the offset of its text in SA (-1: it is not in SA), the   *)
(* length n of the text, the size k of its alphabet and the number fs of     *)
(* entries of SA after the first n that it may use.  ref is the text as the  *)
(* call was given it; d and D belong to sortLMS2.                            *)
Frame(off, n, k, fs, ref) ==
  [off |-> off, n |-> n, k |-> k, fs |-> fs, ref |-> ref,
   m |-> 0, name |-> 0, recount |-> FALSE, d |-> 0, D |-> <<>>]

SaisInit(s) == /\ text = s
               /\ SA = [x \in 0..Len(s) - 1 |-> 0]
               /\ frames = <<Frame(-1, Len(s), Alphabet, 0, s)>>
               /\ at = "place"

Innermost == Last(frames)

Not(x) == -x - 1     \* ^x

(* Loops over 0..n-1 upwards and downwards.  (As functions: TLC evaluates    *)
(* them much faster than folds over a sequence of indices.)                  *)
Up(step(_, _), s0, n) ==
  LET s[x \in 0..n] == IF x = 0 THEN s0 ELSE step(s[x - 1], x - 1) IN s[n]
Down(step(_, _), s0, n) ==
  LET s[x \in 0..n] == IF x = 0 THEN s0 ELSE step(s[x - 1], n - x) IN s[n]

Indices(n) == [x \in 1..n |-> x - 1]

-----------------------------------------------------------------------------
(* The text of a call, where it is now. *)
T(f) == [x \in 0..f.n - 1 |-> IF f.off = -1 THEN text[x + 1] ELSE SA[f.off + x]]

(***************************************************************************)
(* Where the tables of a call are: C (how often each character occurs), B  *)
(* (the cursors of its buckets) and D (marks) each have an offset in SA or *)
(* are allocated (-1); B and C may be one table.                           *)
(***************************************************************************)
Small(f)  == f.k <= MinBucketSize
Shared(f) == ~Small(f) /\ (f.k > f.fs \/ (2 * f.k > f.fs /\ f.k > 4 * MinBucketSize))
CAt(f)    == IF ~Small(f) /\ f.k <= f.fs THEN f.n + f.fs - f.k ELSE -1
BAt(f)    == CASE Shared(f)                          -> CAt(f)
               [] Small(f) /\ f.k <= f.fs            -> f.n + f.fs - f.k
               [] ~Small(f) /\ 2 * f.k <= f.fs       -> f.n + f.fs - 2 * f.k
               [] OTHER                              -> -1
DAt(f)    == IF BAt(f) # -1 /\ ~Shared(f) /\ BAt(f) - 2 * f.k >= f.n
               THEN BAt(f) - 2 * f.k ELSE -1

(* Which of the two ways of sorting LMS substrings is taken. *)
Marked(f) == f.n \div f.k >= 2 /\ (Small(f) \/ DAt(f) # -1)

Region(start, len) == IF start = -1 THEN {} ELSE start..start + len - 1

(* SA once the tables have been used: C holds the counts, what is left in B  *)
(* and D (scratch) is a value that nobody expects.                           *)
Gone == -1000000
B(f) == Region(BAt(f), f.k)
D(f) == IF Marked(f) THEN Region(DAt(f), 2 * f.k) ELSE {}
WithTables(sa, f, cnt, scratch) ==
  [x \in scratch |-> Gone] @@ [x \in Region(CAt(f), f.k) |-> cnt[x - CAt(f)]] @@ sa

-----------------------------------------------------------------------------
Counts(t, k) == [c \in 0..k - 1 |-> Cardinality({x \in DOMAIN t : t[x] = c})]

(* The counts a call works with: those it stored, unless B has overwritten   *)
(* them or their place was given up for the recursive call.                  *)
C(f) == IF f.recount \/ Shared(f) \/ CAt(f) = -1
          THEN Counts(T(f), f.k)
          ELSE [c \in 0..f.k - 1 |-> SA[CAt(f) + c]]

(* getBuckets *)
Ends(cnt)   == LET e[c \in {-1} \cup DOMAIN cnt] == IF c = -1 THEN 0 ELSE e[c - 1] + cnt[c]
               IN  [c \in DOMAIN cnt |-> e[c]]
Starts(cnt) == LET e == Ends(cnt) IN [c \in DOMAIN cnt |-> e[c] - cnt[c]]

(* The scan for left-most S-type positions: those where a stretch of         *)
(* suffixes that are smaller than their successor begins after one that is   *)
(* greater.                                                                  *)
LMS(t) == LET n == Cardinality(DOMAIN t)
              S[x \in 0..n - 1] ==
                x < n - 1 /\ (t[x] < t[x + 1] \/ (t[x] = t[x + 1] /\ S[x + 1]))
          IN  SelectSeq(Indices(n), LAMBDA x : x > 0 /\ S[x] /\ ~S[x - 1])

(* Put v at the cursor of c, which moves up afterwards, or down before.      *)
PutUp(s, c, v)   == [s EXCEPT !.sa[s.b[c]] = v, !.b[c] = @ + 1]
PutDown(s, c, v) == [s EXCEPT !.sa[s.b[c] - 1] = v, !.b[c] = @ - 1]

(* The innermost call goes on at l, with sa in SA and f as its frame. *)
Goto(l, sa, f) == /\ at' = l
                  /\ SA' = sa
                  /\ frames' = Append(Front(frames), f)
                  /\ UNCHANGED text

-----------------------------------------------------------------------------
(***************************************************************************)
(* Stage 1: sort the LMS substrings.  The position before each LMS one is  *)
(* put at the end of the bucket of the latter, last one first; the first   *)
(* LMS one only takes its place there, unless it is the only one.          *)
(***************************************************************************)
Place ==
  /\ at = "place"
  /\ LET f      == Innermost
         t      == T(f)
         cnt    == Counts(t, f.k)
         l      == LMS(t)
         m      == Len(l)
         zero   == [x \in 0..f.n - 1 |-> 0] @@ SA
         put(s, x) == PutDown(s, t[l[x + 1]],
                              IF m = 1 THEN l[1] ELSE IF x = 0 THEN 0 ELSE l[x + 1] - 1)
         placed == Down(put, [sa |-> zero, b |-> Ends(cnt)], m)
     IN  Goto(IF m > 1 THEN "sort" ELSE "induceUp",
              WithTables(placed.sa, f, cnt, B(f)), [f EXCEPT !.m = m, !.name = m])

(***************************************************************************)
(* sortLMS1.  Going up, each position found is replaced by its predecessor *)
(* in the latter's bucket; a predecessor that belongs to the other pass is *)
(* complemented, and going over it makes it a position for that pass.      *)
(***************************************************************************)
PlainUp(f, t) ==
  LET before(j) == IF t[j - 1] < t[j] THEN Not(j - 1) ELSE j - 1
      step(s, x) ==
        LET j == s.sa[x]
        IN  CASE j > 0 -> [PutUp(s, t[j], before(j)) EXCEPT !.sa[x] = 0]
              [] j < 0 -> [s EXCEPT !.sa[x] = Not(j)]
              [] j = 0 -> s
      start == PutUp([sa |-> SA, b |-> Starts(C(f))], t[f.n - 1], before(f.n - 1))
  IN  Up(step, start, f.n).sa

(* Going down.  Where the predecessor is greater, the position itself is an  *)
(* LMS one, and stays, complemented.                                         *)
PlainDown(f, t) ==
  LET step(s, x) ==
        LET j == s.sa[x]
        IN  IF j > 0
              THEN [PutDown(s, t[j], IF t[j - 1] > t[j] THEN Not(j) ELSE j - 1)
                      EXCEPT !.sa[x] = 0]
              ELSE s
  IN  Down(step, [sa |-> SA, b |-> Ends(C(f))], f.n).sa

(***************************************************************************)
(* sortLMS2 does the same and marks, by adding n, every position that      *)
(* starts a run of equal substrings: d numbers the runs met so far, D      *)
(* holds for each bucket and type the run last put there.                  *)
(***************************************************************************)
Unmarked(f, j) == IF j >= f.n THEN j - f.n ELSE j

(* Before: the lowest position in each bucket starts a run. *)
MarkBucketsNot(f, t) == SA    \* Faulty variant: no position is marked.

MarkBuckets(f, t) ==
  LET l == LMS(t)
      end == Ends(C(f))
      placed(c) == Cardinality({x \in 2..f.m : t[l[x]] = c})
      low == {end[c] - placed(c) : c \in {c \in 0..f.k - 1 : placed(c) > 0}}
  IN  [x \in low |-> SA[x] + f.n] @@ SA

(* The run of what is at x; the mark that what takes its place in bucket c   *)
(* gets; and that bucket noted for the run.  flip says which type it has.    *)
RunOf(f, s, x)         == IF s.sa[x] >= f.n THEN s.d + 1 ELSE s.d
KeyOf(c, flip)         == 2 * c + (IF flip THEN 1 ELSE 0)
MarkOf(f, s, x, key)   == IF s.D[key] # RunOf(f, s, x) THEN f.n ELSE 0
Noted(f, s, x, key, r) == [r EXCEPT !.sa[x] = 0, !.d = RunOf(f, s, x), !.D[key] = RunOf(f, s, x)]

MarkedUp(f, t) ==
  LET n == f.n
      step(s, x) ==
        LET j == s.sa[x]
            q == Unmarked(f, j)
            flip == t[q - 1] < t[q]
            key == KeyOf(t[q], flip)
            v == q - 1 + MarkOf(f, s, x, key)
        IN  CASE j > 0 -> Noted(f, s, x, key, PutUp(s, t[q], IF flip THEN Not(v) ELSE v))
              [] j < 0 -> [s EXCEPT !.sa[x] = Not(j)]
              [] j = 0 -> s
      first == IF t[n - 2] < t[n - 1] THEN Not(n - 2 + n) ELSE n - 2 + n
      start == PutUp([sa |-> MarkBuckets(f, t), b |-> Starts(C(f)), d |-> 0,
                      D |-> [x \in 0..2 * f.k - 1 |-> 0]], t[n - 1], first)
  IN  Up(step, start, n)

MarkedDown(f, t) ==
  LET step(s, x) ==
        LET j == s.sa[x]
            q == Unmarked(f, j)
            flip == t[q - 1] > t[q]
            key == KeyOf(t[q], flip)
            v == q - 1 + MarkOf(f, s, x, key)
        IN  IF j > 0
              THEN Noted(f, s, x, key, PutDown(s, t[q], IF flip THEN Not(v + 1) ELSE v))
              ELSE s
  IN  Down(step, [sa |-> SA, b |-> Ends(C(f)), d |-> f.d + 1, D |-> f.D], f.n).sa

SortUp ==
  /\ at = "sort"
  /\ LET f == Innermost
         s == MarkedUp(f, T(f))
     IN  IF Marked(f)
           THEN Goto("moveMarks", s.sa, [f EXCEPT !.d = s.d, !.D = s.D])
           ELSE Goto("sortDown", PlainUp(f, T(f)), f)

(* A mark is at the start of a run going up; move it to its start going down. *)
MoveMarks ==
  /\ at = "moveMarks"
  /\ LET f == Innermost
         step(s, x) ==
           CASE s.sa[x] <= 0 \/ (s.open <=> s.sa[x] < f.n) -> s
             [] s.open  /\ s.sa[x] >= f.n ->
                  [sa |-> [s.sa EXCEPT ![x] = @ - f.n], open |-> FALSE]
             [] ~s.open /\ s.sa[x] \in 1..f.n - 1 ->
                  [sa |-> [s.sa EXCEPT ![x] = @ + f.n], open |-> TRUE]
     IN  Goto("sortDown", Down(step, [sa |-> SA, open |-> FALSE], f.n).sa, f)

SortDown ==
  /\ at = "sortDown"
  /\ LET f == Innermost
         sa == IF Marked(f) THEN MarkedDown(f, T(f)) ELSE PlainDown(f, T(f))
     IN  Goto("name", WithTables(sa, f, C(f), B(f) \cup D(f)), [f EXCEPT !.d = 0, !.D = <<>>])

-----------------------------------------------------------------------------
(***************************************************************************)
(* postProcLMS1 and postProcLMS2: bring the sorted LMS positions to the    *)
(* start of SA and give equal substrings equal names, the one of position  *)
(* p at SA[m + p/2].                                                       *)
(***************************************************************************)
Compact(f, sa) ==
  LET found == SelectSeq(Indices(f.n), LAMBDA x : sa[x] < 0)
  IN  [x \in 0..f.m - 1 |-> Not(sa[found[x + 1]])] @@ [x \in Range(found) |-> 0] @@ sa

(* Compare each substring with its predecessor: s.q is the last one that got *)
(* a new name, of length s.qlen.                                             *)
NameByComparing(f, t, sa) ==
  LET l == LMS(t)
      next(p) == CHOOSE x \in {f.n - 1} \cup {y \in Range(l) : y > p} :
                   x > p /\ \A y \in Range(l) : y > p => x <= y
      plen(p) == next(p) - p + 1
      step(s, x) ==
        LET p == s.sa[x]
            same == /\ plen(p) = s.qlen
                    /\ s.q + plen(p) < f.n
                    /\ \A y \in 0..plen(p) - 1 : t[p + y] = t[s.q + y]
            new == IF same THEN s ELSE [s EXCEPT !.name = @ + 1, !.q = p, !.qlen = plen(p)]
        IN  [new EXCEPT !.sa[f.m + p \div 2] = new.name]
  IN  Up(step, [sa |-> sa, name |-> 0, q |-> f.n, qlen |-> 0], f.m)

(* The marks say where a run of equal substrings ends.                       *)
NameByMarks(f, sa) ==
  LET name == Cardinality({x \in 0..f.m - 1 : sa[x] >= f.n})
      step(s, x) ==
        LET d == IF sa[x] >= f.n THEN s.d - 1 ELSE s.d
        IN  [s EXCEPT !.sa[f.m + Unmarked(f, sa[x]) \div 2] = d, !.d = d]
  IN  [name |-> name,
       sa   |-> IF name < f.m
                  THEN Down(step, [sa |-> sa, d |-> name + 1], f.m).sa
                  ELSE [x \in 0..f.m - 1 |-> Unmarked(f, sa[x])] @@ sa]

Name ==
  /\ at = "name"
  /\ LET f == Innermost
         sa == Compact(f, SA)
         named == IF Marked(f) THEN NameByMarks(f, sa) ELSE NameByComparing(f, T(f), sa)
     IN  Goto(IF named.name < f.m THEN "reduce" ELSE "spread",
              named.sa, [f EXCEPT !.name = named.name])

-----------------------------------------------------------------------------
(***************************************************************************)
(* Stage 2: the names, in the order of the text, are a text of at most     *)
(* half the length, at the end of what the call may use.  A C that lies    *)
(* there is kept if there is room for it and counted again if not.         *)
(***************************************************************************)
GivesUpC(f) == ~Small(f) /\ ~Shared(f) /\ f.k + f.name > f.n + f.fs - 2 * f.m

(* Faulty variant: the reduced text may be put over a C that is kept.        *)
NewFsOverC(f) == f.n + f.fs - 2 * f.m

NewFs(f) == f.n + f.fs - 2 * f.m - (IF Small(f) \/ Shared(f) \/ GivesUpC(f) THEN 0 ELSE f.k)
RA(f)    == f.m + NewFs(f)

Reduce ==
  /\ at = "reduce"
  /\ LET f     == Innermost
         names == SelectSeq([x \in 1..f.n \div 2 |-> SA[f.m + x - 1]], LAMBDA v : v # 0)
         step(s, y) ==
           LET v == s.sa[f.m + y]
           IN  IF v = 0 THEN s ELSE [sa |-> [s.sa EXCEPT ![RA(f) + s.j] = v - 1], j |-> s.j - 1]
     IN  /\ at' = "place"
         /\ SA' = Down(step, [sa |-> SA, j |-> f.m - 1], f.n \div 2).sa
         /\ frames' = Front(frames) \o
                        <<[f EXCEPT !.recount = GivesUpC(f)],
                          Frame(RA(f), f.m, f.name, NewFs(f), [x \in 1..Len(names) |-> names[x] - 1])>>
         /\ UNCHANGED text

(* The recursive call has left the order of the names: translate it to       *)
(* positions.  The reduced text makes room for the LMS positions.            *)
Return ==
  /\ at = "return"
  /\ LET f  == Innermost
         l  == LMS(T(f))
         sa == [x \in Region(RA(f), f.m) |-> l[x - RA(f) + 1]] @@ SA
     IN  Goto("spread", [x \in 0..f.m - 1 |-> sa[RA(f) + sa[x]]] @@ sa, f)

-----------------------------------------------------------------------------
(***************************************************************************)
(* Stage 3: put the sorted LMS positions at the ends of their buckets, in  *)
(* place and last one first, with zeros between them ...                   *)
(***************************************************************************)
Spread ==
  /\ at = "spread"
  /\ LET f   == Innermost
         t   == T(f)
         end == Ends(C(f))
         step(s, x) ==
           LET pos == s.sa[x]
               q   == IF end[t[pos]] < s.j THEN end[t[pos]] ELSE s.j
           IN  [sa |-> (q - 1 :> pos) @@ [y \in q..s.j - 1 |-> 0] @@ s.sa, j |-> q - 1]
         s   == Down(step, [sa |-> SA, j |-> f.n], f.m)
     IN  Goto("induceUp", [x \in 0..s.j - 1 |-> 0] @@ s.sa, f)

(* ... and induce the order of all the others from them (induceSA): each     *)
(* position found puts its predecessor in the latter's bucket, complemented  *)
(* if it is for the other pass.                                              *)
InduceUp ==
  /\ at = "induceUp"
  /\ LET f == Innermost
         t == T(f)
         put(s, j) == PutUp(s, t[j], IF j > 0 /\ t[j - 1] < t[j] THEN Not(j) ELSE j)
         step(s, x) == LET j == s.sa[x]
                           r == [s EXCEPT !.sa[x] = Not(j)]
                       IN  IF j > 0 THEN put(r, j - 1) ELSE r
     IN  Goto("induceDown",
              Up(step, put([sa |-> SA, b |-> Starts(C(f))], f.n - 1), f.n).sa, f)

(* Faulty variant: a predecessor with the same character is for the other    *)
(* pass, too.                                                                *)
FinalOnTie(t, j) == j = 0 \/ t[j - 1] >= t[j]

(* The predecessor of j, put in by the pass down, is in its place already.   *)
Final(t, j) == j = 0 \/ t[j - 1] > t[j]

InduceDown ==
  /\ at = "induceDown"
  /\ LET f == Innermost
         t == T(f)
         put(s, j) == PutDown(s, t[j], IF Final(t, j) THEN Not(j) ELSE j)
         step(s, x) == LET j == s.sa[x]
                       IN  IF j > 0 THEN put(s, j - 1) ELSE [s EXCEPT !.sa[x] = Not(j)]
     IN  SA' = WithTables(Down(step, [sa |-> SA, b |-> Ends(C(f))], f.n).sa, f, C(f), B(f))
  /\ frames' = Front(frames)
  /\ at' = IF Len(frames) = 1 THEN "sorted" ELSE "return"
  /\ UNCHANGED text

SaisNext == \/ Place \/ SortUp \/ MoveMarks \/ SortDown \/ Name
            \/ Reduce \/ Return
            \/ Spread \/ InduceUp \/ InduceDown

-----------------------------------------------------------------------------
(* p comes before q in the order of the suffixes of s (positions from 0).    *)
SuffixLess(s, p, q) ==
  \E x \in 0..Len(s) : /\ p + x <= Len(s) /\ q + x < Len(s)
                       /\ \A y \in 1..x : s[p + y] = s[q + y]
                       /\ p + x = Len(s) \/ s[p + x + 1] < s[q + x + 1]

InSuffixOrder(s, n) == \A x \in 0..n - 2 : SuffixLess(s, SA[x], SA[x + 1])

(* ComputeSA leaves the suffix array of its text: every position once, the   *)
(* suffixes in ascending order.                                              *)
SuffixesSorted ==
  at = "sorted" => /\ DOMAIN SA = 0..Len(text) - 1
                   /\ {SA[x] : x \in DOMAIN SA} = DOMAIN SA
                   /\ InSuffixOrder(text, Len(text))

(* However computeSA got them, by names or by a recursive call on a text of  *)
(* names, it induces from the LMS suffixes in ascending order, at every      *)
(* level of the recursion.                                                   *)
LmsSuffixesSorted ==
  at = "spread" =>
    /\ {SA[x] : x \in 0..Innermost.m - 1} = Range(LMS(T(Innermost)))
    /\ InSuffixOrder(Innermost.ref, Innermost.m)

(* While a call works in SA, the texts and the counts that it and its        *)
(* callers still need, in the same array, stay as they are: the result, the  *)
(* reduced texts and the tables of all levels never overlap.                 *)
FramesIntact ==
  at # "sorted" =>
    \A d \in 1..Len(frames) :
      LET f == frames[d]
      IN  /\ \A x \in 1..f.n : T(f)[x - 1] = f.ref[x]
          /\ d < Len(frames) \/ at # "place" => C(f) = Counts(T(f), f.k)
=============================================================================
