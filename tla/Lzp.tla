-------------------------------- MODULE Lzp --------------------------------
(***************************************************************************)
(* internal/lzp/lzp.go.  Compress and Decompress walk the data with the    *)
(* same hash table, which gives for the last few bytes (the context) the   *)
(* position where they were last seen.  Compress replaces a long enough    *)
(* match with the bytes at that position by a match byte and a length;     *)
(* where a match could stand, a literal match byte is escaped.             *)
(*                                                                         *)
(* Positions count from 0 as in the code: byte p of s is s[p + 1].         *)
(***************************************************************************)
EXTENDS StageBytes

CONSTANTS
  MatchByte,     \* 0xf2
  Word,          \* 4: bytes of a context, and compared at a time
  MinMatch,      \* 40
  Rest,          \* 32: bytes after a match that are never part of one
  Slack,         \* 8: bytes of the output Compress keeps in reserve
  DictSize, Hash(_),
  Inputs,        \* what Compress is given
  ForeignCodes,  \* what else Decompress may be given
  Rooms          \* output limits it is given with those

Escape == MaxByte
Long   == MaxByte - 1   \* continues a length

ASSUME LzpAssumption ==
  /\ MaxByte \in Nat \ {0, 1} /\ MatchByte \in Byte
  /\ Word \in Nat \ {0} /\ MinMatch \in Nat /\ MinMatch >= Word
  /\ Rest \in Nat /\ MinMatch + Rest >= 2 * Word
  /\ Slack \in Nat \ {0, 1} /\ Int32Max \in Nat /\ DictSize \in Nat \ {0}
  /\ \A w \in [1..Word -> Byte] : Hash(w) \in 0..DictSize - 1
  /\ Inputs \subseteq Seq(Byte) /\ \A s \in Inputs : Len(s) <= Int32Max
  /\ ForeignCodes \subseteq Seq(Byte)
  /\ Rooms \subseteq Nat /\ \A l \in Rooms : l >= Word

MaxOf(a, b) == IF a >= b THEN a ELSE b

VARIABLES
  src,       \* in: the input of Compress, then that of Decompress
  text,      \* what Decompress should give, if alien is FALSE
  alien,     \* src was not made by Compress
  outEnd,    \* Decompress: len(out)
  at,        \* i: bytes of src consumed
  dst,       \* out: bytes written
  lut,       \* the hash table; 0 is no position
  heur,      \* Compress: a position before which matches are known to be short
  stage,
  answer     \* what the last call returned

lzpVars == <<src, text, alien, outEnd, at, dst, lut, heur, stage, answer>>

Clear == [h \in 0..DictSize - 1 |-> 0]

(* Both calls start by copying the first context. *)
Start(s) == at = Word /\ dst = SubSeq(s, 1, Word) /\ lut = Clear

LzpInit ==
  /\ heur = 0
  /\ answer = 0
  /\ \/ /\ src \in Inputs
        /\ text = src
        /\ alien = FALSE
        /\ outEnd = 0
        /\ IF Len(src) < MinMatch + Rest
             THEN at = 0 /\ dst = <<>> /\ lut = Clear /\ stage = "tooSmall"
             ELSE Start(src) /\ stage = "compress"
     \/ /\ src \in ForeignCodes
        /\ text = <<>>
        /\ alien = TRUE
        /\ outEnd \in Rooms
        /\ IF Len(src) < Word
             THEN at = 0 /\ dst = <<>> /\ lut = Clear /\ stage = "tooSmall"
             ELSE Start(src) /\ stage = "decompress"

Return(r) == stage' = "returned" /\ answer' = r

-----------------------------------------------------------------------------
WordAt(s, p) == SubSeq(s, p + 1, p + Word)

(* Looking a context up always puts the current position in its place.       *)
Entry(s, p) == Hash(WordAt(s, p - Word))

limit  == Len(src) - MinMatch - Rest
outEOB == Len(src) - Slack

(* How far the match of i with ref goes: words, then single bytes. *)
Words(ref) ==
  LET stop(k) == \/ at + Word * k >= limit
                 \/ WordAt(src, at + Word * k) # WordAt(src, ref + Word * k)
  IN  Word * (CHOOSE k \in 1..Len(src) : stop(k) /\ \A h \in 1..k - 1 : ~stop(h))

MatchLen(ref) ==
  LET w == Words(ref)
  IN  w + Max({e \in 0..Word - 1 :
                 SubSeq(src, at + w + 1, at + w + e) = SubSeq(src, ref + w + 1, ref + w + e)})

(* The tests that come before the comparison of all words.                   *)
Candidate(ref) ==
  /\ ref > 0
  /\ WordAt(src, at + MinMatch - Word) = WordAt(src, ref + MinMatch - Word)
  /\ WordAt(src, at) = WordAt(src, ref)
  /\ heur > at => WordAt(src, heur) = WordAt(src, ref + heur - at)

(* The bytes of a length; those that no longer fit into the reserve, where   *)
(* Compress is going to give up, are left out.                               *)
LengthBytes(len) ==
  LET full == MinOf(len \div Long, MaxOf(1, outEOB - Len(dst) - 1))
  IN  [k \in 1..full |-> Long] \o <<(len - full * Long) % (MaxByte + 1)>>

(* Faulty variant: every match byte is escaped. *)
EscapedAlways(b, val) == b = MatchByte

Escaped(b, val) == b = MatchByte /\ val > 0

Literal(val) ==
  LET b == src[at + 1]
  IN  /\ dst' = dst \o <<b>> \o (IF Escaped(b, val) THEN <<Escape>> ELSE <<>>)
      /\ at' = at + 1

CompressNext ==
  /\ stage = "compress"
  /\ at < Len(src) /\ Len(dst) < outEOB
  /\ LET val     == lut[Entry(src, at)]
         found   == at < limit /\ Candidate(val)
         matched == found /\ Words(val) >= MinMatch
     IN  /\ IF matched
              THEN /\ dst' = dst \o <<MatchByte>> \o LengthBytes(MatchLen(val) - MinMatch)
                   /\ at' = at + MatchLen(val)
              ELSE Literal(val)
         /\ heur' = IF found /\ ~matched THEN MaxOf(heur, at + Words(val)) ELSE heur
         /\ lut' = [lut EXCEPT ![Entry(src, at)] = at]
  /\ UNCHANGED <<src, text, alien, outEnd, stage, answer>>

(* A result that is not smaller than the input is given up; any other is     *)
(* decompressed, into a buffer of just the right size or a larger one.       *)
CompressReturns ==
  /\ stage = "compress"
  /\ at >= Len(src) \/ Len(dst) >= outEOB
  /\ heur' = 0
  /\ IF Len(dst) >= outEOB
       THEN Return(-1) /\ UNCHANGED <<src, outEnd, at, dst, lut>>
       ELSE /\ src' = dst
            /\ outEnd' \in {Len(text), Len(text) + 1}
            /\ at' = Word /\ dst' = SubSeq(dst, 1, Word) /\ lut' = Clear
            /\ stage' = "decompress" /\ answer' = Len(dst)
  /\ UNCHANGED <<text, alien>>

(* Either call refuses an input too short for it. *)
TooSmall == /\ stage = "tooSmall"
            /\ Return(-1)
            /\ UNCHANGED <<src, text, alien, outEnd, at, dst, lut, heur>>

-----------------------------------------------------------------------------
Running == stage = "decompress" /\ at < Len(src) /\ Len(dst) < outEnd
Val     == lut[Entry(dst, Len(dst))]
AtMatch == src[at + 1] = MatchByte /\ Val > 0
Lookup  == /\ lut' = [lut EXCEPT ![Entry(dst, Len(dst))] = Len(dst)]
           /\ UNCHANGED <<src, text, alien, outEnd, heur>>
Go      == UNCHANGED <<stage, answer>>

DecompressLiteral == /\ Running /\ ~AtMatch
                     /\ dst' = Append(dst, src[at + 1])
                     /\ at' = at + 1
                     /\ Lookup /\ Go

DecompressEscape == /\ Running /\ AtMatch
                    /\ at + 1 < Len(src) /\ src[at + 2] = Escape
                    /\ dst' = Append(dst, MatchByte)
                    /\ at' = at + 2
                    /\ Lookup /\ Go

(* Where the length that follows the match byte ends, if it does.            *)
LengthEnds == {p \in at + 1..Len(src) - 1 : src[p + 1] # Long}

(* Faulty variant: a match is copied in full whatever room is left. *)
Unshortened(len) == MaxOf(len, 0)

Shortened(len) == MaxOf(MinOf(len, outEnd - Len(dst)), 0)

(* Byte by byte, so that a match may overlap itself.  A length that wrapped  *)
(* to a negative one copies nothing; the next match may then be with the     *)
(* very position being written, where buffer content of any kind is left.    *)
DecompressMatch ==
  /\ Running /\ AtMatch
  /\ LengthEnds # {}
  /\ at + 1 < Len(src) /\ src[at + 2] # Escape
  /\ LET p   == Min(LengthEnds)
         len == Shortened(Int32(MinMatch + Long * (p - at - 1) + src[p + 1]))
         o   == Len(dst)
     IN  /\ at' = p + 1
         /\ \E stale \in IF Val = o THEN [1..len -> Byte] ELSE {<<>>} :
              dst' = dst \o [k \in 1..len |-> IF Val = o THEN stale[k]
                                              ELSE dst[Val + 1 + ((k - 1) % (o - Val))]]
  /\ Lookup /\ Go

DecompressCut == /\ Running /\ AtMatch
                 /\ LengthEnds = {}
                 /\ Return(-1)
                 /\ Lookup /\ UNCHANGED <<at, dst>>

DecompressReturns == /\ stage = "decompress" /\ ~Running
                     /\ Return(Len(dst))
                     /\ UNCHANGED <<src, text, alien, outEnd, at, dst, lut, heur>>

LzpNext == \/ CompressNext \/ CompressReturns \/ TooSmall
           \/ DecompressLiteral \/ DecompressEscape \/ DecompressMatch
           \/ DecompressCut \/ DecompressReturns
           \/ stage = "returned" /\ UNCHANGED lzpVars

LzpSpec == LzpInit /\ [][LzpNext]_lzpVars

-----------------------------------------------------------------------------
(***************************************************************************)
(* Positions stay where the code may use them: neither call writes beyond  *)
(* the end of its output, whatever the code, and a table entry is never    *)
(* ahead of the byte being written.                                        *)
(***************************************************************************)
PositionsInRange ==
  /\ src \in Seq(Byte) /\ dst \in Seq(Byte)
  /\ at \in 0..Len(src)
  /\ Len(dst) <= IF stage = "compress" THEN Len(src) ELSE MaxOf(outEnd, Len(src))
  /\ stage = "decompress" => Len(dst) <= outEnd
  /\ \A h \in 0..DictSize - 1 : stage \in {"compress", "decompress"} =>
       lut[h] \in 0..(IF stage = "compress" THEN at ELSE Len(dst))
  /\ heur \in 0..Len(src)

(***************************************************************************)
(* What Compress has made is smaller than its input by the reserve at      *)
(* least, and Decompress gives the input back, wherever contexts collide,  *)
(* matches overlap themselves or literals look like matches.               *)
(***************************************************************************)
LzpRoundTrips ==
  /\ stage = "decompress" /\ ~alien => Len(src) < Len(text) - Slack
  /\ stage = "returned" /\ ~alien /\ outEnd > 0 => dst = text /\ answer = Len(text)
=============================================================================
