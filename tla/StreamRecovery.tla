--------------------------- MODULE StreamRecovery ---------------------------
(***************************************************************************)
(* What a Writer (writer.go) leaves behind, decoded.  The writing program  *)
(* may stop at any time, in the middle of a Write, a flush or a Close, and *)
(* the end of the file may be lost, on a segment boundary or inside a      *)
(* segment, before it is read.  What the rest decodes to, to any decoder    *)
(* that implements DecodedStream, is its Content.                          *)
(***************************************************************************)
EXTENDS StreamWriter, FileContents

(* What may be left of the sink's segments in the file. *)
Remains == {SubSeq(sink, 1, k) : k \in 0..Len(sink)}
           \cup {Append(SubSeq(sink, 1, k), Part) : k \in 0..Len(sink) - 1}

(***************************************************************************)
(* Whatever was lost, what decodes is the beginning of the bytes written,  *)
(* and a loss goes unnoticed only between two blocks.  If only the program *)
(* stopped, every block that it has counted comes back, whatever call was  *)
(* in progress and however the last write ended; after a Close that        *)
(* returned nil, everything comes back and no decoder finds a fault.       *)
(***************************************************************************)
StoppedStreamDecodes ==
  /\ \A f \in Remains :
       LET c == Content(f)
       IN  /\ IsPrefix(c, Data)
           /\ Intact(f) => c = Data \/ Len(c) % BlockSize = 0
  /\ Len(Content(sink)) >= MinOf(blockCount * BlockSize, taken)
  /\ err = "closed" => /\ Intact(sink)
                       /\ Content(sink) = SubSeq(Input, 1, given)
=============================================================================
