--------------------------- MODULE EncodedStream ---------------------------
(***************************************************************************)
(* What any bzip3 encoder promises: it takes the bytes of Input in order   *)
(* and appends to out, in order, exactly the segments of the stream that   *)
(* the format prescribes for the bytes taken.  A full block may be         *)
(* written as soon as its bytes are taken, a short one only when the end   *)
(* of the input is known.  An encoder that fails may leave part of the     *)
(* next segment and writes nothing afterwards; one that succeeds has       *)
(* written the whole stream.                                               *)
(***************************************************************************)
EXTENDS Bzip3Format

CONSTANT Input          \* the bytes the encoder may be given

VARIABLES taken,        \* how many bytes of Input it has taken
          out,          \* the segments it has written
          status        \* "open", "ending" (end of input known), "closed", "failed"

vars == <<taken, out, status>>

Data == SubSeq(Input, 1, taken)

Init == /\ taken = 0
        /\ out = <<>>
        /\ status = "open"

Running == status \in {"open", "ending"}

Take == /\ status = "open"
        /\ taken' \in taken..Len(Input)
        /\ status' \in {"open", "ending"}
        /\ UNCHANGED out

(* Segment i belongs to a block whose bytes are all known. *)
Ready(i) == \/ i = 1
            \/ (i \div 2) * BlockSize <= taken
            \/ status = "ending" /\ (i \div 2 - 1) * BlockSize < taken

Emit == /\ Running
        /\ Ready(Len(out) + 1)
        /\ out' = Append(out, Segment(Data, Len(out) + 1))
        /\ \/ status' = status
           \/ status = "ending" /\ out' = Stream(Data) /\ status' = "closed"
        /\ UNCHANGED taken

Close == /\ Running
         /\ out = Stream(Data)
         /\ status' = "closed"
         /\ UNCHANGED <<taken, out>>

Fail == /\ Running
        /\ status' = "failed"
        /\ \/ out' = out
           \/ Ready(Len(out) + 1) /\ out' = Append(out, Part)
        /\ UNCHANGED taken

Next == Take \/ Emit \/ Close \/ Fail

Spec == Init /\ [][Next]_vars
=============================================================================
