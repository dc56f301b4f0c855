--------------------------- MODULE DecodedStream ---------------------------
(***************************************************************************)
(* What any bzip3 decoder promises: from a file, whoever made it, it       *)
(* delivers in order bytes of the blocks that come before the first        *)
(* fault, never anything else.  It reports success only when the file is   *)
(* faultless and all of it has been delivered, and it refuses a file (as   *)
(* opposed to failing on an I/O error) only when there is a fault in it.   *)
(***************************************************************************)
EXTENDS FileContents

CONSTANT Files          \* the files it may be given

-----------------------------------------------------------------------------
VARIABLES file,         \* the file being decoded
          out,          \* the bytes delivered
          status        \* "open", "done", "refused" or "ioFailed"

vars == <<file, out, status>>

Init == /\ file \in Files
        /\ out = <<>>
        /\ status = "open"

Deliver == /\ status = "open"
           /\ \E j \in Len(out)..Len(Content(file)) : out' = SubSeq(Content(file), 1, j)
           /\ UNCHANGED <<file, status>>

(* An empty file, without even a stream header, may be taken for an empty    *)
(* stream (the Reader does) or refused (decompressParallel does).            *)
Finish == /\ status = "open"
          /\ Intact(file) \/ file = <<>>
          /\ out' = Content(file)
          /\ status' = "done"
          /\ UNCHANGED file

Refuse == /\ status = "open"
          /\ ~Intact(file)
          /\ status' = "refused"
          /\ UNCHANGED <<file, out>>

IoFail == /\ status = "open"
          /\ status' = "ioFailed"
          /\ UNCHANGED file
          /\ \E j \in Len(out)..Len(Content(file)) : out' = SubSeq(Content(file), 1, j)

Next == Deliver \/ Finish \/ Refuse \/ IoFail

Spec == Init /\ [][Next]_vars
=============================================================================
