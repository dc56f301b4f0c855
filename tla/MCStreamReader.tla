--------------------------- MODULE MCStreamReader ---------------------------
(* Model-checking instance of StreamReader, on the files of MCFiles. *)
EXTENDS StreamReader, MCFiles
=============================================================================
