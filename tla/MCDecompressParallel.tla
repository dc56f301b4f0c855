------------------------ MODULE MCDecompressParallel ------------------------
(* Model-checking instance of DecompressParallel, on the files of MCFiles. *)
EXTENDS DecompressParallel, MCFiles
=============================================================================
