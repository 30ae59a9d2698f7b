------------------------------- MODULE MCFileIO -------------------------------
(* Instances of FileIO for TLC. *)
EXTENDS FileIO, TLC

CONSTANTS name, alias

\* A request carries nothing of the thread that serves it.
Interchangeable == Permutations(Threads)
=============================================================================
