---------------------------- MODULE MCFileHandles ----------------------------
(* Instances of FileHandles for TLC. *)
EXTENDS FileHandles, TLC

CONSTANTS a, b, f1, f2, link

\* A file alone, or with a symlink that leads to it.
SmallNames == {a, b}
SmallFiles == {f1, f2, link}
ALink == {link}
ALinkTarget == [f \in ALink |-> a]
Plain == [n \in SmallNames |-> IF n = a THEN f1 ELSE Nil]
Linked1 == [n \in SmallNames |-> IF n = a THEN f1 ELSE link]
PlainOrLinked == {Plain, Linked1}
NoFiles == {}

Interchangeable == Permutations(Handles) \cup Permutations(Threads)
=============================================================================
