---------------------------- MODULE MCFileMetadata ----------------------------
(* An instance of FileMetadata for TLC. *)
EXTENDS FileMetadata

CONSTANTS x, y, bad

TwoNames == {x, y}
Lengths == [n \in {x, y, bad} |-> IF n = y THEN 2 ELSE 1]
E(at, next, name, vlen) == [at |-> at, next |-> next, name |-> name, vlen |-> vlen]

\* Two settings; a removal and a setting; a bad name before a setting, and a
\* link past the end after it; an entry that is cut off.
SomeBuffers == {
    [len |-> 24, entries |-> {E(0, 12, x, 1), E(12, 0, y, 1)}],
    [len |-> 24, entries |-> {E(0, 12, y, 1), E(12, 0, y, 0)}],
    [len |-> 24, entries |-> {E(0, 12, bad, 1), E(12, 16, y, 1)}],
    [len |-> 23, entries |-> {E(0, 12, x, 0), E(12, 0, y, 1)}]}

Interchangeable == Permutations(Threads)
=============================================================================
