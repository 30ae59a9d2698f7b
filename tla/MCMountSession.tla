---------------------------- MODULE MCMountSession ----------------------------
(* Instances of MountSession for TLC: a u64 of 16 values, sectors of 2 bytes. *)
EXTENDS MountSession

SmallModulus == 16
SmallSector == 2

\* The sizes of a partition table entry that matter: empty, one at each end of
\* the device, one across its end, one whose bytes wrap.
SomeEntries == [start : {0, 3, 9}, num : {0, 2, 7, 9}]
SmallTables == {<<>>} \cup [1..1 -> SomeEntries]
               \cup {<<[start |-> 0, num |-> 2], [start |-> 2, num |-> 4]>>}
SmallSizes == {6, 14}
=============================================================================
