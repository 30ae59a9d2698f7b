------------------------------ MODULE AtomicFile ------------------------------
(***************************************************************************)
(* What Windows may rely on of the size of one open file (src/mount.rs,    *)
(* write and set_file_size): a write finds the end of the file and puts    *)
(* its bytes there in one step, however many writes are under way.         *)
(* FileIO implements it with a stat and a pwrite, under one name.          *)
(***************************************************************************)
EXTENDS Integers

CONSTANTS Threads, Sizes, Lengths, Nil

VARIABLES
    size,       \* the size of the file
    asked       \* the write each thread is asked for and has not done, or Nil

vars == <<size, asked>>

\* Bytes for the end of the file, for an offset, or for what the file has of it:
\* "write past EOF on a constrained request is a no-op success".
Requests ==
    [kind : {"append"}, length : Lengths]
    \cup [kind : {"at"}, offset : Sizes, length : Lengths]
    \cup [kind : {"constrained"}]

Init == size \in Sizes /\ asked = [t \in Threads |-> Nil]

Ask(t) ==
    /\ asked[t] = Nil
    /\ \E r \in Requests : asked' = [asked EXCEPT ![t] = r]
    /\ UNCHANGED size

\* Some of the bytes go out, or none.
Write(t) ==
    /\ asked[t] # Nil
    /\ LET r == asked[t] IN
         \/ r.kind = "append" /\ \E n \in 0 .. r.length : size' = size + n
         \/ /\ r.kind = "at"
            /\ \/ size' = size
               \/ \E n \in 1 .. r.length : size' = r.offset + n /\ size' > size
         \/ r.kind = "constrained" /\ size' = size
    /\ asked' = [asked EXCEPT ![t] = Nil]

Truncate == size' \in Sizes /\ UNCHANGED asked

Next == Truncate \/ \E t \in Threads : Ask(t) \/ Write(t)
=============================================================================
