-------------------------------- MODULE FileIO --------------------------------
(***************************************************************************)
(* Reads, writes and size changes of one file through several open handles *)
(* (src/mount.rs: read, write, set_file_size, overwrite, get_file_info,    *)
(* and the handlers that report the file's attributes).                    *)
(*                                                                         *)
(* Every handle caches a size.  write asks the C ABI for the size, decides *)
(* where and how much to write, writes, and asks again: four calls that no *)
(* lock of the driver holds together.  What holds them together is the     *)
(* kernel driver's lock of the file node, and a node is a name: two opens  *)
(* of one file by different names (a symlink and its target) do not share  *)
(* it.                                                                     *)
(*                                                                         *)
(* Bytes are abstracted to the size of the file.                           *)
(***************************************************************************)
EXTENDS Integers, FiniteSets

CONSTANTS
    Handles,    \* opens of the file
    Nodes,      \* names of the file
    Threads,    \* dispatcher threads of the host
    MaxSize,    \* bound on the file, in units of the model
    MaxLength,  \* bound on one write
    Nil

ASSUME BoundAssumption == MaxSize \in Nat /\ MaxLength \in Nat \ {0}

VARIABLES
    writable,   \* Mount.writable: mounted read-write?
    nodeOf,     \* the name each handle is opened with
    size,       \* the size of the file on the volume
    cached,     \* Ext4FileContext.size of each open handle, or Nil
    req,        \* the request of each thread, or Nil
    changer     \* history: who changed the size last, Nil if it was told of a failure

vars == <<writable, nodeOf, size, cached, req, changer>>

Sizes == 0..MaxSize
Lengths == 0..MaxLength

\* offset and length: what is asked, then what the handler settled on.
Request ==
    [op: {"read", "write", "truncate", "info"}, handle: Handles,
     pc: {"stat", "access", "refresh", "store"},
     offset: Sizes, length: Lengths, append: BOOLEAN, constrained: BOOLEAN]

ASSUME NilAssumption == Nil \notin Handles \cup Request

TypeOK ==
    /\ writable \in BOOLEAN
    /\ nodeOf \in [Handles -> Nodes]
    /\ size \in Sizes
    /\ cached \in [Handles -> Sizes \cup {Nil}]
    /\ req \in [Threads -> Request \cup {Nil}]
    /\ changer \in Handles \cup {Nil}

Init ==
    /\ writable \in BOOLEAN
    /\ nodeOf \in [Handles -> Nodes]
    /\ size \in Sizes
    /\ cached = [h \in Handles |-> Nil]
    /\ req = [t \in Threads |-> Nil]
    /\ changer = Nil

-----------------------------------------------------------------------------
(* The kernel driver's lock of a file node (external).                     *)

Served(n) == {t \in Threads : req[t] # Nil /\ nodeOf[req[t].handle] = n}

Exclusive(h) == Served(nodeOf[h]) = {}

Shared(h) == \A t \in Served(nodeOf[h]) : req[t].op \in {"read", "info"}

-----------------------------------------------------------------------------
(* Handlers.                                                               *)

\* Mutant: a handler without the check.
EnsureNothing == TRUE

\* ensure_writable: the first thing write, set_file_size and overwrite do.
EnsureWritable == writable

NewRequest(op, h, pc, offset, length, append, constrained) ==
    [op |-> op, handle |-> h, pc |-> pc, offset |-> offset, length |-> length,
     append |-> append, constrained |-> constrained]

Continue(t, r) == req' = [req EXCEPT ![t] = r]

Done(t) == req' = [req EXCEPT ![t] = Nil]

Store(h) == cached' = [cached EXCEPT ![h] = size]

\* open: the context starts with the size the stat reported.
Open(h) ==
    /\ cached[h] = Nil
    /\ Store(h)
    /\ UNCHANGED <<writable, nodeOf, size, req, changer>>

Close(h) ==
    /\ cached[h] # Nil /\ \A t \in Served(nodeOf[h]) : req[t].handle # h
    /\ cached' = [cached EXCEPT ![h] = Nil]
    /\ UNCHANGED <<writable, nodeOf, size, req, changer>>

\* read decides from the cached size alone whether there is anything to read.
PastCached(h, offset) == offset >= cached[h]

\* read, up to its call of the C ABI; END_OF_FILE changes nothing.
BeginRead(t, h, offset) ==
    /\ req[t] = Nil /\ cached[h] # Nil /\ Shared(h)
    /\ ~PastCached(h, offset)
    /\ Continue(t, NewRequest("read", h, "access", offset, 0, FALSE, FALSE))
    /\ UNCHANGED <<writable, nodeOf, size, cached, changer>>

\* fs_ext4_read_file returns what there is at the offset now, maybe nothing.
FinishRead(t) ==
    /\ req[t] # Nil /\ req[t].op = "read"
    /\ Done(t)
    /\ UNCHANGED <<writable, nodeOf, size, cached, changer>>

\* The write request arrives; the kernel driver holds its node alone.
BeginWrite(t, h, offset, length, append, constrained) ==
    /\ EnsureWritable
    /\ req[t] = Nil /\ cached[h] # Nil /\ Exclusive(h)
    /\ Continue(t, NewRequest("write", h, "stat", offset, length, append, constrained))
    /\ UNCHANGED <<writable, nodeOf, size, cached, changer>>

\* Mutant: the constrained request is not cut at the end of the file.
Unclamped(r, offset) == r.length

\* Mutant: the subtraction is made without the test that keeps it positive.
ClampedUntested(r, offset) ==
    IF r.constrained /\ r.length > size - offset THEN size - offset ELSE r.length

\* The bytes write accepts: a constrained request is cut at the end of the
\* file, as the stat has just reported it.
AcceptLength(r, offset) ==
    IF r.constrained
      THEN IF offset >= size THEN 0
           ELSE IF r.length > size - offset THEN size - offset ELSE r.length
      ELSE r.length

\* Mutant: an append uses the size the handle remembers.
CachedOffset(r) == IF r.append THEN cached[r.handle] ELSE r.offset

\* write_to_eof writes where the file ends.
EffectiveOffset(r) == IF r.append THEN size ELSE r.offset

\* The stat of write, and what it decides from it.
WriteStat(t) ==
    /\ req[t] # Nil /\ req[t].op = "write" /\ req[t].pc = "stat"
    /\ LET r == req[t]
           offset == EffectiveOffset(r)
           length == AcceptLength(r, offset)
       IN  /\ offset + length <= MaxSize
           /\ IF length = 0
                THEN Done(t)
                ELSE Continue(t, [r EXCEPT !.pc = "access", !.offset = offset,
                                           !.length = length])
    /\ UNCHANGED <<writable, nodeOf, size, cached, changer>>

\* The sizes pwrite can leave: only bytes past the end make the file longer,
\* and it may put out fewer bytes than it was given, or none.
Grown(offset, length) ==
    {IF n > 0 /\ offset + n > size THEN offset + n ELSE size : n \in 0..length}

\* fs_ext4_pwrite.  write takes any count that is not negative for the whole.
Pwrite(t) ==
    /\ req[t] # Nil /\ req[t].op = "write" /\ req[t].pc = "access"
    /\ size' \in Grown(req[t].offset, req[t].length)
    /\ changer' = IF size' # size THEN req[t].handle ELSE changer
    /\ Continue(t, [req[t] EXCEPT !.pc = "refresh"])
    /\ UNCHANGED <<writable, nodeOf, cached>>

\* It fails, with some of the bytes out.
PwriteFails(t) ==
    /\ req[t] # Nil /\ req[t].op = "write" /\ req[t].pc = "access"
    /\ size' \in Grown(req[t].offset, req[t].length)
    /\ changer' = IF size' # size THEN Nil ELSE changer
    /\ Done(t)
    /\ UNCHANGED <<writable, nodeOf, cached>>

\* Mutant: the handle does not learn the size its write left.
KeepCached(h) == cached' = cached

\* The second stat of write and of the truncating handlers is what the handle
\* remembers.
RefreshSize(h) == Store(h)

\* write ends.
WriteRefresh(t) ==
    /\ req[t] # Nil /\ req[t].op = "write" /\ req[t].pc = "refresh"
    /\ RefreshSize(req[t].handle)
    /\ Done(t)
    /\ UNCHANGED <<writable, nodeOf, size, changer>>

\* set_file_size and overwrite (to 0): fs_ext4_truncate comes first.
BeginTruncate(t, h, new) ==
    /\ EnsureWritable
    /\ req[t] = Nil /\ cached[h] # Nil /\ Exclusive(h)
    /\ size' = new
    /\ changer' = IF new # size THEN h ELSE changer
    /\ Continue(t, NewRequest("truncate", h, "refresh", new, 0, FALSE, FALSE))
    /\ UNCHANGED <<writable, nodeOf, cached>>

FinishTruncate(t) ==
    /\ req[t] # Nil /\ req[t].op = "truncate"
    /\ RefreshSize(req[t].handle)
    /\ Done(t)
    /\ UNCHANGED <<writable, nodeOf, size, changer>>

\* get_file_info stats and then stores the size it saw, with other requests of
\* the node that only look in between.
BeginInfo(t, h) ==
    /\ req[t] = Nil /\ cached[h] # Nil /\ Shared(h)
    /\ Continue(t, NewRequest("info", h, "store", size, 0, FALSE, FALSE))
    /\ UNCHANGED <<writable, nodeOf, size, cached, changer>>

FinishInfo(t) ==
    /\ req[t] # Nil /\ req[t].op = "info"
    /\ cached' = [cached EXCEPT ![req[t].handle] = req[t].offset]
    /\ Done(t)
    /\ UNCHANGED <<writable, nodeOf, size, changer>>

\* A call of the C ABI fails: the request ends where it is.  A failed truncate
\* has changed nothing; after a failed last stat the change is there and the
\* request reports an error.
Fail(t) ==
    /\ req[t] # Nil /\ ~(req[t].op = "write" /\ req[t].pc = "access")
    /\ changer' = IF req[t].pc = "refresh" /\ changer = req[t].handle
                    THEN Nil ELSE changer
    /\ Done(t)
    /\ UNCHANGED <<writable, nodeOf, size, cached>>

Next ==
    \/ \E h \in Handles : Open(h) \/ Close(h)
    \/ \E t \in Threads, h \in Handles :
          \/ \E offset \in Sizes : BeginRead(t, h, offset)
          \/ \E offset \in Sizes, length \in Lengths, append, constrained \in BOOLEAN :
                BeginWrite(t, h, offset, length, append, constrained)
          \/ \E new \in Sizes : BeginTruncate(t, h, new)
          \/ BeginInfo(t, h)
    \/ \E t \in Threads :
          \/ FinishRead(t) \/ WriteStat(t) \/ Pwrite(t) \/ PwriteFails(t) \/ WriteRefresh(t)
          \/ FinishTruncate(t) \/ FinishInfo(t) \/ Fail(t)

Spec == Init /\ [][Next]_vars

-----------------------------------------------------------------------------
(* What is promised.                                                       *)

Refreshing(h) ==
    \E t \in Threads : req[t] # Nil /\ req[t].handle = h /\ req[t].pc = "refresh"

\* A handle remembers the size its own last change left, whatever other handles
\* do under whatever names: read never answers END_OF_FILE for bytes that its
\* own handle has put there (write, set_file_size and overwrite refresh).
OwnChangesAreCached ==
    \A h \in Handles :
        changer = h /\ cached[h] # Nil /\ ~Refreshing(h) => cached[h] = size

\* No file has two names: WinFsp's lock of the name orders all its requests.
OneName == \A g, h \in Handles : nodeOf[g] = nodeOf[h]

\* An append goes where the file ends when the bytes are written: it overwrites
\* nothing and leaves no hole, although write looked the end up in another call.
\* It needs OneName: by another name the file can change size in between.
AppendsAtEnd ==
    OneName => \A t \in Threads :
        req[t] # Nil /\ req[t].append /\ req[t].pc = "access" => req[t].offset = size

\* On a volume mounted read-only the file's bytes and its size stay: no request
\* gets as far as fs_ext4_pwrite or fs_ext4_truncate, by any open and any name,
\* even if the kernel driver's gate is open (ensure_writable in write,
\* set_file_size and overwrite).
ReadOnlyFileUntouched ==
    [][~writable =>
          /\ UNCHANGED size
          /\ \A t \in Threads : req[t] # Nil => req[t].op \in {"read", "info"}]_vars

\* What a write is asked for, up to its pwrite.
AskedShown ==
    [t \in Threads |->
        IF req[t] = Nil \/ req[t].op # "write" \/ req[t].pc = "refresh" THEN Nil
        ELSE IF req[t].constrained THEN [kind |-> "constrained"]
        ELSE IF req[t].append THEN [kind |-> "append", length |-> req[t].length]
        ELSE [kind |-> "at", offset |-> req[t].offset, length |-> req[t].length]]

Atomic == INSTANCE AtomicFile WITH asked <- AskedShown

ASSUME AskedAssumption == Nil \notin Atomic!Requests

\* Under one name the calls of a write, a stat, a pwrite that may be short or fail
\* and a stat again, cannot be told from one atomic write: an append adds to the
\* end, and a request that asks not to extend the file does not, although both
\* went by the size of an earlier call (write, set_file_size, overwrite).
ImplementsAtomic == Atomic!Init /\ [][OneName => Atomic!Next]_(Atomic!vars)
=============================================================================
