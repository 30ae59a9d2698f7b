----------------------------- MODULE CliCommands -----------------------------
(***************************************************************************)
(* One invocation of the command line (src/cmd.rs, dispatched by           *)
(* src/main.rs): open a Mount, make a few C ABI calls, print, drop the     *)
(* Mount, exit.  Every call may fail, and the process may be killed before *)
(* any of them.                                                            *)
(*                                                                         *)
(* Modelled call by call: write, touch and cat, the commands that list     *)
(* directories (ls, verify-ls, tree), and those that print what one or two *)
(* calls return.  The commands that are one changing call differ in how    *)
(* they read its result.  For write, touch and cat the volume is the file  *)
(* the command names, for the listings a tree of directories, for the rest *)
(* whether the C ABI did what it was asked for.  The C ABI is external:    *)
(* one atomic step per call, refused on a read-only mount, whose           *)
(* convention is "new inode number, or 0" for what creates and "0, or an   *)
(* error" for the rest.                                                    *)
(***************************************************************************)
EXTENDS Integers, Sequences, FiniteSets

CONSTANTS
    Commands,   \* the commands considered
    MaxSize,    \* bound on the file and on what is written to it
    Chunk,      \* the read buffer of cat, 64 KiB in the code
    W,          \* 2^64
    Missing,    \* no file, or no flag
    Tree,       \* what is in each directory: a directory, or Leaf, by name
    Root,       \* the directory ls is asked for, and where tree begins
    Leaf,       \* what is not a directory
    Dots,       \* the names "." and ".."
    Asked,      \* the flags of verify-ls and tree
    MaxDepth    \* bound on tree's --max-depth

\* The commands that make one C ABI call, and how it reports.
NewInode == {"symlink", "mkdir"}
StatusCode == {"setxattr", "removexattr", "link", "chmod", "chown", "setflags",
               "mknod", "rmdir", "unlink", "truncate", "rename", "fallocate"}
OneCall == NewInode \cup StatusCode
\* Those that print what a call returns; two of them ask for its size first.
TwoReads == {"getxattr", "listxattr"}
\* An audit that finds an anomaly counts as a call that fails; parts reads the
\* partition table in place of a mount.
Reads == TwoReads \cup {"info", "stat", "readlink", "parts", "audit"}
Lists == {"ls", "verify-ls", "tree"}
AllCommands == OneCall \cup Reads \cup Lists \cup {"write", "touch", "cat"}

Dirs == DOMAIN Tree

\* A name is a number: the order of names is the order of their bytes.  Every
\* directory has its dots.
ASSUME CommandsAssumption == Commands \subseteq AllCommands
ASSUME TreeAssumption ==
    /\ Root \in Dirs /\ Leaf \notin Dirs
    /\ Dots \subseteq Nat /\ IsFiniteSet(Dots) /\ Dots # {}
    /\ \A d \in Dirs : /\ DOMAIN Tree[d] \subseteq Nat \ Dots
                       /\ IsFiniteSet(DOMAIN Tree[d])
                       /\ \A n \in DOMAIN Tree[d] : Tree[d][n] \in Dirs \cup {Leaf}
ASSUME AskedAssumption ==
    /\ MaxDepth \in Nat /\ Missing \notin Nat /\ Asked # {}
    /\ Asked \subseteq [names: SUBSET Nat, count: Nat \cup {Missing},
                      canonical: BOOLEAN, depth: 0 .. MaxDepth]
ASSUME BoundsAssumption == MaxSize \in Nat /\ Chunk \in Nat \ {0} /\ W \in Nat /\ MaxSize < W
ASSUME MissingAssumption == \A n \in 0 .. MaxSize : Missing \notin [1 .. n -> {"old", "new"}]

VARIABLES
    cmd, input, offset, length,     \* the command, stdin's length, cat's flags
    ask,        \* --expect-name, --expect-count; --canonical, --max-depth
    rw,         \* a Mount::open_rw of this build is writable (Windows only)
    before,     \* the file as the command finds it
    file,       \* the file now, of write, touch and cat: bytes, old or new, or Missing
    pc,         \* the next call of the command, or how it ended
    exit,       \* the exit code, once pc is "exited"
    served,     \* the C ABI has done the one change, or given all that is read
    pos, end,   \* cat's next byte and the one it stops at
    printed,    \* the bytes on stdout, by their position
    todo,       \* the entries still to be listed, the next one first
    lines,      \* the entries listed so far; a path is the names from the root on
    skipped     \* the paths of the directories that could not be opened

args == <<cmd, input, offset, length, ask, rw, before>>
loop == <<pos, end, printed>>
list == <<todo, lines, skipped>>
vars == <<args, file, pc, exit, served, loop, list>>

Lesser(i, j) == IF i <= j THEN i ELSE j
Bytes(b, n) == [i \in 1 .. n |-> b]
Contents(b) == {Bytes(b, n) : n \in 0 .. MaxSize}

\* No --length: to the end of the file.
ToEnd == W

PathsOf == Seq(Nat)
Items == [path: PathsOf, node: Dirs \cup {Leaf}]
ItemsOf(s) == {s[i] : i \in DOMAIN s}

TypeOK ==
    /\ cmd \in Commands /\ input \in 0 .. MaxSize
    /\ offset \in 0 .. W - 1 /\ length \in 0 .. W
    /\ rw \in BOOLEAN /\ served \in BOOLEAN /\ exit \in {0, 1}
    /\ before \in Contents("old") \cup {Missing}
    /\ file \in Contents("old") \cup Contents("new") \cup {Missing}
    /\ pc \in {"open", "call", "probe", "fetch", "stdin", "stat", "create", "truncate",
               "pwrite", "resolve", "size", "read", "opendir", "list",
               "exited", "killed"}
    /\ ask \in Asked
    /\ pos \in 0 .. MaxSize /\ end \in 0 .. MaxSize
    /\ printed \in Seq(0 .. MaxSize - 1)
    /\ todo \in Seq(Items) /\ lines \in Seq(Items) /\ skipped \subseteq PathsOf

Init ==
    /\ cmd \in Commands
    /\ input \in IF cmd = "write" THEN 0 .. MaxSize ELSE {0}
    /\ offset \in IF cmd = "cat" THEN 0 .. W - 1 ELSE {0}
    /\ length \in IF cmd = "cat" THEN 0 .. W ELSE {0}
    /\ ask \in IF cmd \in Lists THEN Asked ELSE {CHOOSE a \in Asked : TRUE}
    /\ rw \in BOOLEAN
    /\ before \in IF cmd \in Lists THEN {Missing} ELSE Contents("old") \cup {Missing}
    /\ file = before
    /\ pc = "open"
    /\ exit = 0 /\ served = FALSE
    /\ pos = 0 /\ end = 0 /\ printed = <<>>
    /\ todo = <<>> /\ lines = <<>> /\ skipped = {}

At(here) == pc = here /\ UNCHANGED args
Goto(there) == pc' = there /\ UNCHANGED exit
Exit(code) == pc' = "exited" /\ exit' = code

-----------------------------------------------------------------------------
(* Opening the mount; the changing commands of one call; the reads.        *)

FirstCall(c) ==
    CASE c \in OneCall -> "call"
      [] c \in TwoReads -> "probe"
      [] c \in Reads \ TwoReads -> "fetch"
      [] c = "write" -> "stdin"
      [] c = "touch" -> "stat"
      [] c = "cat" -> "resolve"
      [] c \in Lists -> "opendir"

Open ==
    /\ At("open")
    /\ Goto(FirstCall(cmd)) \/ Exit(1)
    /\ UNCHANGED <<file, served, loop, list>>

\* What the C ABI returns (external): an inode number or a status.
Result(c, ok) == IF (c \in NewInode) = ok THEN 1 ELSE 0

\* Mutant: a created inode is taken for an error code everywhere.
NonzeroBails(c, r) == r # 0

\* The result for which the command bails.
Bails(c, r) == IF c = "symlink" THEN r = 0 ELSE r # 0

Call ==
    /\ At("call")
    /\ \E ok \in {rw, FALSE} :
        /\ served' = ok
        /\ Exit(IF Bails(cmd, Result(cmd, ok)) THEN 1 ELSE 0)
    /\ UNCHANGED <<file, loop, list>>

\* A size of 0 is an empty value or no attributes, and prints nothing.
Probe ==
    /\ At("probe")
    /\ \/ Exit(1) /\ UNCHANGED served
       \/ Exit(0) /\ served' = TRUE
       \/ Goto("fetch") /\ UNCHANGED served
    /\ UNCHANGED <<file, loop, list>>

Fetch ==
    /\ At("fetch")
    /\ \E ok \in BOOLEAN : served' = ok /\ Exit(IF ok THEN 0 ELSE 1)
    /\ UNCHANGED <<file, loop, list>>

-----------------------------------------------------------------------------
(* write, touch.                                                           *)

ReadStdin ==
    /\ At("stdin")
    /\ Goto("stat") \/ Exit(1)
    /\ UNCHANGED <<file, served, loop, list>>

\* Any stat that fails counts as a missing file.
Stat ==
    /\ At("stat")
    /\ \E exists \in {file # Missing, FALSE} :
        /\ IF ~exists THEN Goto("create")
           ELSE IF cmd = "touch" THEN Exit(0) ELSE Goto("truncate")
    /\ UNCHANGED <<file, served, loop, list>>

\* The C ABI refuses to create what exists.
Create ==
    /\ At("create")
    /\ \/ /\ rw /\ file = Missing
          /\ file' = <<>>
          /\ IF cmd = "touch" THEN Exit(0) ELSE Goto("truncate")
       \/ Exit(1) /\ UNCHANGED file
    /\ UNCHANGED <<served, loop, list>>

\* Mutant: the old bytes are cut only down to the length of the new ones.
TruncatedToInput(f) == SubSeq(f, 1, Lesser(Len(f), input))

Truncated(f) == <<>>

\* Nothing is left to do for an empty input.
Truncate ==
    /\ At("truncate")
    /\ \/ /\ rw
          /\ file' = Truncated(file)
          /\ IF input = 0 THEN Exit(0) ELSE Goto("pwrite")
       \/ Exit(1) /\ UNCHANGED file
    /\ UNCHANGED <<served, loop, list>>

\* pwrite from offset 0 (external): the first n bytes, the rest of the file kept.
Overwritten(f, n) == [i \in 1 .. IF n > Len(f) THEN n ELSE Len(f) |->
                         IF i <= n THEN "new" ELSE f[i]]

\* Mutant: any count that is not negative is a success.
AnyCount(n) == TRUE

WroteAll(n) == n >= input

\* A write may be short, and one that fails may have got some bytes out.
Pwrite ==
    /\ At("pwrite")
    /\ \E n \in 0 .. input, failed \in BOOLEAN :
        /\ failed => n < input
        /\ file' = Overwritten(file, n)
        /\ Exit(IF ~failed /\ WroteAll(n) THEN 0 ELSE 1)
    /\ UNCHANGED <<served, loop, list>>

-----------------------------------------------------------------------------
(* cat.                                                                    *)

\* resolve_symlink: module SymlinkWalk.
Resolve ==
    /\ At("resolve")
    /\ (file # Missing /\ Goto("size")) \/ Exit(1)
    /\ UNCHANGED <<file, served, loop, list>>

\* Mutant: the end is not cut down to the size of the file.
EndAsked(size) == IF length = ToEnd THEN size ELSE (offset + length) % W

\* The sum wraps, as the release profile has it.
End(size) == IF length = ToEnd THEN size ELSE Lesser((offset + length) % W, size)

\* An empty range is printed at once.
Size ==
    /\ At("size")
    /\ \/ Exit(1) /\ UNCHANGED <<pos, end>>
       \/ LET e == End(Len(file)) IN
            IF offset >= e
              THEN Exit(0) /\ UNCHANGED <<pos, end>>
              ELSE Goto("read") /\ pos' = offset /\ end' = e
    /\ UNCHANGED <<file, served, printed, list>>

\* Mutant: always a whole buffer.
WholeBuffer(p) == Chunk

Want(p) == Lesser(Chunk, end - p)

\* fs_ext4_read_file (external): some bytes, none only at the end of the file.
ReadCounts(p, want) ==
    {n \in 0 .. Lesser(want, Len(file) - p) : n = 0 => p >= Len(file)}

Read ==
    /\ At("read")
    /\ \/ Exit(1) /\ UNCHANGED <<pos, printed>>
       \/ \E n \in ReadCounts(pos, Want(pos)) :
            /\ printed' = printed \o [i \in 1 .. n |-> pos + i - 1]
            /\ pos' = pos + n
            /\ IF n = 0 \/ pos' >= end THEN Exit(0) ELSE Goto("read")
    /\ UNCHANGED <<file, served, end, list>>

-----------------------------------------------------------------------------
(* ls, verify-ls, tree.                                                    *)

\* What dir_next hands out, "." and ".." among it.
Entries(d) == DOMAIN Tree[d] \cup Dots

\* Mutant: the order on disk for --canonical too.
OrdersUnsorted(names) ==
    {s \in [1 .. Cardinality(names) -> names] :
        \A n \in names : \E i \in DOMAIN s : s[i] = n}

\* The names in the order on disk, which is any, or sorted for --canonical.
Orders(names) ==
    {s \in [1 .. Cardinality(names) -> names] :
        /\ \A n \in names : \E i \in DOMAIN s : s[i] = n
        /\ cmd = "tree" /\ ask.canonical =>
              \A i, j \in DOMAIN s : i < j => s[i] < s[j]}

\* ls and verify-ls list one directory and tell no directory from a file;
\* tree begins with "/", and opens it like any other directory.
OpenDir ==
    /\ At("opendir")
    /\ \/ cmd # "tree" /\ Exit(1) /\ UNCHANGED todo
       \/ /\ cmd # "tree" /\ Goto("list")
          /\ \E s \in Orders(Entries(Root)) :
                todo' = [i \in DOMAIN s |-> [path |-> <<s[i]>>, node |-> Leaf]]
       \/ cmd = "tree" /\ Goto("list") /\ todo' = <<[path |-> <<>>, node |-> Root]>>
    /\ UNCHANGED <<file, served, loop, lines, skipped>>

\* Mutant: one level more.
OpensOneMore(item) == item.node # Leaf /\ Len(item.path) <= ask.depth

\* tree goes into a directory above --max-depth.
Opens(item) == item.node # Leaf /\ Len(item.path) < ask.depth

\* The lists walk makes of a directory, without "." and "..".
Below(item) ==
    {[i \in DOMAIN s |-> [path |-> Append(item.path, s[i]), node |-> Tree[item.node][s[i]]]] :
        s \in Orders(Entries(item.node) \ Dots)}

\* One line.  After a directory that can be opened come its entries; one that
\* cannot is reported on stderr and left.
List ==
    /\ At("list") /\ todo # <<>>
    /\ LET item == Head(todo) IN
         /\ lines' = Append(lines, item)
         /\ \/ ~Opens(item) /\ todo' = Tail(todo) /\ UNCHANGED skipped
            \/ /\ Opens(item)
               /\ \E below \in Below(item) : todo' = below \o Tail(todo)
               /\ UNCHANGED skipped
            \/ Opens(item) /\ todo' = Tail(todo) /\ skipped' = skipped \cup {item.path}
    /\ UNCHANGED <<file, pc, exit, served, loop>>

\* What verify-ls complains of: the names as a set, and how many were listed.
Drift ==
    \/ ask.names # {} /\ {lines[i].path : i \in DOMAIN lines} # {<<n>> : n \in ask.names}
    \/ ask.count # Missing /\ Len(lines) # ask.count

ListEnds ==
    /\ At("list") /\ todo = <<>>
    /\ Exit(IF cmd = "verify-ls" /\ Drift THEN 1 ELSE 0)
    /\ UNCHANGED <<file, served, loop, list>>

-----------------------------------------------------------------------------

\* Ctrl-C, or the harness's timeout.
Kill ==
    /\ pc \notin {"exited", "killed"}
    /\ Goto("killed")
    /\ UNCHANGED <<args, file, served, loop, list>>

Next ==
    \/ Open \/ Call \/ Probe \/ Fetch
    \/ ReadStdin \/ Stat \/ Create \/ Truncate \/ Pwrite
    \/ Resolve \/ Size \/ Read
    \/ OpenDir \/ List \/ ListEnds
    \/ Kill

Spec == Init /\ [][Next]_vars

-----------------------------------------------------------------------------
(* What is promised.                                                       *)

\* "Write stdin to a file (creates or overwrites) ... truncates the file to the
\* written length": wherever write stops or is killed, old and new bytes are
\* never mixed, and after a success the file is the input.  touch "does not
\* modify an existing file".
OldOrNew ==
    /\ cmd = "write" =>
          /\ \/ file = before
             \/ file # Missing /\ \A i \in 1 .. Len(file) : file[i] = "new"
          /\ pc = "exited" /\ exit = 0 => file = Bytes("new", input)
    /\ cmd = "touch" /\ before # Missing => file = before

\* How many bytes the file has from --offset on, --length of them at most.
Count ==
    LET size == IF before = Missing THEN 0 ELSE Len(before)
        last == IF length = ToEnd THEN size ELSE Lesser(offset + length, size)
    IN  IF last > offset THEN last - offset ELSE 0

\* offset + length is not a u64, see End.
Wraps == length # ToEnd /\ offset + length >= W

\* cat prints the bytes from --offset on, at most --length of them: in order,
\* none twice, none beyond, through any sequence of short reads, and all of
\* them when it exits with 0, if the flags do not wrap.
CatIsExact ==
    cmd = "cat" /\ ~Wraps =>
        /\ Len(printed) <= Count
        /\ \A i \in 1 .. Len(printed) : printed[i] = offset + i - 1
        /\ pc = "exited" /\ exit = 0 => Len(printed) = Count

\* What a directory that is listed stands for.
InDirectory(item) ==
    {[path |-> Append(item.path, n), node |-> Tree[item.node][n]] : n \in DOMAIN Tree[item.node]}

\* What a listing begins with; the directories above --max-depth it has met; and
\* those of them it has opened.
First == IF cmd = "tree" THEN {[path |-> <<>>, node |-> Root]}
         ELSE {[path |-> <<n>>, node |-> Leaf] : n \in Entries(Root)}
Wanted == {v \in ItemsOf(lines) : v.node # Leaf /\ Len(v.path) < ask.depth}
Opened == {v \in Wanted : v.path \notin skipped}

Under(p, q) == Len(q) < Len(p) /\ \A i \in DOMAIN q : p[i] = q[i]

\* Dictionary order: a directory before what is in it, and names by their bytes.
Precedes(p, q) ==
    \/ Under(q, p)
    \/ \E i \in DOMAIN p \cap DOMAIN q :
          p[i] < q[i] /\ \A j \in 1 .. i - 1 : p[j] = q[j]

\* ls and tree list every entry once: what they begin with and, for each directory
\* they list above --max-depth and can open, all that is in it, and no more; also
\* when directories contain each other.  --canonical lists them in dictionary
\* order, so "the output depends only on the tree's names, types and shape"
\* whatever the order on disk is.
ListsTheTree ==
    cmd \in Lists =>
        /\ \A i, j \in DOMAIN lines : i < j => lines[i].path # lines[j].path
        /\ cmd = "tree" /\ ask.canonical =>
              \A i, j \in DOMAIN lines : i < j => Precedes(lines[i].path, lines[j].path)
        /\ pc = "exited" /\ exit = 0 =>
              ItemsOf(lines) = First \cup UNION {InDirectory(v) : v \in Opened}

\* The directory is as --expect-name and --expect-count say, where given.
AsExpected ==
    /\ ask.names # {} => Entries(Root) = ask.names
    /\ ask.count # Missing => Cardinality(Entries(Root)) = ask.count

\* What the command is for has come about, by the volume and by what is printed:
\* for the listings, all of every directory above --max-depth.
Achieved ==
    /\ cmd \in OneCall \cup Reads => served
    /\ cmd = "write" => file = Bytes("new", input)
    /\ cmd \in {"touch", "cat"} => file # Missing
    /\ cmd = "cat" => Len(printed) = Count
    /\ cmd \in Lists => ItemsOf(lines) = First \cup UNION {InDirectory(v) : v \in Wanted}
    /\ cmd = "verify-ls" => AsExpected

\* What can have come about though a call failed: nothing had to be done.
NothingToDo ==
    \/ cmd = "write" /\ input = 0
    \/ cmd = "touch" /\ before # Missing
    \/ cmd = "cat" /\ Count = 0

\* The exit code is what the test harness goes by: 0 says that the command has
\* done what it is for, and 1 that it has not, whichever of its calls failed or
\* fell short.  The code has two exceptions, which exit with 0: a cat whose
\* --offset and --length wrap, and a tree with a directory it could not open.
ExitMeansDone ==
    pc = "exited" =>
        /\ exit = 0 => Achieved \/ (cmd = "cat" /\ Wraps) \/ (cmd = "tree" /\ skipped # {})
        /\ exit = 1 => ~Achieved \/ NothingToDo
=============================================================================
