----------------------------- MODULE FileMetadata -----------------------------
(***************************************************************************)
(* Permissions, times and extended attributes of one file (src/mount.rs:   *)
(* create, set_basic_info, set_extended_attributes and                     *)
(* get_extended_attributes, with apply_ea_buffer).                         *)
(*                                                                         *)
(* Each handler makes several calls of the C ABI, any of which may fail    *)
(* and end it there.  Requests that come through different names of the    *)
(* file (a symlink and its target), and opens of a file whose creation is  *)
(* still under way, run together; no lock is modelled.  A request records  *)
(* the file it began with for as long as no other request changes the      *)
(* file: what holds of these undisturbed requests is what callers get who  *)
(* share a name, which the kernel driver locks.                            *)
(*                                                                         *)
(* An extended attribute's value is abstracted to its length.  EA buffers  *)
(* keep their layout: entries at offsets, linked by relative offsets.      *)
(***************************************************************************)
EXTENDS Integers, FiniteSets, Sequences, SequencesExt

CONSTANTS
    Threads,    \* dispatcher threads of the host
    WriteBits,  \* the write permissions 0o222 stands for
    OwnerBit,   \* the one a new file has
    Times,      \* what a file's access and modification times can be
    EaNames,    \* names of extended attributes
    BadName,    \* a name with a NUL in it
    NameLen,    \* the length of each name
    ValueLens,  \* the lengths a value can have
    Buffers,    \* the EA buffers callers hand in
    Sizes,      \* the sizes of the buffers they want filled
    Absent,
    Nil

\* An entry of a FILE_FULL_EA_INFORMATION list, at its offset in the buffer.
Entry == [at: Nat, next: Nat, name: EaNames \cup {BadName}, vlen: ValueLens]

HeaderLen == 8

\* Callers link their entries properly: where a link leads there is an entry,
\* or no room for the header of one.
ASSUME BuffersAssumption ==
    \A b \in Buffers :
        /\ b.len \in Nat /\ b.entries \subseteq Entry
        /\ \A e \in b.entries :
             e.next = 0 \/ e.at + e.next + HeaderLen > b.len
               \/ \E f \in b.entries : f.at = e.at + e.next
\* No attribute's name has a NUL in it.
ASSUME NamesAssumption == BadName \notin EaNames
ASSUME OwnerAssumption == OwnerBit \in WriteBits
\* Lengths fit the byte and the two bytes an entry has for them.
ASSUME LengthAssumption ==
    /\ NameLen \in [EaNames \cup {BadName} -> Nat] /\ \A n \in EaNames : NameLen[n] < 256
    /\ ValueLens \subseteq Nat /\ \A v \in ValueLens : v < 65536
    /\ Sizes \subseteq Nat /\ IsFiniteSet(EaNames)

VARIABLES
    writable,   \* Mount.writable
    file,       \* the file, or Absent
    req         \* the request of each thread, or Nil

vars == <<writable, file, req>>

Files == [writers: SUBSET WriteBits, time: Times, ea: [EaNames -> ValueLens \cup {Absent}]]

\* In every request, "was" is the file it began with, or Nil once another
\* request has changed the file.  A request at "done" holds its reply.
BasicRequest ==
    [op: {"basic"}, pc: {"utimens", "stat", "chmod", "final", "done"},
     attrs: {"unchanged", "readonly", "normal"}, time: Times \cup {Nil},
     seen: SUBSET WriteBits, was: Files \cup {Nil}]

SetRequest ==
    [op: {"create", "set_ea"}, pc: {"entry", "final"}, buf: Buffers, pos: Nat,
     was: Files \cup {Nil}]

GetRequest ==
    [op: {"get_ea"}, pc: {"list", "value", "done"}, size: Sizes,
     names: Seq(EaNames), i: Nat, buf: [len: Nat, entries: SUBSET Entry],
     missed: SUBSET EaNames, was: Files \cup {Nil}]

Requests == BasicRequest \cup SetRequest \cup GetRequest

ASSUME AbsentAssumption == Absent \notin Files \cup ValueLens

TypeOK ==
    /\ writable \in BOOLEAN
    /\ file \in Files \cup {Absent}
    /\ req \in [Threads -> Requests \cup {Nil}]
    /\ \A t \in Threads :
          /\ req[t] # Nil => file # Absent
          /\ req[t] # Nil /\ req[t].op = "get_ea" =>
                /\ req[t].i \in 1..(Len(req[t].names) + 1)
                /\ req[t].pc = "list" => req[t].i = 1
                /\ req[t].buf.len <= req[t].size

Init ==
    /\ writable \in BOOLEAN
    /\ file \in Files \cup {Absent}
    /\ req = [t \in Threads |-> Nil]

-----------------------------------------------------------------------------
(* Requests.                                                               *)

\* Mutant: a handler without the check.
EnsureNothing == TRUE

\* ensure_writable, in create, set_basic_info and set_extended_attributes.
EnsureWritable == writable

Begin(t, r) ==
    /\ req[t] = Nil
    /\ req' = [req EXCEPT ![t] = r]

Goes(t, r) == req' = [req EXCEPT ![t] = r]

\* Request t goes on as r with the file changed to f: the others are disturbed.
Changes(t, r, f) ==
    /\ file' = f
    /\ req' = [u \in Threads |->
                 IF u = t THEN r
                 ELSE IF req[u] = Nil \/ f = file THEN req[u]
                 ELSE [req[u] EXCEPT !.was = Nil]]

\* A call of the C ABI fails: the handler returns its error with everything
\* before that call done.
Fail(t) ==
    /\ req[t] # Nil /\ req[t].op # "get_ea" /\ req[t].pc # "done"
    /\ Goes(t, Nil)
    /\ UNCHANGED <<writable, file>>

Reply(t) ==
    /\ req[t] # Nil /\ req[t].pc = "done"
    /\ Goes(t, Nil)
    /\ UNCHANGED <<writable, file>>

-----------------------------------------------------------------------------
(* set_basic_info.                                                         *)

\* A file no one may write is shown as READONLY.
IsReadOnly(w) == w = {}

\* attrs: FILE_ATTRIBUTE_READONLY, other attributes, or none (0 and -1).
BeginBasic(t, attrs, time) ==
    /\ EnsureWritable /\ file # Absent
    /\ Begin(t, [op |-> "basic", pc |-> "utimens", attrs |-> attrs, time |-> time,
                 seen |-> {}, was |-> file])
    /\ UNCHANGED <<writable, file>>

\* The times come first, if any was given.
Utimens(t) ==
    /\ req[t] # Nil /\ req[t].pc = "utimens"
    /\ LET r == [req[t] EXCEPT !.pc = IF req[t].attrs = "unchanged" THEN "final"
                                                                   ELSE "stat"]
       IN  IF req[t].time = Nil THEN Goes(t, r) /\ UNCHANGED file
           ELSE Changes(t, r, [file EXCEPT !.time = req[t].time])
    /\ UNCHANGED writable

\* Mutant: the mode is set whenever attributes are given.
AlwaysChmods(r, w) == TRUE

\* chmod only when the bit changes.
NeedsChmod(r, w) == (r.attrs = "readonly") # IsReadOnly(w)

BasicStat(t) ==
    /\ req[t] # Nil /\ req[t].op = "basic" /\ req[t].pc = "stat"
    /\ Goes(t, [req[t] EXCEPT !.seen = file.writers,
                              !.pc = IF NeedsChmod(req[t], file.writers)
                                       THEN "chmod" ELSE "final"])
    /\ UNCHANGED <<writable, file>>

\* Mutant: a READONLY that takes the owner's write permission only.
OwnerOnly(r) == IF r.attrs = "readonly" THEN r.seen \ {OwnerBit} ELSE r.seen \cup {OwnerBit}

\* All write bits go, or all come.
NewWriters(r) == IF r.attrs = "readonly" THEN r.seen \ WriteBits ELSE r.seen \cup WriteBits

Chmod(t) ==
    /\ req[t] # Nil /\ req[t].op = "basic" /\ req[t].pc = "chmod"
    /\ Changes(t, [req[t] EXCEPT !.pc = "final"],
               [file EXCEPT !.writers = NewWriters(req[t])])
    /\ UNCHANGED writable

\* The last stat is what the reply shows.
BasicFinal(t) ==
    /\ req[t] # Nil /\ req[t].op = "basic" /\ req[t].pc = "final"
    /\ Goes(t, [req[t] EXCEPT !.pc = "done", !.seen = file.writers])
    /\ UNCHANGED <<writable, file>>

-----------------------------------------------------------------------------
(* EA buffers.                                                             *)

RawLen(name, vlen) == HeaderLen + NameLen[name] + 1 + vlen

\* What a reader finds at an offset; where no entry was put, a name that is
\* none.
EntryAt(b, p) ==
    IF \E e \in b.entries : e.at = p THEN CHOOSE e \in b.entries : e.at = p
    ELSE [at |-> p, next |-> 0, name |-> BadName, vlen |-> 0]

Fits(b, e) == e.at + RawLen(e.name, e.vlen) <= b.len

\* There is an entry to be taken at p: its header is in the buffer, and so are
\* the name and the value it announces.
Readable(b, p) == p + HeaderLen <= b.len /\ Fits(b, EntryAt(b, p))

\* The entry at q is linked to p.
Leads(b, q, p) ==
    LET e == EntryAt(b, q)
    IN  e.next # 0 /\ p = q + e.next

-----------------------------------------------------------------------------
(* set_extended_attributes, and create with attributes: apply_ea_buffer.   *)

BeginSet(t, b) ==
    /\ EnsureWritable /\ file # Absent
    /\ Begin(t, [op |-> "set_ea", pc |-> "entry", buf |-> b, pos |-> 0, was |-> file])
    /\ UNCHANGED <<writable, file>>

\* The mode of a new file: READONLY strips the write bits.
NewMode(readonly) == IF readonly THEN {} ELSE {OwnerBit}

\* create: the file is there before its attributes are, and stays if one of
\* them cannot be set.
BeginCreate(t, b, readonly, time) ==
    /\ EnsureWritable /\ file = Absent
    /\ LET f == [writers |-> NewMode(readonly), time |-> time,
                 ea |-> [n \in EaNames |-> Absent]]
       IN  /\ Begin(t, [op |-> "create", pc |-> "entry", buf |-> b, pos |-> 0, was |-> f])
           /\ file' = f
    /\ UNCHANGED writable

\* Mutant: an empty value is set like any other.
SetsEmpty(ea, e) == IF e.name = BadName THEN ea ELSE [ea EXCEPT ![e.name] = e.vlen]

\* A name with a NUL is passed over; an empty value removes the attribute.
Applied(ea, e) ==
    IF e.name = BadName THEN ea
    ELSE [ea EXCEPT ![e.name] = IF e.vlen = 0 THEN Absent ELSE e.vlen]

\* One round of apply_ea_buffer's loop.
ApplyEntry(t) ==
    /\ req[t] # Nil /\ req[t].op \in {"create", "set_ea"} /\ req[t].pc = "entry"
    /\ LET r == req[t]
           e == EntryAt(r.buf, r.pos)
       IN  IF ~Readable(r.buf, r.pos)
             THEN Goes(t, [r EXCEPT !.pc = "final"]) /\ UNCHANGED file
             ELSE Changes(t, IF e.next = 0 THEN [r EXCEPT !.pc = "final"]
                                           ELSE [r EXCEPT !.pos = @ + e.next],
                          [file EXCEPT !.ea = Applied(@, e)])
    /\ UNCHANGED writable

\* The stat for the reply.
SetFinal(t) ==
    /\ req[t] # Nil /\ req[t].op \in {"create", "set_ea"} /\ req[t].pc = "final"
    /\ Goes(t, Nil)
    /\ UNCHANGED <<writable, file>>

-----------------------------------------------------------------------------
(* get_extended_attributes.                                                *)

Present(ea) == {n \in EaNames : ea[n] # Absent}

BeginGet(t, size) ==
    /\ file # Absent
    /\ Begin(t, [op |-> "get_ea", pc |-> "list", size |-> size, names |-> <<>>, i |-> 1,
                 buf |-> [len |-> 0, entries |-> {}], missed |-> {}, was |-> file])
    /\ UNCHANGED <<writable, file>>

\* fs_ext4_listxattr, in the C ABI's order.  When it fails the list is taken
\* to be empty.
ListNames(t) ==
    /\ req[t] # Nil /\ req[t].op = "get_ea" /\ req[t].pc = "list"
    /\ \/ \E s \in SetToSeqs(Present(file.ea)) :
            Goes(t, [req[t] EXCEPT !.names = s, !.pc = "value"])
       \/ Goes(t, [req[t] EXCEPT !.pc = "done"])
    /\ UNCHANGED <<writable, file>>

NextName(t) == req[t].names[req[t].i]

Reading(t) ==
    /\ req[t] # Nil /\ req[t].op = "get_ea" /\ req[t].pc = "value"
    /\ req[t].i <= Len(req[t].names)

\* An attribute that cannot be read is left out.
SkipName(t) ==
    /\ Reading(t)
    /\ Goes(t, [req[t] EXCEPT !.i = @ + 1, !.missed = @ \cup {NextName(t)}])
    /\ UNCHANGED <<writable, file>>

\* Every entry but the last is padded to a multiple of four.
Padded(raw, last) == IF last THEN raw ELSE ((raw + 3) \div 4) * 4

\* Mutant: links that leave out the padding.
UnpaddedLink(padded, raw, last) == IF last THEN 0 ELSE raw

Link(padded, raw, last) == IF last THEN 0 ELSE padded

\* Mutant: a check of what has been written instead of what will be.
OverflowsLate(written, padded, size) == written > size

Overflows(written, padded, size) == written + padded > size

TakeValue(t) ==
    /\ Reading(t) /\ file.ea[NextName(t)] # Absent
    /\ LET r == req[t]
           n == NextName(t)
           raw == RawLen(n, file.ea[n])
           last == r.i = Len(r.names)
           padded == Padded(raw, last)
           e == [at |-> r.buf.len, next |-> Link(padded, raw, last), name |-> n,
                 vlen |-> file.ea[n]]
       IN  IF Overflows(r.buf.len, padded, r.size) THEN Goes(t, Nil)
           ELSE Goes(t, [r EXCEPT !.i = @ + 1,
                                  !.buf = [len |-> @.len + padded,
                                           entries |-> @.entries \cup {e}]])
    /\ UNCHANGED <<writable, file>>

ListDone(t) ==
    /\ req[t] # Nil /\ req[t].op = "get_ea" /\ req[t].pc = "value"
    /\ req[t].i > Len(req[t].names)
    /\ Goes(t, [req[t] EXCEPT !.pc = "done"])
    /\ UNCHANGED <<writable, file>>

Next ==
    \/ \E t \in Threads, a \in {"unchanged", "readonly", "normal"},
          time \in Times \cup {Nil} : BeginBasic(t, a, time)
    \/ \E t \in Threads, b \in Buffers : BeginSet(t, b)
    \/ \E t \in Threads, b \in Buffers, ro \in BOOLEAN, time \in Times :
          BeginCreate(t, b, ro, time)
    \/ \E t \in Threads, n \in Sizes : BeginGet(t, n)
    \/ \E t \in Threads :
          \/ Utimens(t) \/ BasicStat(t) \/ Chmod(t) \/ BasicFinal(t)
          \/ ApplyEntry(t) \/ SetFinal(t)
          \/ ListNames(t) \/ SkipName(t) \/ TakeValue(t) \/ ListDone(t)
          \/ Fail(t) \/ Reply(t)

Spec == Init /\ [][Next]_vars

-----------------------------------------------------------------------------
(* What is promised.                                                       *)

\* The request has run alone so far.
Undisturbed(t) == req[t] # Nil /\ req[t].was # Nil

\* The modes a file may go through when its READONLY bit is asked for.
Toggled(w, attrs) ==
    IF attrs = "readonly" THEN {}
    ELSE IF attrs = "normal" /\ IsReadOnly(w) THEN WriteBits ELSE w

\* A set_basic_info that fails has done nothing, or the times, or the times and
\* the mode, never the mode without the times; one that succeeds has done both
\* and shows the READONLY bit that was asked for (set_basic_info).
BasicInfoStages ==
    \A t \in Threads : Undisturbed(t) /\ req[t].op = "basic" =>
        LET timed == IF req[t].time = Nil THEN req[t].was
                     ELSE [req[t].was EXCEPT !.time = req[t].time]
            both == [timed EXCEPT !.writers = Toggled(@, req[t].attrs)]
        IN  /\ file \in {req[t].was, timed, both}
            /\ req[t].pc = "done" =>
                 /\ file = both
                 /\ req[t].attrs # "unchanged" =>
                      IsReadOnly(req[t].seen) = (req[t].attrs = "readonly")

\* Write permissions come and go only together with the READONLY bit: whatever
\* requests run at once, a file some may write keeps who may until it becomes
\* READONLY ("We only chmod when the bit changes", set_basic_info).
OnlyToggledModes ==
    [][file # Absent /\ file'.writers # file.writers =>
          IsReadOnly(file.writers) # IsReadOnly(file'.writers)]_vars

\* On a volume mounted read-only no file is created and no mode, time or
\* attribute changes: only get_extended_attributes gets past its first check,
\* even if the kernel driver's gate is open (ensure_writable).
ReadOnlyAttributesUntouched ==
    [][~writable =>
          /\ UNCHANGED file
          /\ \A t \in Threads : req[t] # Nil => req[t].op = "get_ea"]_vars

\* The offsets a reader of the list can come to.
Offsets(b) == {0} \cup {e.at + e.next : e \in b.entries}

\* The first so many entries a reader of the list meets, by their offsets: there
\* is an entry to be taken at each, and another of them is linked to it unless it
\* is where the list begins.
Beginnings(b) ==
    {P \in SUBSET Offsets(b) :
        \A p \in P : Readable(b, p) /\ (p = 0 \/ \E q \in P : Leads(b, q, p))}

\* ... and they are all.
IsWhole(b, P) ==
    \A p \in Offsets(b) :
        Readable(b, p) /\ (p = 0 \/ \E q \in P : Leads(b, q, p)) => p \in P

\* What entries mean: of each attribute the last one that names it counts, and
\* an empty value means none.
Meant(ea, b, P) ==
    [a \in EaNames |->
        LET naming == {p \in P : EntryAt(b, p).name = a}
            vlen == EntryAt(b, Max(naming)).vlen
        IN  IF naming = {} THEN ea[a] ELSE IF vlen = 0 THEN Absent ELSE vlen]

\* However far apply_ea_buffer gets, the file has the effect of the first so
\* many entries of the list and of no other; when it is through, of them all
\* (set_extended_attributes, create).
EntriesInOrder ==
    \A t \in Threads : Undisturbed(t) /\ req[t].op \in {"create", "set_ea"} =>
        LET b == req[t].buf
        IN  \E P \in Beginnings(b) :
               /\ file = [req[t].was EXCEPT !.ea = Meant(@, b, P)]
               /\ req[t].pc = "final" => IsWhole(b, P)

\* A list that is handed out reads back, with apply_ea_buffer's own reading, as
\* the attributes that could be read, each once and in order, with the values
\* they had if nobody changed them (get_extended_attributes).  Set again it sets
\* what was read, but for empty values, which it removes.
ListReadsBack ==
    \A t \in Threads : req[t] # Nil /\ req[t].op = "get_ea" /\ req[t].pc = "done" =>
        LET r == req[t]
            NameAt(p) == EntryAt(r.buf, p).name
        IN  \E P \in Beginnings(r.buf) :
               /\ IsWhole(r.buf, P)
               /\ {NameAt(p) : p \in P} = {r.names[i] : i \in DOMAIN r.names} \ r.missed
               /\ \A p, q \in P : p < q =>
                     \E i, j \in DOMAIN r.names :
                        i < j /\ NameAt(p) = r.names[i] /\ NameAt(q) = r.names[j]
               /\ Undisturbed(t) =>
                     \A p \in P : EntryAt(r.buf, p).vlen = r.was.ea[NameAt(p)]
=============================================================================
