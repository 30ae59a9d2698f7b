------------------------------ MODULE DirListing ------------------------------
(***************************************************************************)
(* Listing a directory in several calls while it changes (src/mount.rs:    *)
(* walk_dir and the read_directory callback).                              *)
(*                                                                         *)
(* A call walks the directory from its first entry, passes over every      *)
(* entry up to and including the marker, which is the name the previous    *)
(* call ended with, and hands out what follows until the buffer is full.   *)
(* FineGuard keeps a call apart from creations, renames and deletions, so  *)
(* the directory changes between the calls of a listing only.              *)
(*                                                                         *)
(* External: the directory is a row of slots, in on-disk order; an entry   *)
(* keeps its slot, a new one takes any free slot, a rename is a removal    *)
(* and an addition.  The caller asks until a call hands out nothing, or    *)
(* ends the listing at the entry finalize_buffer puts after what a call    *)
(* hands out: read_directory puts it there whenever it has room for it,    *)
(* whether or not the walk was stopped by a full buffer.                   *)
(***************************************************************************)
EXTENDS Integers, FiniteSets

CONSTANTS
    Names,          \* names of entries
    Undecodable,    \* those that are not UTF-8
    Dangling,       \* symlinks that lead nowhere
    Overlong,       \* those DirInfo::set_name refuses
    Size,           \* bound on the directory, in slots
    MaxBatch,       \* bound on the entries that fit a buffer
    MarkerStays,    \* does the entry a listing resumes after stay?
    Nil

ASSUME SizeAssumption == Size \in Nat
ASSUME HiddenAssumption ==
    Undecodable \subseteq Names /\ Dangling \subseteq Names /\ Overlong \subseteq Names
ASSUME MarkerAssumption == MarkerStays \in BOOLEAN /\ Nil \notin Names
ASSUME BatchAssumption == MaxBatch \in Nat \ {0}

Slots == 1 .. Size

VARIABLES
    slot,       \* the entry in each slot, or Nil
    phase,      \* "cut": the caller ended it though the walk had not got to the end
    marker,     \* the name the last call ended with, or Nil
    emitted,    \* how often each name was handed out in this listing (2: more)
    stable      \* history: names that were there all along this listing

vars == <<slot, phase, marker, emitted, stable>>

Phases == {"idle", "listing", "done", "cut", "failed"}

Visible == Names \ (Undecodable \cup Dangling \cup Overlong)

Present == {slot[i] : i \in Slots} \ {Nil}

TypeOK ==
    /\ slot \in [Slots -> Names \cup {Nil}]
    /\ \A i, j \in Slots : slot[i] = slot[j] /\ slot[i] # Nil => i = j
    /\ phase \in Phases
    /\ marker \in Visible \cup {Nil}
    /\ emitted \in [Names -> 0..2]
    /\ stable \subseteq Present

Init ==
    /\ slot \in [Slots -> Names \cup {Nil}]
    /\ \A i, j \in Slots : slot[i] = slot[j] /\ slot[i] # Nil => i = j
    /\ phase = "idle" /\ marker = Nil
    /\ emitted = [n \in Names |-> 0]
    /\ stable = {}

\* A new listing starts without a marker.
Begin ==
    /\ phase # "listing"
    /\ phase' = "listing" /\ marker' = Nil
    /\ emitted' = [n \in Names |-> 0]
    /\ stable' = Present
    /\ UNCHANGED slot

-----------------------------------------------------------------------------
(* walk_dir.                                                               *)

\* Mutant: the marker itself is handed out again.
FromMarker(i) ==
    marker = Nil \/ \E j \in Slots : j <= i /\ slot[j] = marker

\* `started`: the walk has passed the marker, which it has to meet.
AfterMarker(i) ==
    marker = Nil \/ \E j \in Slots : j < i /\ slot[j] = marker

\* Mutant: a name that is not UTF-8 is handed out in a lossy form.
WalkedLossily == {i \in Slots : slot[i] \in Names /\ AfterMarker(i)}

\* The entries a call stats, if it gets that far.
Walked == {i \in Slots : slot[i] \in Names \ Undecodable /\ AfterMarker(i)}

\* A symlink that does not resolve is ENOENT, and left out; so is, without a
\* word, an entry whose name does not go into a DirInfo.
Listable == {i \in Walked : slot[i] \notin Dangling \cup Overlong}

Before(i) == {j \in Listable : j < i}

\* The first k of them are handed out; the next one stops the walk.
Batch(k) == {i \in Listable : Cardinality(Before(i)) < k}

\* Mutant: an entry that cannot be stat'ed is left out like a dangling symlink.
NeverFails(failing, k) == FALSE

\* An entry whose stat fails with anything but ENOENT fails the call, if the
\* walk gets to it before the buffer stops it.
WalkFails(failing, k) ==
    \E i \in failing \cap Walked : Cardinality(Before(i)) <= k

\* Mutant: what a call hands out leaves no marker behind.
StartOver(batch) == Nil

\* The marker of the next call: the last entry of this one.
LastOf(batch) == slot[CHOOSE last \in batch : \A i \in batch : i <= last]

\* What the caller makes of a buffer with entries: it asks on, or the end of the
\* listing that finalize_buffer has put after them is the end for it.
Taken(batch) == {"listing", IF Listable \subseteq batch THEN "done" ELSE "cut"}

\* read_directory, for a buffer of k entries and the slots whose stat fails.
Call(k, failing) ==
    /\ phase = "listing"
    /\ LET batch == Batch(k) \ failing
       IN  IF WalkFails(failing, k)
             THEN phase' = "failed" /\ UNCHANGED <<marker, emitted>>
             ELSE IF batch = {}
             THEN phase' = "done" /\ UNCHANGED <<marker, emitted>>
             ELSE /\ phase' \in Taken(batch)
                  /\ marker' = LastOf(batch)
                  /\ emitted' = [n \in Names |->
                        IF \E i \in batch : slot[i] = n
                          THEN (IF emitted[n] = 0 THEN 1 ELSE 2) ELSE emitted[n]]
    /\ UNCHANGED <<slot, stable>>

-----------------------------------------------------------------------------
(* Other requests of the volume, between two calls.                        *)

Add(n, i) ==
    /\ n \notin Present /\ slot[i] = Nil
    /\ slot' = [slot EXCEPT ![i] = n]
    /\ UNCHANGED <<phase, marker, emitted, stable>>

Remove(i) ==
    /\ slot[i] # Nil
    /\ MarkerStays => slot[i] # marker
    /\ slot' = [slot EXCEPT ![i] = Nil]
    /\ stable' = stable \ {slot[i]}
    /\ UNCHANGED <<phase, marker, emitted>>

Calls == \E k \in 1..MaxBatch, failing \in SUBSET Slots : Call(k, failing)

Next ==
    \/ Begin
    \/ Calls
    \/ \E n \in Names, i \in Slots : Add(n, i)
    \/ \E i \in Slots : Remove(i)

Spec == Init /\ [][Next]_vars

\* The caller asks on, and its call fails on no entry.
AskOn(k) == Call(k, {}) /\ (phase' = "listing" \/ Listable = {})

\* The caller goes on asking until there is nothing left to hand out.  Neither a
\* failure nor an early end is owed to it: a listing that gets nowhere is not
\* saved by one.
FairSpec == Spec /\ WF_vars(\E k \in 1..MaxBatch : AskOn(k))

-----------------------------------------------------------------------------
(* What is promised.                                                       *)

\* The listing has got past the entry, and the one it would resume after is
\* where it was.
GotPast(n) ==
    /\ MarkerStays /\ marker # Nil
    /\ \E i, m \in Slots : slot[i] = n /\ slot[m] = marker /\ i <= m

\* A listing that has walked the directory to its end has shown every entry that
\* was there all along, resolves and has a name WinFsp can hold; one that fails,
\* or is ended by the caller behind a full buffer, every such entry up to its
\* last: nothing is missing from the middle.  "Leaving such an entry out would
\* show Windows a short or an empty folder, and a user cannot tell that from a
\* correct one" (walk_dir).
Complete ==
    \A n \in stable \cap Visible : phase = "done" \/ GotPast(n) => emitted[n] > 0

\* ... and none of them twice, whatever is added or removed between the calls.
NoDuplicates == \A n \in stable : emitted[n] <= 1

\* A listing ends: each call gets further than the one before.
ListingEnds == phase = "listing" ~> phase # "listing"
=============================================================================
