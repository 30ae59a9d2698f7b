--------------------------- MODULE DirListingProofs ---------------------------
(***************************************************************************)
(* Proofs about DirListing, for every directory and every way to cut a     *)
(* listing into calls.                                                     *)
(***************************************************************************)
EXTENDS DirListing, TLAPS, FiniteSetTheorems, WellFoundedInduction

Less == {ss \in Nat \X Nat : ss[1] < ss[2]}

\* A set of naturals has a first element.
LEMMA Least ==
    ASSUME NEW S \in SUBSET Nat, S # {}
    PROVE  \E i \in S : \A j \in S : i <= j
<1>1. IsWellFoundedOn(OpToRel(<, Nat), Nat)
  BY NatLessThanWellFounded
<1>2. OpToRel(<, Nat) = Less
  BY DEF OpToRel, Less
<1>3. IsWellFoundedOn(Less, Nat)
  BY <1>1, <1>2
<1>4. PICK i \in S : \A j \in S : ~ (<<j, i>> \in Less)
  BY <1>3, WFMin
<1>5. \A j \in S : ~ (j < i)
  BY <1>4 DEF Less
<1> QED
  BY <1>5

\* A set of slots has a first and a last one.
LEMMA Ends ==
    ASSUME NEW S \in SUBSET Slots, S # {}
    PROVE  /\ \E i \in S : \A j \in S : i <= j
           /\ \E i \in S : \A j \in S : j <= i
<1>1. \E i \in S : \A j \in S : i <= j
  BY Least, SizeAssumption DEF Slots
<1>2. \E i \in S : \A j \in S : j <= i
  <2> DEFINE mirrored == {Size - i : i \in S}
  <2>1. mirrored \in SUBSET Nat /\ mirrored # {}
    <3>1. \A i \in S : Size - i \in Nat
      BY SizeAssumption DEF Slots
    <3> QED BY <3>1
  <2>2. PICK k \in mirrored : \A l \in mirrored : k <= l
    <3> HIDE DEF mirrored
    <3> QED BY <2>1, Least
  <2>3. PICK i \in S : k = Size - i
    BY <2>2
  <2>4. ASSUME NEW j \in S PROVE j <= i
    <3>1. Size - i <= Size - j
      BY <2>2, <2>3
    <3> QED BY <3>1, SizeAssumption DEF Slots
  <2> QED BY <2>4
<1> QED
  BY <1>1, <1>2

LEMMA LastIsLast ==
    ASSUME NEW batch \in SUBSET Slots, batch # {}
    PROVE  \E last \in batch : LastOf(batch) = slot[last] /\ \A i \in batch : i <= last
<1>1. \E last \in batch : \A i \in batch : i <= last
  BY Ends
<1> QED
  BY <1>1 DEF LastOf

\* The entries before a slot can be counted, and the more the further on.
LEMMA BeforeGrows ==
    ASSUME NEW i \in Slots, NEW j \in Slots, i <= j
    PROVE  /\ IsFiniteSet(Before(i)) /\ Cardinality(Before(i)) \in Nat
           /\ Cardinality(Before(j)) \in Nat
           /\ Cardinality(Before(i)) <= Cardinality(Before(j))
<1>1. IsFiniteSet(Slots)
  BY FS_Interval, SizeAssumption DEF Slots
<1>2. Before(i) \in SUBSET Before(j) /\ Before(j) \in SUBSET Slots
  BY SizeAssumption DEF Before, Listable, Walked, Slots
<1>3. IsFiniteSet(Before(j))
  BY <1>1, <1>2, FS_Subset
<1>4. IsFiniteSet(Before(i)) /\ Cardinality(Before(i)) <= Cardinality(Before(j))
  BY <1>2, <1>3, FS_Subset
<1> QED
  BY <1>3, <1>4, FS_CardinalityType

-----------------------------------------------------------------------------
(* What one call does.                                                     *)

\* Up to the last entry a call hands out, it hands out all that is listable.
LEMMA BatchIsPrefix ==
    ASSUME NEW k \in 1 .. MaxBatch, NEW last \in Batch(k), NEW i \in Listable, i <= last
    PROVE  i \in Batch(k)
<1>1. i \in Slots /\ last \in Slots
  BY DEF Batch, Listable, Walked
<1>2. Cardinality(Before(i)) <= Cardinality(Before(last))
  BY <1>1, BeforeGrows
<1>3. Cardinality(Before(last)) < k
  BY DEF Batch
<1>4. Cardinality(Before(i)) \in Nat /\ Cardinality(Before(last)) \in Nat
  BY <1>1, BeforeGrows
<1> QED
  BY <1>2, <1>3, <1>4, BatchAssumption DEF Batch

\* A call that hands out nothing has nothing left to hand out.
LEMMA NothingLeft ==
    ASSUME NEW k \in 1 .. MaxBatch, Batch(k) = {}
    PROVE  Listable = {}
<1> SUFFICES ASSUME Listable # {} PROVE FALSE
  OBVIOUS
<1>1. PICK i \in Listable : \A j \in Listable : i <= j
  BY Ends DEF Listable, Walked
<1>2. Before(i) = {}
  BY <1>1, SizeAssumption DEF Before, Listable, Walked, Slots
<1>3. Cardinality(Before(i)) = 0
  BY <1>2, FS_EmptySet
<1> QED
  BY <1>1, <1>3, BatchAssumption DEF Batch

\* What fails within reach of the buffer fails the call.
LEMMA NoneFailing ==
    ASSUME NEW k \in 1 .. MaxBatch, NEW failing, ~WalkFails(failing, k)
    PROVE  Batch(k) \ failing = Batch(k)
<1> SUFFICES ASSUME NEW i \in Batch(k), i \in failing PROVE FALSE
  OBVIOUS
<1>1. i \in Slots /\ i \in Walked /\ Cardinality(Before(i)) < k
  BY DEF Batch, Listable, Walked
<1>2. Cardinality(Before(i)) \in Nat
  BY <1>1, BeforeGrows, SizeAssumption DEF Slots
<1> QED
  BY <1>1, <1>2, BatchAssumption DEF WalkFails

HandsOut(k, failing) == ~WalkFails(failing, k) /\ Batch(k) \ failing # {}

\* A call that hands something out: a batch, in slots of its own, and the marker
\* is the last of them.
LEMMA CallHandsOut ==
    ASSUME TypeOK, NEW k \in 1 .. MaxBatch, NEW failing \in SUBSET Slots, Call(k, failing),
           HandsOut(k, failing)
    PROVE  \E last \in Batch(k) :
             /\ last \in Slots /\ \A i \in Batch(k) : i <= last
             /\ marker' = slot[last] /\ phase' \in Taken(Batch(k))
             /\ emitted' = [n \in Names |->
                   IF \E i \in Batch(k) : slot[i] = n
                     THEN (IF emitted[n] = 0 THEN 1 ELSE 2) ELSE emitted[n]]
<1>1. ~WalkFails(failing, k) /\ Batch(k) \ failing # {}
  BY DEF HandsOut
<1>2. Batch(k) \ failing = Batch(k)
  BY <1>1, NoneFailing
<1>3. Batch(k) \in SUBSET Slots
  BY DEF Batch, Listable, Walked
<1>4. PICK last \in Batch(k) :
         LastOf(Batch(k)) = slot[last] /\ \A i \in Batch(k) : i <= last
  BY <1>1, <1>2, <1>3, LastIsLast
<1>5. marker' = LastOf(Batch(k)) /\ phase' \in Taken(Batch(k))
  BY <1>1, <1>2 DEF Call
<1>6. emitted' = [n \in Names |->
                   IF \E i \in Batch(k) : slot[i] = n
                     THEN (IF emitted[n] = 0 THEN 1 ELSE 2) ELSE emitted[n]]
  BY <1>1, <1>2 DEF Call
<1> QED
  BY <1>1, <1>3, <1>4, <1>5, <1>6

\* A call that ends the listing with nothing has nothing left to hand out.
LEMMA CallEnds ==
    ASSUME NEW k \in 1 .. MaxBatch, NEW failing \in SUBSET Slots, Call(k, failing),
           phase' = "done", ~HandsOut(k, failing)
    PROVE  Listable = {}
<1>1. ~WalkFails(failing, k) /\ Batch(k) \ failing = {}
  BY DEF Call, HandsOut
<1>2. Batch(k) = {}
  BY <1>1, NoneFailing
<1> QED
  BY <1>2, NothingLeft

LEMMA CallPhases ==
    ASSUME NEW k \in 1 .. MaxBatch, NEW failing \in SUBSET Slots, Call(k, failing)
    PROVE  /\ phase = "listing" /\ phase' \in {"listing", "done", "cut", "failed"}
           /\ ~HandsOut(k, failing) => phase' \in {"done", "failed"} /\ UNCHANGED <<marker, emitted>>
           /\ HandsOut(k, failing) => phase' # "failed"
           /\ UNCHANGED <<slot, stable>>
BY DEF Call, HandsOut, Taken

-----------------------------------------------------------------------------
(* Type correctness.                                                       *)

LEMMA TypingStep ==
    ASSUME TypeOK, [Next]_vars
    PROVE  TypeOK'
<1>1. CASE Begin
  BY <1>1 DEF TypeOK, Begin, Present, Phases
<1>2. CASE Calls
  <2>1. PICK k \in 1 .. MaxBatch, failing \in SUBSET Slots : Call(k, failing)
    BY <1>2 DEF Calls
  <2>2. slot' = slot /\ stable' = stable /\ Present' = Present
    BY <2>1, CallPhases DEF Present
  <2>3. CASE HandsOut(k, failing)
    <3>1. PICK last \in Batch(k) :
             /\ marker' = slot[last]
             /\ emitted' = [n \in Names |->
                   IF \E i \in Batch(k) : slot[i] = n
                     THEN (IF emitted[n] = 0 THEN 1 ELSE 2) ELSE emitted[n]]
      BY <2>1, <2>3, CallHandsOut
    <3>2. marker' \in Visible
      BY <3>1 DEF Batch, Listable, Walked, Visible
    <3>3. emitted' \in [Names -> 0 .. 2]
      BY <3>1 DEF TypeOK
    <3>4. phase' \in Phases
      BY <2>1, CallPhases DEF Phases
    <3> QED BY <2>2, <2>3, <3>2, <3>3, <3>4 DEF TypeOK
  <2>4. CASE ~HandsOut(k, failing)
    <3>1. UNCHANGED <<marker, emitted>> /\ phase' \in {"done", "failed"}
      BY <2>1, <2>4, CallPhases
    <3> QED BY <2>2, <3>1 DEF TypeOK, Phases
  <2> QED BY <2>3, <2>4
<1>3. ASSUME NEW n \in Names, NEW i \in Slots, Add(n, i) PROVE TypeOK'
  <2>1. slot' \in [Slots -> Names \cup {Nil}]
    BY <1>3 DEF TypeOK, Add
  <2>2. \A a, b \in Slots : slot'[a] = slot'[b] /\ slot'[a] # Nil => a = b
    BY <1>3 DEF TypeOK, Add, Present
  <2>3. Present \subseteq Present'
    BY <1>3 DEF TypeOK, Add, Present
  <2> QED BY <1>3, <2>1, <2>2, <2>3 DEF TypeOK, Add
<1>4. ASSUME NEW i \in Slots, Remove(i) PROVE TypeOK'
  <2>1. slot' \in [Slots -> Names \cup {Nil}]
    BY <1>4 DEF TypeOK, Remove
  <2>2. \A a, b \in Slots : slot'[a] = slot'[b] /\ slot'[a] # Nil => a = b
    BY <1>4 DEF TypeOK, Remove
  <2>3. Present \ {slot[i]} \subseteq Present'
    BY <1>4 DEF TypeOK, Remove, Present
  <2> QED BY <1>4, <2>1, <2>2, <2>3 DEF TypeOK, Remove
<1>5. CASE UNCHANGED vars
  BY <1>5 DEF TypeOK, vars, Present
<1> QED
  BY <1>1, <1>2, <1>3, <1>4, <1>5 DEF Next

LEMMA TypingInit == Init => TypeOK
BY MarkerAssumption DEF Init, TypeOK, Present, Phases

\* Directory, marker and counts stay well formed whatever happens between two
\* calls: no name is in two slots, and the marker is a name that was handed out
\* (DirListing, walk_dir and read_directory).
THEOREM Typing == Spec => []TypeOK
BY TypingInit, TypingStep, PTL DEF Spec

-----------------------------------------------------------------------------
(* Listings whose marker stays.                                            *)

\* The slot is not after the marker's.
Passed(j) == marker # Nil /\ \E m \in Slots : slot[m] = marker /\ j <= m

MarkerInv == marker # Nil => marker \in Present

\* Of the entries that stay, those up to the marker have been shown, once,
\* and the others not at all; a listing that is done has passed them all.
ShownInv ==
    \A j \in Slots : slot[j] \in stable =>
        /\ emitted[slot[j]] <= 1
        /\ emitted[slot[j]] > 0 => Passed(j)
        /\ slot[j] \in Visible =>
             /\ Passed(j) => emitted[slot[j]] > 0
             /\ phase = "done" => emitted[slot[j]] > 0

IInv == TypeOK /\ MarkerInv /\ ShownInv

LEMMA InvInit == Init => IInv
BY TypingInit DEF Init, IInv, MarkerInv, ShownInv

\* The walk has the marker behind it exactly where the listing has not passed.
LEMMA NotPassed ==
    ASSUME IInv, NEW j \in Slots, slot[j] \in Names
    PROVE  AfterMarker(j) <=> ~Passed(j)
<1>1. CASE marker = Nil
  BY <1>1 DEF AfterMarker, Passed
<1>2. CASE marker # Nil
  <2>1. PICK m \in Slots : slot[m] = marker
    BY <1>2 DEF IInv, MarkerInv, Present
  <2>2. \A a \in Slots : slot[a] = marker => a = m
    BY <1>2, <2>1 DEF IInv, TypeOK
  <2>3. AfterMarker(j) <=> m < j
    BY <1>2, <2>1, <2>2 DEF AfterMarker
  <2>4. Passed(j) <=> j <= m
    BY <1>2, <2>1, <2>2 DEF Passed
  <2> QED BY <2>3, <2>4, SizeAssumption DEF Slots
<1> QED
  BY <1>1, <1>2

LEMMA CallStep ==
    ASSUME IInv, NEW k \in 1 .. MaxBatch, NEW failing \in SUBSET Slots, Call(k, failing)
    PROVE  MarkerInv' /\ ShownInv'
<1>1. slot' = slot /\ stable' = stable /\ Present' = Present /\ phase = "listing"
  BY CallPhases DEF Present
<1>2. CASE HandsOut(k, failing)
  <2>1. PICK last \in Batch(k) :
             /\ last \in Slots /\ \A i \in Batch(k) : i <= last
             /\ marker' = slot[last] /\ phase' \in Taken(Batch(k))
             /\ emitted' = [n \in Names |->
                   IF \E i \in Batch(k) : slot[i] = n
                     THEN (IF emitted[n] = 0 THEN 1 ELSE 2) ELSE emitted[n]]
    BY <1>2, CallHandsOut DEF IInv
  <2>2. slot[last] \in Names /\ ~Passed(last) /\ marker' # Nil
    BY <2>1, NotPassed, MarkerAssumption DEF Batch, Listable, Walked
  <2>3. MarkerInv'
    BY <1>1, <2>1, <2>2 DEF MarkerInv, Present
  <2>4. ASSUME NEW j \in Slots, slot[j] \in stable
        PROVE  /\ emitted'[slot[j]] <= 1
               /\ emitted'[slot[j]] > 0 => Passed(j)'
               /\ slot[j] \in Visible =>
                    /\ Passed(j)' => emitted'[slot[j]] > 0
                    /\ phase' = "done" => emitted'[slot[j]] > 0
    <3>1. slot[j] \in Names
      BY <2>4, MarkerAssumption DEF IInv, TypeOK, Present
    <3>2. (\E i \in Batch(k) : slot[i] = slot[j]) <=> j \in Batch(k)
      BY <3>1, MarkerAssumption DEF IInv, TypeOK, Batch, Listable, Walked
    <3>3. emitted'[slot[j]] = IF j \in Batch(k)
                                THEN (IF emitted[slot[j]] = 0 THEN 1 ELSE 2) ELSE emitted[slot[j]]
      BY <2>1, <3>1, <3>2
    <3>4. Passed(j)' <=> j <= last
      <4>1. \A m \in Slots : slot[m] = slot[last] => m = last
        BY <2>1, <2>2, MarkerAssumption DEF IInv, TypeOK
      <4> QED BY <1>1, <2>1, <2>2, <4>1 DEF Passed
    <3>5. Passed(j) => j <= last
      <4>1. ASSUME last < j, Passed(j) PROVE Passed(last)
        <5>1. PICK m \in Slots : slot[m] = marker /\ j <= m
          BY <4>1 DEF Passed
        <5>2. last <= m
          BY <2>1, <4>1, <5>1, SizeAssumption DEF Slots
        <5> QED BY <4>1, <5>1, <5>2 DEF Passed
      <4> QED BY <2>1, <2>2, <4>1, SizeAssumption DEF Slots
    <3>6. j \in Batch(k) => ~Passed(j)
      BY <3>1, NotPassed DEF Batch, Listable, Walked
    <3>7. ASSUME slot[j] \in Visible, ~Passed(j), j <= last
          PROVE  j \in Batch(k)
      <4>1. j \in Listable
        BY <3>1, <3>7, NotPassed DEF Listable, Walked, Visible
      <4> QED BY <2>1, <3>7, <4>1, BatchIsPrefix
    <3>8. emitted[slot[j]] \in 0 .. 2 /\ emitted[slot[j]] <= 1
          /\ (emitted[slot[j]] > 0 => Passed(j))
          /\ (slot[j] \in Visible => (Passed(j) => emitted[slot[j]] > 0))
      BY <2>4, <3>1 DEF IInv, TypeOK, ShownInv
    <3>9. emitted'[slot[j]] <= 1
      BY <3>3, <3>6, <3>8
    <3>10. emitted'[slot[j]] > 0 => Passed(j)'
      BY <2>1, <3>3, <3>4, <3>5, <3>8
    <3>11. ASSUME slot[j] \in Visible, Passed(j)' PROVE emitted'[slot[j]] > 0
      BY <3>3, <3>4, <3>7, <3>8, <3>11
    <3>12. ASSUME slot[j] \in Visible, phase' = "done" PROVE emitted'[slot[j]] > 0
      <4>1. Listable \subseteq Batch(k)
        BY <2>1, <3>12 DEF Taken
      <4>2. ~Passed(j) => j \in Batch(k)
        BY <3>1, <3>12, <4>1, NotPassed DEF Listable, Walked, Visible
      <4> QED BY <3>3, <3>8, <3>12, <4>2
    <3> QED BY <3>9, <3>10, <3>11, <3>12
  <2> QED BY <1>1, <2>3, <2>4 DEF ShownInv
<1>3. CASE ~HandsOut(k, failing)
  <2>1. UNCHANGED <<marker, emitted>> /\ phase' \in {"done", "failed"}
    BY <1>3, CallPhases
  <2>2. \A j \in Slots : Passed(j)' <=> Passed(j)
    BY <1>1, <2>1 DEF Passed
  <2>3. ASSUME phase' = "done", NEW j \in Slots, slot[j] \in stable, slot[j] \in Visible
        PROVE  Passed(j)
    <3>1. slot[j] \in Names
      BY <2>3 DEF Visible
    <3>2. Listable = {}
      BY <1>3, <2>3, CallEnds
    <3> QED BY <2>3, <3>1, <3>2, NotPassed DEF Listable, Walked, Visible
  <2> QED BY <1>1, <2>1, <2>2, <2>3 DEF IInv, MarkerInv, ShownInv
<1> QED
  BY <1>2, <1>3

LEMMA InvStep ==
    ASSUME MarkerStays, IInv, [Next]_vars
    PROVE  IInv'
<1> SUFFICES MarkerInv' /\ ShownInv'
  BY TypingStep DEF IInv
<1>1. CASE Begin
  <2>1. marker' = Nil /\ phase' = "listing" /\ emitted' = [n \in Names |-> 0]
        /\ stable' = Present /\ slot' = slot
    BY <1>1 DEF Begin
  <2>2. \A j \in Slots : slot[j] \in Present => slot[j] \in Names
    BY MarkerAssumption DEF IInv, TypeOK, Present
  <2> QED BY <2>1, <2>2 DEF MarkerInv, ShownInv, Passed
<1>2. CASE Calls
  BY <1>2, CallStep DEF Calls
<1>3. ASSUME NEW n \in Names, NEW i \in Slots, Add(n, i) PROVE MarkerInv' /\ ShownInv'
  <2>1. UNCHANGED <<phase, marker, emitted, stable>> /\ n \notin Present /\ slot[i] = Nil
        /\ slot' = [slot EXCEPT ![i] = n]
    BY <1>3 DEF Add
  <2>2. \A j \in Slots : j # i => slot'[j] = slot[j]
    BY <2>1 DEF IInv, TypeOK
  <2>3. n \notin stable /\ n # marker /\ slot'[i] = n
    BY <2>1, MarkerAssumption DEF IInv, TypeOK, MarkerInv
  <2>4. Present \subseteq Present'
    BY <2>1, <2>2 DEF Present
  <2>5. \A j \in Slots : Passed(j)' <=> Passed(j)
    BY <2>1, <2>2, <2>3 DEF Passed
  <2> QED BY <2>1, <2>2, <2>3, <2>4, <2>5 DEF IInv, MarkerInv, ShownInv
<1>4. ASSUME NEW i \in Slots, Remove(i) PROVE MarkerInv' /\ ShownInv'
  <2>1. UNCHANGED <<phase, marker, emitted>> /\ slot[i] # Nil /\ slot[i] # marker
        /\ slot' = [slot EXCEPT ![i] = Nil] /\ stable' = stable \ {slot[i]}
    BY <1>4 DEF Remove
  <2>2. slot'[i] = Nil /\ \A j \in Slots : j # i => slot'[j] = slot[j]
    BY <2>1 DEF IInv, TypeOK
  <2>3. Present \ {slot[i]} \subseteq Present'
    BY <2>2 DEF Present
  <2>4. MarkerInv'
    BY <2>1, <2>3 DEF IInv, MarkerInv
  <2>5. \A j \in Slots : Passed(j)' <=> Passed(j)
    BY <2>1, <2>2 DEF Passed
  <2>6. Nil \notin stable'
    BY <2>1 DEF IInv, TypeOK, Present
  <2> QED BY <2>1, <2>2, <2>4, <2>5, <2>6 DEF IInv, ShownInv
<1>5. CASE UNCHANGED vars
  BY <1>5 DEF vars, IInv, MarkerInv, ShownInv, Passed, Present
<1> QED
  BY <1>1, <1>2, <1>3, <1>4, <1>5 DEF Next

\* While the marker stays, a listing that has walked the directory to its end
\* has shown every entry that was there all along, leads somewhere and has a name
\* it can be shown by; and any listing all of them up to where it has got: a call
\* that fails or is cut leaves no gap (walk_dir, read_directory).
THEOREM AllShown ==
    ASSUME MarkerStays
    PROVE  Spec => []Complete
<1>1. IInv => Complete
  <2> SUFFICES ASSUME IInv, NEW n \in stable \cap Visible, phase = "done" \/ GotPast(n)
               PROVE  emitted[n] > 0
    BY DEF Complete
  <2>1. PICK j \in Slots : slot[j] = n /\ (phase = "done" \/ Passed(j))
    <3>1. CASE phase = "done"
      BY <3>1 DEF IInv, TypeOK, Present
    <3>2. CASE GotPast(n)
      BY <3>2 DEF GotPast, Passed
    <3> QED BY <3>1, <3>2
  <2> QED BY <2>1 DEF IInv, ShownInv
<1> QED
  BY <1>1, InvInit, InvStep, PTL DEF Spec

\* ... and no entry that stays twice, whatever is added or removed between the
\* calls (walk_dir).
THEOREM ShownOnce ==
    ASSUME MarkerStays
    PROVE  Spec => []NoDuplicates
<1>1. IInv => NoDuplicates
  <2> SUFFICES ASSUME IInv, NEW n \in stable PROVE emitted[n] <= 1
    BY DEF NoDuplicates
  <2>1. PICK j \in Slots : slot[j] = n
    BY DEF IInv, TypeOK, Present
  <2> QED BY <2>1 DEF IInv, ShownInv
<1> QED
  BY <1>1, InvInit, InvStep, PTL DEF Spec

\* What a listing has passed it never has to go through again, and a call that
\* does not end it passes something more: no listing takes more calls than there
\* are slots, and one (the safety half of ListingEnds).
GetsFurther ==
    phase = "listing" /\ phase' = "listing" =>
        /\ \A j \in Slots : Passed(j) => Passed(j)'
        /\ Calls => \E j \in Slots : ~Passed(j) /\ Passed(j)'

LEMMA CallGetsFurther ==
    ASSUME IInv, NEW k \in 1 .. MaxBatch, NEW failing \in SUBSET Slots, Call(k, failing),
           phase' = "listing"
    PROVE  /\ \A j \in Slots : Passed(j) => Passed(j)'
           /\ \E j \in Slots : ~Passed(j) /\ Passed(j)'
<1>1. slot' = slot
  BY CallPhases
<1>2. PICK last \in Batch(k) : last \in Slots /\ marker' = slot[last]
  BY CallHandsOut, CallPhases DEF IInv
<1>3. slot[last] \in Names /\ ~Passed(last)
  BY <1>2, NotPassed DEF Batch, Listable, Walked
<1>4. \A j \in Slots : j <= last => Passed(j)'
  BY <1>1, <1>2, <1>3, MarkerAssumption DEF Passed
<1>5. ASSUME NEW j \in Slots, Passed(j) PROVE j <= last
  <2>1. PICK m \in Slots : slot[m] = marker /\ j <= m /\ marker # Nil
    BY <1>5 DEF Passed
  <2>2. ~(last <= m)
    BY <1>2, <1>3, <2>1 DEF Passed
  <2> QED
    BY <1>2, <2>1, <2>2, SizeAssumption DEF Slots
<1>6. last <= last
  BY <1>2, SizeAssumption DEF Slots
<1> QED
  BY <1>2, <1>3, <1>4, <1>5, <1>6

\* While the marker stays, every call of read_directory gets further than the
\* one before, and what others add or remove in between does not set it back.
THEOREM Advances ==
    ASSUME MarkerStays
    PROVE  Spec => [][GetsFurther]_vars
<1>1. IInv /\ [Next]_vars => [GetsFurther]_vars
  <2> SUFFICES ASSUME IInv, Next, phase = "listing", phase' = "listing"
               PROVE  GetsFurther
    BY DEF GetsFurther
  <2>1. CASE Begin
    BY <2>1 DEF Begin
  <2>2. CASE Calls
    BY <2>2, CallGetsFurther DEF Calls, GetsFurther
  <2>3. ASSUME NEW n \in Names, NEW i \in Slots, Add(n, i) PROVE GetsFurther
    <3>1. /\ marker' = marker /\ slot[i] = Nil /\ slot' # slot
          /\ \A j \in Slots : j # i => slot'[j] = slot[j]
      BY <2>3, MarkerAssumption DEF Add, IInv, TypeOK
    <3>2. ~Calls
      BY <3>1, CallPhases DEF Calls
    <3> QED
      BY <3>1, <3>2 DEF GetsFurther, Passed
  <2>4. ASSUME NEW i \in Slots, Remove(i) PROVE GetsFurther
    <3>1. /\ marker' = marker /\ slot[i] # marker /\ slot' # slot
          /\ \A j \in Slots : j # i => slot'[j] = slot[j]
      BY <2>4 DEF Remove, IInv, TypeOK
    <3>2. ~Calls
      BY <3>1, CallPhases DEF Calls
    <3> QED
      BY <3>1, <3>2 DEF GetsFurther, Passed
  <2> QED
    BY <2>1, <2>2, <2>3, <2>4 DEF Next
<1> QED
  BY <1>1, InvInit, InvStep, PTL DEF Spec
=============================================================================
