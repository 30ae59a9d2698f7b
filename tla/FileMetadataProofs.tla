-------------------------- MODULE FileMetadataProofs --------------------------
(***************************************************************************)
(* Proofs about FileMetadata, for every number of threads, every EA buffer *)
(* and every set of attributes.                                            *)
(***************************************************************************)
EXTENDS FileMetadata, TLAPS, FiniteSetTheorems, SequenceTheorems

LEMMA Lengths ==
    /\ IsFiniteSet(EaNames) /\ Sizes \subseteq Nat /\ ValueLens \subseteq Nat
    /\ \A n \in EaNames : NameLen[n] \in Nat
BY LengthAssumption

\* A request of each kind, by its operation.
LEMMA Kinds ==
    ASSUME TypeOK, NEW t \in Threads, req[t] # Nil
    PROVE  /\ file \in Files
           /\ req[t].op = "basic" => req[t] \in BasicRequest
           /\ req[t].op \in {"create", "set_ea"} => req[t] \in SetRequest
           /\ req[t].op = "get_ea" => req[t] \in GetRequest
           /\ req[t].op \in {"basic", "create", "set_ea", "get_ea"}
           /\ req[t] \in Requests
BY DEF TypeOK, Requests, BasicRequest, SetRequest, GetRequest

\* A request of which only "was" is dropped is one of its kind.
LEMMA Disturb ==
    ASSUME NEW r \in Requests
    PROVE  LET d == [r EXCEPT !.was = Nil]
           IN  /\ d \in Requests /\ d.op = r.op /\ d.pc = r.pc /\ d.was = Nil
               /\ r \in BasicRequest => d \in BasicRequest /\ d.seen = r.seen /\ d.attrs = r.attrs
                                        /\ d.time = r.time
               /\ r \in GetRequest => d \in GetRequest /\ d.i = r.i /\ d.names = r.names
                                      /\ d.buf = r.buf /\ d.size = r.size
                                      /\ d.missed = r.missed
<1>1. CASE r \in BasicRequest
  BY <1>1 DEF Requests, BasicRequest, SetRequest, GetRequest
<1>2. CASE r \in SetRequest
  BY <1>2 DEF Requests, BasicRequest, SetRequest, GetRequest
<1>3. CASE r \in GetRequest
  BY <1>3 DEF Requests, BasicRequest, SetRequest, GetRequest
<1> QED
  BY <1>1, <1>2, <1>3 DEF Requests

-----------------------------------------------------------------------------
(* Type correctness.                                                       *)

\* What the invariant says of one request.
WellFormed(r, f) ==
    r # Nil => /\ r \in Requests /\ f # Absent
               /\ r.op = "get_ea" => /\ r.i \in 1..(Len(r.names) + 1)
                                     /\ r.pc = "list" => r.i = 1
                                     /\ r.buf.len <= r.size

LEMMA TypeByRequest ==
    TypeOK <=> /\ writable \in BOOLEAN
               /\ file \in Files \cup {Absent}
               /\ req = [t \in Threads |-> req[t]]
               /\ \A t \in Threads : WellFormed(req[t], file)
BY DEF TypeOK, WellFormed

\* A request that goes on and changes the file if it pleases.
LEMMA GoesTyped ==
    ASSUME TypeOK, NEW t \in Threads, NEW r, WellFormed(r, file), Goes(t, r),
           UNCHANGED <<writable, file>>
    PROVE  TypeOK'
<1>1. req' = [u \in Threads |-> IF u = t THEN r ELSE req[u]]
  BY TypeByRequest DEF Goes
<1>2. \A u \in Threads : WellFormed(req[u], file)' 
  BY <1>1, TypeByRequest DEF WellFormed
<1> QED
  BY <1>1, <1>2, TypeByRequest DEF TypeOK, WellFormed

LEMMA ChangesTyped ==
    ASSUME TypeOK, NEW t \in Threads, NEW r, NEW f \in Files, WellFormed(r, f),
           Changes(t, r, f), UNCHANGED writable
    PROVE  TypeOK'
<1>1. file' = f /\ f # Absent
  BY AbsentAssumption DEF Changes
<1>2. req' = [u \in Threads |-> IF u = t THEN r
                                ELSE IF req[u] = Nil \/ f = file THEN req[u]
                                ELSE [req[u] EXCEPT !.was = Nil]]
  BY DEF Changes
<1>3. ASSUME NEW u \in Threads PROVE WellFormed(req'[u], file')
  <2>1. CASE u = t
    BY <1>1, <1>2, <2>1
  <2>2. CASE u # t /\ (req[u] = Nil \/ f = file)
    BY <1>1, <1>2, <2>2, TypeByRequest DEF WellFormed
  <2>3. CASE u # t /\ req[u] # Nil /\ f # file
    <3>1. req'[u] = [req[u] EXCEPT !.was = Nil] /\ req[u] \in Requests
      BY <1>2, <2>3, Kinds
    <3>2. req[u].op = "get_ea" => req[u] \in GetRequest
      BY <2>3, Kinds
    <3>3. WellFormed(req[u], file)
      BY TypeByRequest
    <3> QED BY <1>1, <2>3, <3>1, <3>2, <3>3, Disturb DEF WellFormed
  <2> QED BY <2>1, <2>2, <2>3
<1> QED
  BY <1>1, <1>2, <1>3 DEF TypeOK, WellFormed

\* Requests as they begin.
LEMMA BeginTyped ==
    ASSUME TypeOK, NEW t \in Threads, NEW r, WellFormed(r, file'), Begin(t, r),
           file' = file \/ file = Absent, file' \in Files, UNCHANGED writable
    PROVE  TypeOK'
<1>1. req' = [u \in Threads |-> IF u = t THEN r ELSE req[u]]
  BY TypeByRequest DEF Begin
<1>2. \A u \in Threads : WellFormed(req[u], file')
  BY TypeByRequest, AbsentAssumption DEF WellFormed
<1>3. \A u \in Threads : WellFormed(req'[u], file')
  BY <1>1, <1>2
<1> QED
  BY <1>1, <1>3 DEF TypeOK, WellFormed

LEMMA BasicTyped ==
    ASSUME TypeOK, NEW t \in Threads
    PROVE  /\ Utimens(t) => TypeOK'
           /\ BasicStat(t) => TypeOK'
           /\ Chmod(t) => TypeOK'
           /\ BasicFinal(t) => TypeOK'
<1> DEFINE r == req[t]
<1>1. ASSUME Utimens(t) PROVE TypeOK'
  <2> DEFINE rr == [r EXCEPT !.pc = IF r.attrs = "unchanged" THEN "final" ELSE "stat"]
  <2>1. r # Nil /\ r.pc = "utimens" /\ file \in Files /\ r \in Requests
    BY <1>1, Kinds DEF Utimens
  <2>2. r \in BasicRequest
    BY <2>1 DEF Requests, BasicRequest, SetRequest, GetRequest
  <2>3. rr \in BasicRequest
    BY <2>2 DEF BasicRequest
  <2>4. rr \in Requests /\ rr.op = "basic"
    BY <2>3 DEF Requests, BasicRequest
  <2>5. CASE r.time = Nil
    <3>1. Goes(t, rr) /\ UNCHANGED <<writable, file>>
      BY <1>1, <2>5 DEF Utimens
    <3>2. WellFormed(rr, file)
      BY <2>1, <2>4, AbsentAssumption DEF WellFormed
    <3> QED BY <3>1, <3>2, GoesTyped
  <2>6. CASE r.time # Nil
    <3> DEFINE f == [file EXCEPT !.time = r.time]
    <3>1. f \in Files
      BY <2>1, <2>2, <2>6 DEF Files, BasicRequest
    <3>2. Changes(t, rr, f) /\ UNCHANGED writable
      BY <1>1, <2>6 DEF Utimens
    <3>3. WellFormed(rr, f)
      BY <2>4, <3>1, AbsentAssumption DEF WellFormed
    <3> HIDE DEF f, rr
    <3> QED BY <3>1, <3>2, <3>3, ChangesTyped
  <2> QED BY <2>5, <2>6
<1>2. ASSUME BasicStat(t) PROVE TypeOK'
  <2> DEFINE rr == [r EXCEPT !.seen = file.writers,
                             !.pc = IF NeedsChmod(r, file.writers) THEN "chmod" ELSE "final"]
  <2>1. r # Nil /\ file \in Files /\ r \in BasicRequest
    BY <1>2, Kinds DEF BasicStat
  <2>2. rr \in BasicRequest
    BY <2>1 DEF BasicRequest, Files
  <2>3. WellFormed(rr, file)
    BY <2>1, <2>2, AbsentAssumption DEF WellFormed, Requests, BasicRequest
  <2> QED BY <1>2, <2>3, GoesTyped DEF BasicStat
<1>3. ASSUME Chmod(t) PROVE TypeOK'
  <2> DEFINE rr == [r EXCEPT !.pc = "final"]
             f == [file EXCEPT !.writers = NewWriters(r)]
  <2>1. r # Nil /\ file \in Files /\ r \in BasicRequest
    BY <1>3, Kinds DEF Chmod
  <2>2. rr \in BasicRequest
    BY <2>1 DEF BasicRequest
  <2>3. f \in Files
    <3>1. NewWriters(r) \in SUBSET WriteBits
      BY <2>1 DEF NewWriters, BasicRequest
    <3> QED BY <2>1, <3>1 DEF Files
  <2>4. WellFormed(rr, f)
    BY <2>1, <2>2, <2>3, AbsentAssumption DEF WellFormed, Requests, BasicRequest
  <2>5. Changes(t, rr, f) /\ UNCHANGED writable
    BY <1>3 DEF Chmod
  <2> HIDE DEF f, rr
  <2> QED BY <2>3, <2>4, <2>5, ChangesTyped
<1>4. ASSUME BasicFinal(t) PROVE TypeOK'
  <2> DEFINE rr == [r EXCEPT !.pc = "done", !.seen = file.writers]
  <2>1. r # Nil /\ file \in Files /\ r \in BasicRequest
    BY <1>4, Kinds DEF BasicFinal
  <2>2. rr \in BasicRequest
    BY <2>1 DEF BasicRequest, Files
  <2>3. WellFormed(rr, file)
    BY <2>1, <2>2, AbsentAssumption DEF WellFormed, Requests, BasicRequest
  <2> QED BY <1>4, <2>3, GoesTyped DEF BasicFinal
<1> QED
  BY <1>1, <1>2, <1>3, <1>4

\* What a reader finds at an offset has the shape of an entry, and its effect
\* on a file's attributes makes attributes.
LEMMA EntryApplies ==
    ASSUME NEW b \in Buffers, NEW p \in Nat, NEW f \in Files
    PROVE  /\ EntryAt(b, p).next \in Nat
           /\ [f EXCEPT !.ea = Applied(@, EntryAt(b, p))] \in Files
<1> DEFINE e == EntryAt(b, p)
<1>1. e \in b.entries \/ e = [at |-> p, next |-> 0, name |-> BadName, vlen |-> 0]
  BY DEF EntryAt
<1>2. e.next \in Nat /\ e.name \in EaNames \cup {BadName}
      /\ (e.name # BadName => e.vlen \in ValueLens)
  BY <1>1, BuffersAssumption DEF Entry
<1>3. f.ea \in [EaNames -> ValueLens \cup {Absent}]
  BY DEF Files
<1>4. Applied(f.ea, e) \in [EaNames -> ValueLens \cup {Absent}]
  <2> HIDE DEF e
  <2> QED BY <1>2, <1>3 DEF Applied
<1>5. [f EXCEPT !.ea = Applied(@, e)] \in Files
  <2> HIDE DEF e
  <2> QED BY <1>4 DEF Files
<1> QED
  BY <1>2, <1>5

LEMMA SetTyped ==
    ASSUME TypeOK, NEW t \in Threads
    PROVE  /\ ApplyEntry(t) => TypeOK'
           /\ SetFinal(t) => TypeOK'
<1> DEFINE r == req[t]
           e == EntryAt(r.buf, r.pos)
<1>1. ASSUME ApplyEntry(t) PROVE TypeOK'
  <2> DEFINE last == [r EXCEPT !.pc = "final"]
             next == [r EXCEPT !.pos = @ + e.next]
             f == [file EXCEPT !.ea = Applied(@, e)]
  <2>1. r # Nil /\ file \in Files /\ r \in SetRequest
    BY <1>1, Kinds DEF ApplyEntry
  <2>2. f \in Files /\ e.next \in Nat
    BY <2>1, EntryApplies DEF SetRequest
  <2>3. last \in SetRequest /\ next \in SetRequest
    <3> HIDE DEF e
    <3> QED BY <2>1, <2>2 DEF SetRequest
  <2>4. \A g \in Files : WellFormed(last, g) /\ WellFormed(next, g)
    BY <2>3, AbsentAssumption DEF WellFormed, Requests, SetRequest
  <2>5. CASE ~Readable(r.buf, r.pos)
    <3>1. Goes(t, last) /\ UNCHANGED <<writable, file>>
      BY <1>1, <2>5 DEF ApplyEntry
    <3> QED BY <2>1, <2>4, <3>1, GoesTyped
  <2>6. CASE Readable(r.buf, r.pos)
    <3>1. Changes(t, IF e.next = 0 THEN last ELSE next, f) /\ UNCHANGED writable
      BY <1>1, <2>6 DEF ApplyEntry
    <3>2. WellFormed(IF e.next = 0 THEN last ELSE next, f)
      BY <2>2, <2>4
    <3> HIDE DEF f, last, next, e, r
    <3> QED BY <2>2, <3>1, <3>2, ChangesTyped
  <2> QED BY <2>5, <2>6
<1>2. ASSUME SetFinal(t) PROVE TypeOK'
  BY <1>2, GoesTyped DEF SetFinal, WellFormed
<1> QED
  BY <1>1, <1>2

LEMMA GetIsListing ==
    ASSUME NEW t \in Threads, ListNames(t) \/ SkipName(t) \/ TakeValue(t) \/ ListDone(t)
    PROVE  req[t] # Nil /\ req[t].op = "get_ea"
<1>1. TakeValue(t) => Reading(t)
  BY DEF TakeValue
<1>2. SkipName(t) => Reading(t)
  BY DEF SkipName
<1>3. CASE ListNames(t)
  BY <1>3 DEF ListNames
<1>4. CASE ListDone(t)
  BY <1>4 DEF ListDone
<1>5. CASE Reading(t)
  BY <1>5 DEF Reading
<1> QED
  BY <1>1, <1>2, <1>3, <1>4, <1>5

LEMMA GetTyped ==
    ASSUME TypeOK, NEW t \in Threads, req[t] # Nil, req[t].op = "get_ea"
    PROVE  /\ ListNames(t) => TypeOK'
           /\ SkipName(t) => TypeOK'
           /\ TakeValue(t) => TypeOK'
           /\ ListDone(t) => TypeOK'
<1> DEFINE r == req[t]
<1>0. file \in Files /\ r \in GetRequest /\ WellFormed(r, file)
  BY Kinds, TypeByRequest
<1>g. ASSUME NEW rr \in GetRequest, rr.i \in 1 .. (Len(rr.names) + 1), rr.pc = "list" => rr.i = 1,
             rr.buf.len <= rr.size
      PROVE  WellFormed(rr, file)
  BY <1>0, <1>g, AbsentAssumption DEF WellFormed, Requests
<1>f. /\ r.size \in Nat /\ r.i \in Nat /\ r.names \in Seq(EaNames) /\ r.missed \in SUBSET EaNames
      /\ r.buf \in [len: Nat, entries: SUBSET Entry] /\ r.buf.len <= r.size
  <2>1. r.size \in Sizes /\ r.i \in Nat /\ r.names \in Seq(EaNames) /\ r.missed \in SUBSET EaNames
        /\ r.buf \in [len: Nat, entries: SUBSET Entry]
    <3> HIDE DEF r
    <3> QED BY <1>0 DEF GetRequest
  <2>2. r.size \in Nat
    <3> HIDE DEF r
    <3> QED BY <2>1, Lengths
  <2> QED BY <1>0, <2>1, <2>2 DEF WellFormed
<1>1. ASSUME ListNames(t) PROVE TypeOK'
  <2>1. CASE Goes(t, [r EXCEPT !.pc = "done"])
    <3>1. WellFormed([r EXCEPT !.pc = "done"], file)
      BY <1>0, <1>g DEF WellFormed, GetRequest
    <3> QED BY <1>1, <2>1, <3>1, GoesTyped DEF ListNames
  <2>2. ASSUME NEW s \in SetToSeqs(Present(file.ea)), Goes(t, [r EXCEPT !.names = s, !.pc = "value"])
        PROVE  TypeOK'
    <3>1. Present(file.ea) \in SUBSET EaNames
      BY DEF Present
    <3>2. Cardinality(Present(file.ea)) \in Nat
      BY <3>1, Lengths, FS_Subset, FS_CardinalityType
    <3>3. s \in [1 .. Cardinality(Present(file.ea)) -> EaNames]
      BY <3>1 DEF SetToSeqs
    <3>4. s \in Seq(EaNames) /\ Len(s) \in Nat
      BY <3>2, <3>3
    <3>5. r.i = 1
      BY <1>0, <1>1 DEF WellFormed, ListNames
    <3> DEFINE rr == [r EXCEPT !.names = s, !.pc = "value"]
    <3>6. rr \in GetRequest /\ rr.names = s /\ rr.i = 1 /\ rr.pc = "value"
          /\ rr.buf = r.buf /\ rr.size = r.size
      BY <1>0, <3>4, <3>5 DEF GetRequest
    <3>7. WellFormed(rr, file)
      <4> HIDE DEF rr
      <4> QED BY <1>0, <1>g, <3>4, <3>6 DEF WellFormed
    <3> QED BY <1>1, <2>2, <3>7, GoesTyped DEF ListNames
  <2> QED BY <1>1, <2>1, <2>2 DEF ListNames
<1>2. ASSUME Reading(t)
      PROVE  /\ r.i \in Nat /\ r.i + 1 \in 1 .. (Len(r.names) + 1)
             /\ NextName(t) \in EaNames /\ r.pc = "value"
  <2>1. r.names \in Seq(EaNames) /\ r.i \in 1 .. Len(r.names)
    BY <1>0, <1>2, <1>f DEF WellFormed, Reading
  <2> QED BY <1>2, <2>1 DEF NextName, Reading
<1>3. ASSUME SkipName(t) PROVE TypeOK'
  <2> DEFINE rr == [r EXCEPT !.i = @ + 1, !.missed = @ \cup {NextName(t)}]
  <2>1. rr = [r EXCEPT !.i = r.i + 1, !.missed = r.missed \cup {NextName(t)}, !.buf = r.buf]
    <3> HIDE DEF r
    <3> QED BY <1>0 DEF GetRequest
  <2>2. rr \in GetRequest /\ rr.i = r.i + 1 /\ rr.names = r.names /\ rr.pc = "value"
        /\ rr.buf = r.buf /\ rr.size = r.size
    <3> HIDE DEF r, rr
    <3>1. r.i + 1 \in Nat /\ r.missed \cup {NextName(t)} \in SUBSET EaNames /\ r.pc = "value"
      BY <1>2, <1>3, <1>f DEF SkipName
    <3>2. /\ rr \in GetRequest /\ rr.i = r.i + 1 /\ rr.buf = r.buf
          /\ rr.names = r.names /\ rr.pc = r.pc /\ rr.size = r.size
      BY <1>0, <1>f, <2>1, <3>1 DEF GetRequest
    <3> QED BY <3>1, <3>2
  <2>3. WellFormed(rr, file)
    <3> HIDE DEF rr
    <3> QED BY <1>2, <1>3, <1>f, <1>g, <2>2 DEF SkipName
  <2> QED BY <1>3, <2>3, GoesTyped DEF SkipName
<1>4. ASSUME TakeValue(t) PROVE TypeOK'
  <2> DEFINE n == NextName(t)
             v == file.ea[n]
             raw == RawLen(n, v)
             last == r.i = Len(r.names)
             padded == Padded(raw, last)
             e == [at |-> r.buf.len, next |-> Link(padded, raw, last), name |-> n, vlen |-> v]
             rr == [r EXCEPT !.i = @ + 1,
                             !.buf = [len |-> @.len + padded, entries |-> @.entries \cup {e}]]
  <2>1. n \in EaNames /\ v \in ValueLens
    BY <1>0, <1>2, <1>4 DEF TakeValue, Files
  <2>2. raw \in Nat
    <3> HIDE DEF n, v
    <3>1. NameLen[n] \in Nat /\ v \in Nat
      BY <2>1, Lengths
    <3> QED BY <3>1 DEF RawLen, HeaderLen
  <2>3. padded \in Nat
    <3> HIDE DEF raw, last
    <3>1. ((raw + 3) \div 4) * 4 \in Nat
      BY <2>2
    <3> QED BY <2>2, <3>1 DEF Padded
  <2>4. Link(padded, raw, last) \in Nat
    BY <2>3 DEF Link
  <2>5. r.buf.len \in Nat /\ r.buf.entries \in SUBSET Entry
    BY <1>f
  <2>6. e \in Entry
    <3> HIDE DEF v, n, padded, raw, last
    <3> QED BY <2>1, <2>4, <2>5 DEF Entry
  <2>7. CASE Overflows(r.buf.len, padded, r.size)
    <3>1. Goes(t, Nil) /\ UNCHANGED <<writable, file>>
      BY <1>4, <2>7 DEF TakeValue
    <3> QED BY <3>1, GoesTyped DEF WellFormed
  <2>8. CASE ~Overflows(r.buf.len, padded, r.size)
    <3>1. Goes(t, rr) /\ UNCHANGED <<writable, file>>
      BY <1>4, <2>8 DEF TakeValue
    <3>2. [len |-> r.buf.len + padded, entries |-> r.buf.entries \cup {e}]
            \in [len: Nat, entries: SUBSET Entry]
      <4> HIDE DEF e, padded
      <4> QED BY <2>3, <2>5, <2>6
    <3>3. rr \in GetRequest /\ rr.i = r.i + 1 /\ rr.names = r.names /\ rr.pc = "value"
          /\ rr.size = r.size /\ rr.buf.len = r.buf.len + padded
      <4> DEFINE buf == [len |-> r.buf.len + padded, entries |-> r.buf.entries \cup {e}]
      <4>1. rr = [r EXCEPT !.i = r.i + 1, !.missed = r.missed, !.buf = buf]
        <5> HIDE DEF e, padded, r
        <5> QED BY <1>0 DEF GetRequest
      <4>2. buf.len = r.buf.len + padded
        OBVIOUS
      <4>3. r.i + 1 \in Nat /\ r.pc = "value"
        BY <1>2, <1>4, <1>f DEF TakeValue
      <4> HIDE DEF buf, rr, r
      <4>4. buf \in [len: Nat, entries: SUBSET Entry]
        BY <3>2 DEF buf
      <4>5. /\ rr \in GetRequest /\ rr.i = r.i + 1 /\ rr.buf = buf
            /\ rr.names = r.names /\ rr.pc = r.pc /\ rr.size = r.size
        BY <1>0, <1>f, <4>1, <4>3, <4>4 DEF GetRequest
      <4> QED BY <4>2, <4>3, <4>5
    <3>4. r.buf.len + padded <= r.size
      <4> HIDE DEF padded
      <4> QED BY <1>f, <2>3, <2>5, <2>8 DEF Overflows
    <3>5. WellFormed(rr, file)
      <4> HIDE DEF rr, padded
      <4> QED BY <1>2, <1>4, <1>g, <3>3, <3>4 DEF TakeValue
    <3> HIDE DEF rr
    <3> QED BY <3>1, <3>5, GoesTyped
  <2> QED BY <2>7, <2>8
<1>5. ASSUME ListDone(t) PROVE TypeOK'
  <2>1. WellFormed([r EXCEPT !.pc = "done"], file)
    BY <1>0, <1>g DEF WellFormed, GetRequest
  <2> QED BY <1>5, <2>1, GoesTyped DEF ListDone
<1> QED
  BY <1>1, <1>3, <1>4, <1>5

LEMMA BeginsTyped ==
    ASSUME TypeOK, NEW t \in Threads
    PROVE  /\ \A a \in {"unchanged", "readonly", "normal"}, time \in Times \cup {Nil} :
                BeginBasic(t, a, time) => TypeOK'
           /\ \A b \in Buffers : BeginSet(t, b) => TypeOK'
           /\ \A b \in Buffers, ro \in BOOLEAN, time \in Times :
                BeginCreate(t, b, ro, time) => TypeOK'
           /\ \A n \in Sizes : BeginGet(t, n) => TypeOK'
<1>1. ASSUME NEW a \in {"unchanged", "readonly", "normal"}, NEW time \in Times \cup {Nil},
             BeginBasic(t, a, time)
      PROVE  TypeOK'
  <2> DEFINE r == [op |-> "basic", pc |-> "utimens", attrs |-> a, time |-> time,
                   seen |-> {}, was |-> file]
  <2>1. file \in Files /\ file' = file /\ writable' = writable /\ Begin(t, r)
    BY <1>1 DEF TypeOK, BeginBasic
  <2>2. WellFormed(r, file')
    BY <2>1, AbsentAssumption DEF WellFormed, Requests, BasicRequest
  <2> QED BY <2>1, <2>2, BeginTyped
<1>2. ASSUME NEW b \in Buffers, BeginSet(t, b) PROVE TypeOK'
  <2> DEFINE r == [op |-> "set_ea", pc |-> "entry", buf |-> b, pos |-> 0, was |-> file]
  <2>1. file \in Files /\ file' = file /\ writable' = writable /\ Begin(t, r)
    BY <1>2 DEF TypeOK, BeginSet
  <2>2. WellFormed(r, file')
    BY <2>1, AbsentAssumption DEF WellFormed, Requests, SetRequest
  <2> QED BY <2>1, <2>2, BeginTyped
<1>3. ASSUME NEW b \in Buffers, NEW ro \in BOOLEAN, NEW time \in Times, BeginCreate(t, b, ro, time)
      PROVE  TypeOK'
  <2> DEFINE f == [writers |-> NewMode(ro), time |-> time, ea |-> [n \in EaNames |-> Absent]]
             r == [op |-> "create", pc |-> "entry", buf |-> b, pos |-> 0, was |-> f]
  <2>1. f \in Files
    BY OwnerAssumption DEF Files, NewMode
  <2>2. file = Absent /\ file' = f /\ writable' = writable /\ Begin(t, r)
    BY <1>3 DEF BeginCreate
  <2>3. WellFormed(r, f)
    <3> HIDE DEF f
    <3> QED BY <2>1, AbsentAssumption DEF WellFormed, Requests, SetRequest
  <2> HIDE DEF f, r
  <2> QED BY <2>1, <2>2, <2>3, BeginTyped
<1>4. ASSUME NEW n \in Sizes, BeginGet(t, n) PROVE TypeOK'
  <2> DEFINE r == [op |-> "get_ea", pc |-> "list", size |-> n, names |-> <<>>, i |-> 1,
                   buf |-> [len |-> 0, entries |-> {}], missed |-> {}, was |-> file]
  <2>1. file \in Files /\ file' = file /\ writable' = writable /\ Begin(t, r)
    BY <1>4 DEF TypeOK, BeginGet
  <2>2. r \in GetRequest
    BY <2>1 DEF GetRequest
  <2>3. WellFormed(r, file')
    BY <2>1, <2>2, Lengths, AbsentAssumption DEF WellFormed, Requests
  <2> QED BY <2>1, <2>3, BeginTyped
<1> QED
  BY <1>1, <1>2, <1>3, <1>4

LEMMA TypingInit == Init => TypeOK
BY DEF Init, TypeOK

LEMMA TypingStep ==
    ASSUME TypeOK, [Next]_vars
    PROVE  TypeOK'
<1>1. ASSUME NEW t \in Threads, Fail(t) \/ Reply(t) PROVE TypeOK'
  BY <1>1, GoesTyped DEF Fail, Reply, WellFormed
<1>2. CASE UNCHANGED vars
  BY <1>2 DEF vars, TypeOK
<1>3. ASSUME NEW t \in Threads, ListNames(t) \/ SkipName(t) \/ TakeValue(t) \/ ListDone(t)
      PROVE  TypeOK'
  BY <1>3, GetIsListing, GetTyped
<1> QED
  BY <1>1, <1>2, <1>3, BeginsTyped, BasicTyped, SetTyped DEF Next

\* The file's attributes and every request stay well formed: an EA list that is
\* being built never outgrows the caller's buffer (get_extended_attributes).
THEOREM Typing == Spec => []TypeOK
BY TypingInit, TypingStep, PTL DEF Spec

-----------------------------------------------------------------------------
(* set_basic_info.                                                         *)

\* A chmod that is still to come was decided for a change of the READONLY bit;
\* the file may have changed since, but if it is to become writable no one but
\* another such chmod can have made it so.
ModeOK(r, f) ==
    r # Nil /\ r.op = "basic" =>
        /\ r.pc \in {"stat", "chmod"} => r.attrs # "unchanged"
        /\ r.pc = "chmod" => NeedsChmod(r, r.seen)
        /\ r.pc = "chmod" /\ r.attrs = "normal" => f.writers \in {{}, WriteBits}

\* What a request that nobody disturbed has done so far.
Timed(r) == IF r.time = Nil THEN r.was ELSE [r.was EXCEPT !.time = r.time]
Both(r) == [Timed(r) EXCEPT !.writers = Toggled(@, r.attrs)]

StageOK(r, f) ==
    r # Nil /\ r.op = "basic" /\ r.was # Nil =>
        /\ r.pc = "utimens" => f = r.was
        /\ r.pc \in {"stat", "chmod"} => f = Timed(r)
        /\ r.pc = "chmod" => r.seen = f.writers
        /\ r.pc \in {"final", "done"} => f = Both(r)
        /\ r.pc = "done" => r.seen = f.writers

IInv == TypeOK /\ \A t \in Threads : ModeOK(req[t], file) /\ StageOK(req[t], file)

\* A step of thread t that leaves the file alone.
LEMMA GoesInv ==
    ASSUME IInv, TypeOK', NEW t \in Threads, NEW r, Goes(t, r), file' = file,
           ModeOK(r, file), StageOK(r, file)
    PROVE  IInv'
<1>1. req' = [u \in Threads |-> IF u = t THEN r ELSE req[u]]
  BY TypeByRequest DEF Goes, IInv
<1>2. \A u \in Threads : ModeOK(req'[u], file') /\ StageOK(req'[u], file')
  BY <1>1 DEF IInv
<1> QED
  BY <1>2 DEF IInv

\* A step of thread t that changes the file disturbs the others; what they rely
\* on is that write permissions are kept, or all gone, or all there.
LEMMA ChangesInv ==
    ASSUME IInv, TypeOK', NEW t \in Threads, NEW r, NEW f \in Files, Changes(t, r, f),
           file \in Files, f.writers \in {file.writers, {}, WriteBits},
           ModeOK(r, f), StageOK(r, f)
    PROVE  IInv'
<1>1. file' = f
  BY DEF Changes
<1>2. req' = [u \in Threads |-> IF u = t THEN r
                                ELSE IF req[u] = Nil \/ f = file THEN req[u]
                                ELSE [req[u] EXCEPT !.was = Nil]]
  BY DEF Changes
<1>3. ASSUME NEW u \in Threads PROVE ModeOK(req'[u], file') /\ StageOK(req'[u], file')
  <2>1. CASE u = t
    BY <1>1, <1>2, <2>1
  <2>2. CASE u # t /\ f = file
    BY <1>1, <1>2, <2>2 DEF IInv
  <2>3. CASE u # t /\ req[u] = Nil
    BY <1>2, <2>3 DEF ModeOK, StageOK
  <2>4. CASE u # t /\ f # file /\ req[u] # Nil
    <3> DEFINE d == [req[u] EXCEPT !.was = Nil]
    <3>1. req'[u] = d /\ req[u] \in Requests
      BY <1>2, <2>4, Kinds DEF IInv
    <3>2. d.op = req[u].op /\ d.pc = req[u].pc /\ d.was = Nil
      BY <3>1, Disturb
    <3>3. req[u].op = "basic" => req[u] \in BasicRequest
      BY <2>4, Kinds DEF IInv
    <3>4. req[u].op = "basic" => d.seen = req[u].seen /\ d.attrs = req[u].attrs
      BY <3>1, <3>3, Disturb
    <3>5. ModeOK(req[u], file)
      BY DEF IInv
    <3>6. ModeOK(d, f)
      <4> HIDE DEF d
      <4> QED BY <2>4, <3>2, <3>4, <3>5 DEF ModeOK, NeedsChmod
    <3>7. StageOK(d, f)
      <4> HIDE DEF d
      <4> QED BY <3>2 DEF StageOK
    <3> QED BY <1>1, <3>1, <3>6, <3>7
  <2> QED BY <2>1, <2>2, <2>3, <2>4
<1> QED
  BY <1>3 DEF IInv

LEMMA SameFile ==
    ASSUME NEW f \in Files
    PROVE  [f EXCEPT !.writers = f.writers] = f
BY DEF Files

\* The stages of a request do not depend on its own progress.
LEMMA SameStage ==
    ASSUME NEW r, NEW rr, rr.time = r.time, rr.was = r.was, rr.attrs = r.attrs
    PROVE  Timed(rr) = Timed(r) /\ Both(rr) = Both(r)
BY DEF Timed, Both

LEMMA TimedBoth ==
    ASSUME NEW r \in BasicRequest, r.was # Nil
    PROVE  /\ Timed(r) \in Files /\ Timed(r).writers = r.was.writers
           /\ Both(r).writers = Toggled(Timed(r).writers, r.attrs)
           /\ Both(r) \in Files
           /\ Toggled(Timed(r).writers, r.attrs) = Timed(r).writers => Both(r) = Timed(r)
<1>1. r.was \in Files /\ r.time \in Times \cup {Nil}
  BY DEF BasicRequest
<1>2. Timed(r) \in Files /\ Timed(r).writers = r.was.writers
  BY <1>1 DEF Timed, Files
<1>3. Toggled(Timed(r).writers, r.attrs) \in SUBSET WriteBits
  BY <1>2 DEF Toggled, Files
<1>4. Both(r) \in Files /\ Both(r).writers = Toggled(Timed(r).writers, r.attrs)
  BY <1>2, <1>3 DEF Both, Files
<1>5. Toggled(Timed(r).writers, r.attrs) = Timed(r).writers => Both(r) = Timed(r)
  BY <1>2, SameFile DEF Both
<1> QED
  BY <1>2, <1>4, <1>5

LEMMA UtimensInv ==
    ASSUME IInv, NEW t \in Threads, Utimens(t)
    PROVE  IInv'
<1> DEFINE r == req[t]
           pc == IF r.attrs = "unchanged" THEN "final" ELSE "stat"
           rr == [r EXCEPT !.pc = pc]
<1>1. TypeOK /\ TypeOK' /\ r # Nil /\ r.pc = "utimens"
  BY BasicTyped DEF IInv, Utimens
<1>2. file \in Files /\ r \in BasicRequest
  <2>1. file \in Files /\ r \in Requests
    BY <1>1, Kinds
  <2> QED BY <1>1, <2>1 DEF Requests, BasicRequest, SetRequest, GetRequest
<1>3. rr.op = "basic" /\ rr.pc = pc /\ rr.attrs = r.attrs /\ rr.time = r.time /\ rr.was = r.was
  BY <1>2 DEF BasicRequest
<1>4. Timed(rr) = Timed(r) /\ Both(rr) = Both(r)
  <2> HIDE DEF rr, r
  <2> QED BY <1>3, SameStage
<1>5. r.op = "basic" /\ r.was # Nil => file = r.was
  BY <1>1 DEF IInv, StageOK
<1>6. r.op = "basic" /\ (r.was # Nil /\ r.attrs = "unchanged" => Both(r) = Timed(r))
  <2>1. r.op = "basic"
    BY <1>2 DEF BasicRequest
  <2>2. ASSUME r.was # Nil, r.attrs = "unchanged" PROVE Both(r) = Timed(r)
    <3>1. Toggled(Timed(r).writers, r.attrs) = Timed(r).writers
      BY <2>2 DEF Toggled
    <3> QED BY <1>2, <2>2, <3>1, TimedBoth
  <2> QED BY <2>1, <2>2
<1>7. \A f : (r.was # Nil => f = Timed(r)) => ModeOK(rr, f) /\ StageOK(rr, f)
  <2> HIDE DEF rr
  <2> QED BY <1>3, <1>4, <1>6 DEF ModeOK, StageOK
<1>8. CASE r.time = Nil
  <2>1. Goes(t, rr) /\ file' = file
    BY <1>8 DEF Utimens
  <2>2. r.was # Nil => file = Timed(r)
    BY <1>5, <1>6, <1>8 DEF Timed
  <2> QED BY <1>1, <1>7, <2>1, <2>2, GoesInv
<1>9. CASE r.time # Nil
  <2> DEFINE f == [file EXCEPT !.time = r.time]
  <2>1. Changes(t, rr, f)
    BY <1>9 DEF Utimens
  <2>2. f \in Files /\ f.writers = file.writers
    BY <1>2, <1>9 DEF Files, BasicRequest
  <2>3. r.was # Nil => f = Timed(r)
    BY <1>5, <1>6, <1>9 DEF Timed
  <2>4. ModeOK(rr, f) /\ StageOK(rr, f)
    BY <1>7, <2>3
  <2> HIDE DEF f, rr
  <2> QED BY <1>1, <1>2, <2>1, <2>2, <2>4, ChangesInv
<1> QED
  BY <1>8, <1>9

LEMMA BasicStatInv ==
    ASSUME IInv, NEW t \in Threads, BasicStat(t)
    PROVE  IInv'
<1> DEFINE r == req[t]
           w == file.writers
           pc == IF NeedsChmod(r, w) THEN "chmod" ELSE "final"
           rr == [r EXCEPT !.pc = pc, !.seen = w]
<1>1. TypeOK /\ TypeOK' /\ r # Nil /\ r.op = "basic" /\ r.pc = "stat"
  BY BasicTyped DEF IInv, BasicStat
<1>2. file \in Files /\ r \in BasicRequest
  BY <1>1, Kinds
<1>3. Goes(t, rr) /\ file' = file
  <2>1. rr = [r EXCEPT !.seen = w, !.pc = pc]
    BY <1>2 DEF BasicRequest
  <2> QED BY <2>1 DEF BasicStat
<1>4. /\ rr.op = "basic" /\ rr.pc = pc /\ rr.seen = w /\ rr.attrs = r.attrs /\ rr.was = r.was
      /\ Timed(rr) = Timed(r) /\ Both(rr) = Both(r)
  <2>1. /\ rr.op = "basic" /\ rr.pc = pc /\ rr.seen = w /\ rr.attrs = r.attrs /\ rr.was = r.was
        /\ rr.time = r.time
    <3> HIDE DEF pc, w
    <3> QED BY <1>2 DEF BasicRequest
  <2> HIDE DEF rr, r
  <2> QED BY <2>1, SameStage
<1>5. r.attrs # "unchanged" /\ (r.was # Nil => file = Timed(r))
  BY <1>1 DEF IInv, ModeOK, StageOK
<1>6. r.attrs \in {"readonly", "normal"}
  BY <1>2, <1>5 DEF BasicRequest
<1>7. ModeOK(rr, file)
  <2> HIDE DEF rr
  <2> QED BY <1>4, <1>5, <1>6 DEF ModeOK, NeedsChmod, IsReadOnly
<1>8. ASSUME r.was # Nil, ~NeedsChmod(r, w) PROVE Both(r) = Timed(r)
  <2>1. Toggled(Timed(r).writers, r.attrs) = Timed(r).writers
    BY <1>5, <1>6, <1>8 DEF Toggled, NeedsChmod, IsReadOnly
  <2> QED BY <1>2, <1>8, <2>1, TimedBoth
<1>9. StageOK(rr, file)
  <2> HIDE DEF rr
  <2> QED BY <1>4, <1>5, <1>8 DEF StageOK
<1> QED
  BY <1>1, <1>3, <1>7, <1>9, GoesInv

\* The write permissions a chmod sets, and what they were if it makes the file
\* writable.
LEMMA ChmodWrites ==
    ASSUME IInv, NEW t \in Threads, Chmod(t)
    PROVE  LET r == req[t]
           IN  /\ r.attrs \in {"readonly", "normal"}
               /\ r.attrs = "readonly" => NewWriters(r) = {}
               /\ r.attrs = "normal" => NewWriters(r) = WriteBits /\ r.seen = {}
                                         /\ file.writers \in {{}, WriteBits}
<1> DEFINE r == req[t]
<1>1. TypeOK /\ r # Nil /\ r.op = "basic" /\ r.pc = "chmod"
  BY DEF IInv, Chmod
<1>2. r \in BasicRequest
  BY <1>1, Kinds
<1>3. r.attrs \in {"readonly", "normal"} /\ r.seen \in SUBSET WriteBits
      /\ NeedsChmod(r, r.seen) /\ (r.attrs = "normal" => file.writers \in {{}, WriteBits})
  BY <1>1, <1>2 DEF IInv, ModeOK, BasicRequest
<1>4. r.attrs = "normal" => r.seen = {}
  BY <1>3 DEF NeedsChmod, IsReadOnly
<1>5. r.attrs = "readonly" => NewWriters(r) = {}
  BY <1>3 DEF NewWriters
<1>6. r.attrs = "normal" => NewWriters(r) = WriteBits
  BY <1>3, <1>4 DEF NewWriters
<1> QED
  BY <1>3, <1>4, <1>5, <1>6

LEMMA ChmodInv ==
    ASSUME IInv, NEW t \in Threads, Chmod(t)
    PROVE  IInv'
<1> DEFINE r == req[t]
           rr == [r EXCEPT !.pc = "final"]
           f == [file EXCEPT !.writers = NewWriters(r)]
<1>1. TypeOK /\ TypeOK' /\ r # Nil /\ r.op = "basic" /\ r.pc = "chmod"
  BY BasicTyped DEF IInv, Chmod
<1>2. file \in Files /\ r \in BasicRequest
  BY <1>1, Kinds
<1>3. Changes(t, rr, f)
  BY DEF Chmod
<1>4. NewWriters(r) \in {{}, WriteBits}
  BY ChmodWrites
<1>5. f \in Files /\ f.writers = NewWriters(r)
  BY <1>2, <1>4 DEF Files
<1>6. rr.op = "basic" /\ rr.pc = "final" /\ rr.was = r.was /\ rr.attrs = r.attrs
      /\ rr.time = r.time
  BY <1>2 DEF BasicRequest
<1>7. Both(rr) = Both(r)
  <2> HIDE DEF rr, r
  <2> QED BY <1>6, SameStage
<1>8. ASSUME r.was # Nil PROVE f = Both(r)
  <2>1. file = Timed(r) /\ r.seen = file.writers
    BY <1>1, <1>8 DEF IInv, StageOK
  <2>2. NewWriters(r) = Toggled(file.writers, r.attrs)
    BY <2>1, ChmodWrites DEF Toggled, IsReadOnly
  <2> QED BY <2>1, <2>2 DEF Both
<1>9. ModeOK(rr, f) /\ StageOK(rr, f)
  <2> HIDE DEF rr, f
  <2> QED BY <1>6, <1>7, <1>8 DEF ModeOK, StageOK
<1> HIDE DEF rr, f
<1> QED
  BY <1>1, <1>2, <1>3, <1>4, <1>5, <1>9, ChangesInv

LEMMA BasicFinalInv ==
    ASSUME IInv, NEW t \in Threads, BasicFinal(t)
    PROVE  IInv'
<1> DEFINE r == req[t]
           rr == [r EXCEPT !.pc = "done", !.seen = file.writers]
<1>1. TypeOK /\ TypeOK' /\ r # Nil /\ r.op = "basic" /\ r.pc = "final"
  BY BasicTyped DEF IInv, BasicFinal
<1>2. r \in BasicRequest /\ (r.was # Nil => file = Both(r))
  BY <1>1, Kinds DEF IInv, StageOK
<1>3. /\ rr.op = "basic" /\ rr.pc = "done" /\ rr.seen = file.writers /\ rr.was = r.was
      /\ Both(rr) = Both(r)
  <2>1. /\ rr.op = "basic" /\ rr.pc = "done" /\ rr.seen = file.writers /\ rr.was = r.was
        /\ rr.attrs = r.attrs /\ rr.time = r.time
    BY <1>2 DEF BasicRequest
  <2> HIDE DEF rr, r
  <2> QED BY <2>1, SameStage
<1>4. ModeOK(rr, file) /\ StageOK(rr, file)
  <2> HIDE DEF rr
  <2> QED BY <1>2, <1>3 DEF ModeOK, StageOK
<1>5. Goes(t, rr) /\ file' = file
  BY DEF BasicFinal
<1> QED
  BY <1>1, <1>4, <1>5, GoesInv

\* A request that is not a set_basic_info is in none of its stages.
LEMMA OtherStage ==
    ASSUME NEW r, NEW f, r = Nil \/ r.op # "basic"
    PROVE  ModeOK(r, f) /\ StageOK(r, f)
BY DEF ModeOK, StageOK

LEMMA BeginsInv ==
    ASSUME IInv, NEW t \in Threads
    PROVE  /\ \A a \in {"unchanged", "readonly", "normal"}, time \in Times \cup {Nil} :
                BeginBasic(t, a, time) => IInv'
           /\ \A b \in Buffers : BeginSet(t, b) => IInv'
           /\ \A b \in Buffers, ro \in BOOLEAN, time \in Times :
                BeginCreate(t, b, ro, time) => IInv'
           /\ \A n \in Sizes : BeginGet(t, n) => IInv'
<1>0. TypeOK
  BY DEF IInv
<1>1. ASSUME NEW a \in {"unchanged", "readonly", "normal"}, NEW time \in Times \cup {Nil},
             BeginBasic(t, a, time)
      PROVE  IInv'
  <2> DEFINE r == [op |-> "basic", pc |-> "utimens", attrs |-> a, time |-> time,
                   seen |-> {}, was |-> file]
  <2>1. Goes(t, r) /\ file' = file
    BY <1>1 DEF BeginBasic, Begin, Goes
  <2>2. ModeOK(r, file) /\ StageOK(r, file)
    BY DEF ModeOK, StageOK
  <2>3. TypeOK'
    BY <1>0, <1>1, BeginsTyped
  <2> QED BY <2>1, <2>2, <2>3, GoesInv
<1>2. ASSUME NEW b \in Buffers, BeginSet(t, b) PROVE IInv'
  <2> DEFINE r == [op |-> "set_ea", pc |-> "entry", buf |-> b, pos |-> 0, was |-> file]
  <2>1. Goes(t, r) /\ file' = file
    BY <1>2 DEF BeginSet, Begin, Goes
  <2>2. TypeOK'
    BY <1>0, <1>2, BeginsTyped
  <2> QED BY <2>1, <2>2, OtherStage, GoesInv
<1>3. ASSUME NEW b \in Buffers, NEW ro \in BOOLEAN, NEW time \in Times, BeginCreate(t, b, ro, time)
      PROVE  IInv'
  <2>1. TypeOK'
    BY <1>0, <1>3, BeginsTyped
  <2>2. \A u \in Threads : req[u] = Nil
    BY <1>0, <1>3 DEF TypeOK, BeginCreate
  <2>3. PICK r : r.op = "create" /\ req' = [req EXCEPT ![t] = r]
    BY <1>3 DEF BeginCreate, Begin
  <2>4. \A u \in Threads : req'[u] = Nil \/ req'[u].op # "basic"
    BY <1>0, <2>2, <2>3 DEF TypeOK
  <2> QED BY <2>1, <2>4, OtherStage DEF IInv
<1>4. ASSUME NEW n \in Sizes, BeginGet(t, n) PROVE IInv'
  <2> DEFINE r == [op |-> "get_ea", pc |-> "list", size |-> n, names |-> <<>>, i |-> 1,
                   buf |-> [len |-> 0, entries |-> {}], missed |-> {}, was |-> file]
  <2>1. Goes(t, r) /\ file' = file
    BY <1>4 DEF BeginGet, Begin, Goes
  <2>2. TypeOK'
    BY <1>0, <1>4, BeginsTyped
  <2> QED BY <2>1, <2>2, OtherStage, GoesInv
<1> QED
  BY <1>1, <1>2, <1>3, <1>4

\* Applying an entry changes attributes, never who may write.
LEMMA ApplyEntryInv ==
    ASSUME IInv, NEW t \in Threads, ApplyEntry(t)
    PROVE  IInv' /\ file \in Files /\ file'.writers = file.writers
<1> DEFINE r == req[t]
           e == EntryAt(r.buf, r.pos)
           last == [r EXCEPT !.pc = "final"]
           next == [r EXCEPT !.pos = @ + e.next]
           f == [file EXCEPT !.ea = Applied(@, e)]
<1>1. TypeOK /\ TypeOK'
  BY SetTyped DEF IInv
<1>2. r # Nil /\ file \in Files /\ r \in SetRequest
  BY <1>1, Kinds DEF ApplyEntry
<1>3. f \in Files /\ f.writers = file.writers
  <2>1. f \in Files
    BY <1>2, EntryApplies DEF SetRequest
  <2>2. f.writers = file.writers
    <3> HIDE DEF e
    <3> QED BY <1>2 DEF Files
  <2> QED BY <2>1, <2>2
<1>4. last.op # "basic" /\ next.op # "basic"
  <2> HIDE DEF e
  <2> QED BY <1>2 DEF SetRequest
<1>5. CASE Goes(t, last) /\ UNCHANGED file
  BY <1>1, <1>2, <1>4, <1>5, OtherStage, GoesInv
<1>6. CASE Changes(t, IF e.next = 0 THEN last ELSE next, f)
  <2> DEFINE rr == IF e.next = 0 THEN last ELSE next
  <2>1. rr.op # "basic" /\ file' = f /\ Changes(t, rr, f)
    BY <1>4, <1>6 DEF Changes
  <2>2. ModeOK(rr, f) /\ StageOK(rr, f)
    BY <2>1, OtherStage
  <2> HIDE DEF rr, f
  <2>3. IInv'
    BY <1>1, <1>2, <1>3, <2>1, <2>2, ChangesInv
  <2> QED BY <1>2, <1>3, <2>1, <2>3
<1> QED
  BY <1>5, <1>6 DEF ApplyEntry

\* A step of a listing changes nothing, and the request stays a listing.
LEMMA ListingGoes ==
    ASSUME TypeOK, NEW t \in Threads
    PROVE  ListNames(t) \/ SkipName(t) \/ TakeValue(t) \/ ListDone(t) =>
              /\ UNCHANGED <<writable, file>>
              /\ \E rr : Goes(t, rr) /\ (rr = Nil \/ rr.op = "get_ea")
<1> DEFINE r == req[t]
<1>0. ASSUME ListNames(t) \/ SkipName(t) \/ TakeValue(t) \/ ListDone(t)
      PROVE  /\ UNCHANGED <<writable, file>>
             /\ \E rr : Goes(t, rr) /\ (rr = Nil \/ rr.op = "get_ea")
  <2>1. r # Nil /\ r.op = "get_ea" /\ r \in GetRequest
    BY <1>0, GetIsListing, Kinds
  <2>2. UNCHANGED <<writable, file>>
    <3>1. ListNames(t) => UNCHANGED <<writable, file>>
      BY DEF ListNames
    <3>2. SkipName(t) => UNCHANGED <<writable, file>>
      BY DEF SkipName
    <3>3. TakeValue(t) => UNCHANGED <<writable, file>>
      BY Zenon DEF TakeValue
    <3>4. ListDone(t) => UNCHANGED <<writable, file>>
      BY DEF ListDone
    <3> QED BY <1>0, <3>1, <3>2, <3>3, <3>4
  <2>3. ASSUME NEW x, NEW i, NEW m, NEW buf
        PROVE  /\ [r EXCEPT !.names = x, !.pc = "value"].op = "get_ea"
               /\ [r EXCEPT !.pc = "done"].op = "get_ea"
               /\ [r EXCEPT !.i = i, !.missed = m].op = "get_ea"
               /\ [r EXCEPT !.i = i, !.buf = buf].op = "get_ea"
    BY <2>1 DEF GetRequest
  <2>4. \E rr : Goes(t, rr) /\ (rr = Nil \/ rr.op = "get_ea")
    <3>1. CASE ListNames(t)
      BY <2>3, <3>1 DEF ListNames
    <3>2. CASE SkipName(t)
      <4> DEFINE rr == [r EXCEPT !.i = @ + 1, !.missed = @ \cup {NextName(t)}]
      <4>1. Goes(t, rr)
        BY <3>2 DEF SkipName
      <4>2. rr.op = "get_ea"
        BY <2>1 DEF GetRequest
      <4> HIDE DEF rr
      <4> QED BY <4>1, <4>2
    <3>3. CASE TakeValue(t)
      <4> DEFINE n == NextName(t)
                 raw == RawLen(n, file.ea[n])
                 end == r.i = Len(r.names)
                 padded == Padded(raw, end)
                 e == [at |-> r.buf.len, next |-> Link(padded, raw, end), name |-> n,
                       vlen |-> file.ea[n]]
                 rr == [r EXCEPT !.i = @ + 1, !.buf = [len |-> @.len + padded,
                                                       entries |-> @.entries \cup {e}]]
      <4>1. Goes(t, Nil) \/ Goes(t, rr)
        BY <3>3 DEF TakeValue
      <4>2. rr.op = "get_ea"
        <5> HIDE DEF padded, e
        <5> QED BY <2>1 DEF GetRequest
      <4> HIDE DEF rr
      <4> QED BY <4>1, <4>2
    <3>4. CASE ListDone(t)
      BY <2>3, <3>4 DEF ListDone
    <3> QED BY <1>0, <3>1, <3>2, <3>3, <3>4
  <2> QED
    BY <2>2, <2>4
<1> QED
  BY <1>0

\* The steps that change neither the file nor a set_basic_info.
LEMMA QuietInv ==
    ASSUME IInv, NEW t \in Threads,
           \/ SetFinal(t) \/ ListNames(t) \/ SkipName(t) \/ TakeValue(t) \/ ListDone(t)
           \/ Fail(t) \/ Reply(t)
    PROVE  IInv' /\ file' = file
<1>1. TypeOK /\ TypeOK'
  BY SetTyped, GetIsListing, GetTyped, TypingStep DEF IInv, Next
<1>2. ASSUME Goes(t, Nil), file' = file PROVE IInv' /\ file' = file
  BY <1>1, <1>2, OtherStage, GoesInv
<1>3. CASE SetFinal(t) \/ Fail(t) \/ Reply(t)
  BY <1>2, <1>3 DEF SetFinal, Fail, Reply
<1>4. CASE ListNames(t) \/ SkipName(t) \/ TakeValue(t) \/ ListDone(t)
  <2>1. req[t] # Nil /\ req[t].op = "get_ea" /\ file' = file
    BY <1>1, <1>4, GetIsListing, ListingGoes
  <2>2. PICK rr : Goes(t, rr) /\ (rr = Nil \/ rr.op = "get_ea")
    BY <1>1, <1>4, ListingGoes
  <2> QED BY <1>1, <2>1, <2>2, OtherStage, GoesInv
<1> QED
  BY <1>3, <1>4

LEMMA InvInit == Init => IInv
BY TypingInit, OtherStage DEF Init, IInv

LEMMA InvStep ==
    ASSUME IInv, [Next]_vars
    PROVE  IInv'
<1>1. CASE UNCHANGED vars
  <2>1. TypeOK'
    BY <1>1, TypingStep DEF IInv
  <2> QED BY <1>1, <2>1 DEF IInv, vars
<1>2. CASE Next
  BY <1>2, BeginsInv, UtimensInv, BasicStatInv, ChmodInv, BasicFinalInv, ApplyEntryInv,
     QuietInv DEF Next
<1> QED
  BY <1>1, <1>2

LEMMA StagesHold == IInv => BasicInfoStages
<1> SUFFICES ASSUME IInv, NEW t \in Threads, Undisturbed(t), req[t].op = "basic"
             PROVE  /\ file \in {req[t].was, Timed(req[t]), Both(req[t])}
                    /\ req[t].pc = "done" =>
                         /\ file = Both(req[t])
                         /\ req[t].attrs # "unchanged" =>
                              IsReadOnly(req[t].seen) = (req[t].attrs = "readonly")
  BY DEF BasicInfoStages, Timed, Both
<1> DEFINE r == req[t]
<1>1. r # Nil /\ r.was # Nil /\ r \in BasicRequest /\ StageOK(r, file)
  BY Kinds DEF IInv, Undisturbed
<1>2. r.pc \in {"utimens", "stat", "chmod", "final", "done"}
      /\ r.attrs \in {"unchanged", "readonly", "normal"}
  BY <1>1 DEF BasicRequest
<1>3. file \in {r.was, Timed(r), Both(r)} /\ (r.pc = "done" => file = Both(r))
  BY <1>1, <1>2 DEF StageOK
<1>4. ASSUME r.pc = "done", r.attrs # "unchanged"
      PROVE  IsReadOnly(r.seen) = (r.attrs = "readonly")
  <2>1. r.seen = Toggled(Timed(r).writers, r.attrs)
    BY <1>1, <1>3, <1>4, TimedBoth DEF StageOK
  <2> QED BY <1>2, <1>4, <2>1, OwnerAssumption DEF Toggled, IsReadOnly
<1> QED
  BY <1>3, <1>4

\* A set_basic_info that no other request disturbs goes through its stages, and
\* one that succeeds has done what was asked (set_basic_info).
THEOREM Stages == Spec => []BasicInfoStages
BY InvInit, InvStep, StagesHold, PTL DEF Spec

\* Who may write a file that is there.
LEMMA TogglesStep ==
    ASSUME IInv, [Next]_vars, file # Absent, file'.writers # file.writers
    PROVE  IsReadOnly(file.writers) # IsReadOnly(file'.writers)
<1>1. file \in Files /\ file' # file
  BY DEF IInv, TypeOK
<1>2. ASSUME NEW t \in Threads, Utimens(t) PROVE file'.writers = file.writers
  BY <1>1, <1>2 DEF Utimens, Changes, Files
<1>3. ASSUME NEW t \in Threads, Chmod(t)
      PROVE  IsReadOnly(file.writers) # IsReadOnly(file'.writers)
  <2>1. file'.writers = NewWriters(req[t])
    BY <1>1, <1>3 DEF Chmod, Changes, Files
  <2> QED BY <1>3, <2>1, ChmodWrites, OwnerAssumption DEF IsReadOnly
<1>4. ASSUME NEW t \in Threads, BasicStat(t) \/ BasicFinal(t) PROVE file' = file
  BY <1>4 DEF BasicStat, BasicFinal
<1>5. ASSUME NEW t \in Threads, NEW a, NEW time, BeginBasic(t, a, time) PROVE file' = file
  BY <1>5 DEF BeginBasic
<1>6. ASSUME NEW t \in Threads, NEW b, BeginSet(t, b) PROVE file' = file
  BY <1>6 DEF BeginSet
<1>7. ASSUME NEW t \in Threads, NEW b, NEW ro, NEW time, BeginCreate(t, b, ro, time)
      PROVE  file = Absent
  BY <1>7 DEF BeginCreate
<1>8. ASSUME NEW t \in Threads, NEW n, BeginGet(t, n) PROVE file' = file
  BY <1>8 DEF BeginGet
<1>9. CASE UNCHANGED vars
  BY <1>1, <1>9 DEF vars
<1> QED
  BY <1>1, <1>2, <1>3, <1>4, <1>5, <1>6, <1>7, <1>8, <1>9, ApplyEntryInv, QuietInv DEF Next

\* Write permissions change only where the READONLY bit does, however the calls
\* of several requests mix (set_basic_info's chmod).
THEOREM Toggles == Spec => OnlyToggledModes
<1>1. IInv /\ [Next]_vars =>
        [file # Absent /\ file'.writers # file.writers =>
            IsReadOnly(file.writers) # IsReadOnly(file'.writers)]_vars
  BY TogglesStep
<1> QED
  BY <1>1, InvInit, InvStep, PTL DEF Spec, OnlyToggledModes

-----------------------------------------------------------------------------
(* A read-only mount.                                                      *)

\* Nothing but listings gets past its first check.
OnlyListings == ~writable => \A t \in Threads : req[t] # Nil => req[t].op = "get_ea"

\* A listing changes nothing and stays one.
LEMMA ListingStep ==
    ASSUME TypeOK, OnlyListings, ~writable, [Next]_vars
    PROVE  /\ writable' = writable /\ file' = file
           /\ \A t \in Threads : req'[t] # Nil => req'[t].op = "get_ea"
<1>1. ASSUME NEW t \in Threads, NEW r, Goes(t, r), UNCHANGED <<writable, file>>,
             r # Nil => r.op = "get_ea"
      PROVE  /\ writable' = writable /\ file' = file
             /\ \A u \in Threads : req'[u] # Nil => req'[u].op = "get_ea"
  BY <1>1 DEF Goes, OnlyListings, TypeOK
<1>2. ASSUME NEW t \in Threads, NEW a, NEW b, NEW time, NEW ro,
             \/ BeginBasic(t, a, time) \/ BeginSet(t, b) \/ BeginCreate(t, b, ro, time)
      PROVE  FALSE
  BY <1>2 DEF BeginBasic, BeginSet, BeginCreate, EnsureWritable
<1>3. ASSUME NEW t \in Threads, NEW n, BeginGet(t, n)
      PROVE  /\ writable' = writable /\ file' = file
             /\ \A u \in Threads : req'[u] # Nil => req'[u].op = "get_ea"
  <2> DEFINE r == [op |-> "get_ea", pc |-> "list", size |-> n, names |-> <<>>, i |-> 1,
                   buf |-> [len |-> 0, entries |-> {}], missed |-> {}, was |-> file]
  <2>1. Goes(t, r) /\ UNCHANGED <<writable, file>>
    BY <1>3 DEF BeginGet, Begin, Goes
  <2>2. r.op = "get_ea"
    OBVIOUS
  <2> HIDE DEF r
  <2> QED
    BY <1>1, <2>1, <2>2
<1>4. ASSUME NEW t \in Threads,
             \/ Utimens(t) \/ BasicStat(t) \/ Chmod(t) \/ BasicFinal(t)
             \/ ApplyEntry(t) \/ SetFinal(t) \/ Fail(t)
      PROVE  FALSE
  <2>1. req[t] # Nil /\ req[t] \in Requests /\ req[t].op = "get_ea"
    BY <1>4 DEF Utimens, BasicStat, Chmod, BasicFinal, ApplyEntry, SetFinal, Fail, OnlyListings,
                TypeOK
  <2>2. req[t].pc \in {"list", "value", "done"}
    BY <2>1, Kinds DEF GetRequest
  <2> QED
    BY <1>4, <2>1, <2>2 DEF Utimens, BasicStat, Chmod, BasicFinal, ApplyEntry, SetFinal, Fail
<1>5. ASSUME NEW t \in Threads,
             ListNames(t) \/ SkipName(t) \/ TakeValue(t) \/ ListDone(t)
      PROVE  /\ writable' = writable /\ file' = file
             /\ \A u \in Threads : req'[u] # Nil => req'[u].op = "get_ea"
  BY <1>1, <1>5, ListingGoes
<1>7. ASSUME NEW t \in Threads, Reply(t)
      PROVE  /\ writable' = writable /\ file' = file
             /\ \A u \in Threads : req'[u] # Nil => req'[u].op = "get_ea"
  BY <1>1, <1>7 DEF Reply
<1>6. CASE UNCHANGED vars
  BY <1>6 DEF vars, OnlyListings
<1> QED
  BY <1>2, <1>3, <1>4, <1>5, <1>6, <1>7 DEF Next

\* No handler changes a file of a read-only mount: no mode, no time, no attribute,
\* whatever requests there are (ensure_writable in create, set_basic_info and
\* set_extended_attributes).
THEOREM ReadOnlyAttributes == Spec => ReadOnlyAttributesUntouched
<1>1. Init => OnlyListings
  BY DEF Init, OnlyListings
<1>2. TypeOK /\ OnlyListings /\ [Next]_vars => OnlyListings'
  <2>1. TypeOK /\ [Next]_vars => writable' = writable
    BY ListingGoes DEF Next, vars, BeginBasic, BeginSet, BeginCreate, BeginGet, Utimens, BasicStat,
                       Chmod, BasicFinal, ApplyEntry, SetFinal, Fail, Reply
  <2> QED
    BY <2>1, ListingStep DEF OnlyListings
<1>3. TypeOK /\ OnlyListings /\ [Next]_vars =>
        [~writable => /\ UNCHANGED file
                      /\ \A t \in Threads : req[t] # Nil => req[t].op = "get_ea"]_vars
  BY ListingStep DEF OnlyListings
<1> QED
  BY <1>1, <1>2, <1>3, Typing, PTL DEF Spec, ReadOnlyAttributesUntouched

-----------------------------------------------------------------------------
(* Extended attributes: what a list sets.                                  *)

\* Offsets come after those they are linked from, and a reader comes to no others.
LEMMA LinksGoOn ==
    ASSUME NEW b, b.entries \subseteq Entry, NEW q \in Nat, NEW p, Leads(b, q, p)
    PROVE  p \in Nat /\ q < p /\ p \in Offsets(b)
<1> DEFINE e == EntryAt(b, q)
<1>1. e.next # 0 /\ p = q + e.next
  BY DEF Leads
<1>2. e \in b.entries /\ e.at = q
  <2>1. CASE \E x \in b.entries : x.at = q
    BY <2>1 DEF EntryAt
  <2>2. CASE ~ \E x \in b.entries : x.at = q
    BY <1>1, <2>2 DEF EntryAt
  <2> QED BY <2>1, <2>2
<1>3. e.next \in Nat
  BY <1>2 DEF Entry
<1> HIDE DEF e
<1> QED
  BY <1>1, <1>2, <1>3 DEF Offsets

LEMMA OffsetsNat ==
    ASSUME NEW b, b.entries \subseteq Entry
    PROVE  Offsets(b) \subseteq Nat
<1>1. \A e \in b.entries : e.at + e.next \in Nat
  BY DEF Entry
<1> QED
  BY <1>1 DEF Offsets

\* Before the first entry nothing is set.
LEMMA MeantNothing ==
    ASSUME NEW ea \in [EaNames -> ValueLens \cup {Absent}], NEW b
    PROVE  Meant(ea, b, {}) = ea
BY DEF Meant

\* One entry more, after the others: its effect on top of theirs.
LEMMA MeantNext ==
    ASSUME NEW ea, NEW b, NEW P \in SUBSET Nat, NEW pos \in Nat, \A p \in P : p < pos
    PROVE  Meant(ea, b, P \cup {pos}) = Applied(Meant(ea, b, P), EntryAt(b, pos))
<1> DEFINE e == EntryAt(b, pos)
           all == P \cup {pos}
           naming(Q, a) == {p \in Q : EntryAt(b, p).name = a}
           value(Q, a) == LET vlen == EntryAt(b, Max(naming(Q, a))).vlen
                          IN  IF naming(Q, a) = {} THEN ea[a]
                              ELSE IF vlen = 0 THEN Absent ELSE vlen
<1>1. \A Q : Meant(ea, b, Q) = [a \in EaNames |-> value(Q, a)]
  BY DEF Meant
<1>2. ASSUME NEW a \in EaNames, a # e.name PROVE value(all, a) = value(P, a)
  <2>1. naming(all, a) = naming(P, a)
    BY <1>2
  <2> QED BY <2>1
<1>3. ASSUME e.name \in EaNames
      PROVE  value(all, e.name) = IF e.vlen = 0 THEN Absent ELSE e.vlen
  <2>1. pos \in naming(all, e.name) /\ \A p \in naming(all, e.name) : p \in Nat /\ p <= pos
    BY DEF naming
  <2>2. Max(naming(all, e.name)) = pos
    <3> HIDE DEF naming
    <3> QED BY <2>1 DEF Max
  <2> QED BY <2>1, <2>2
<1> HIDE DEF value
<1>4. CASE e.name = BadName
  <2>1. Meant(ea, b, all) = Meant(ea, b, P)
    BY <1>1, <1>2, <1>4, NamesAssumption
  <2> QED BY <1>4, <2>1 DEF Applied
<1>5. CASE e.name # BadName
  <2> DEFINE m == Meant(ea, b, P)
             v == IF e.vlen = 0 THEN Absent ELSE e.vlen
  <2>1. Applied(m, e) = [m EXCEPT ![e.name] = v]
    BY <1>5 DEF Applied
  <2>2. m = [a \in EaNames |-> value(P, a)] /\ Meant(ea, b, all) = [a \in EaNames |-> value(all, a)]
    BY <1>1
  <2>3. e.name \in EaNames => value(all, e.name) = v
    BY <1>3
  <2> HIDE DEF m, e, all, v
  <2>4. [m EXCEPT ![e.name] = v] = [a \in EaNames |-> value(all, a)]
    BY <1>2, <2>2, <2>3
  <2> QED BY <2>1, <2>2, <2>4 DEF m, e, all
<1> QED
  BY <1>4, <1>5

\* What has been applied so far: the entries at P, all that are linked before
\* the one at pos.
AppliedUpTo(b, P, pos) ==
    /\ P \in Beginnings(b)
    /\ \A p \in P : p < pos
    /\ pos = 0 \/ \E q \in P : Leads(b, q, pos)
    /\ \A p : (p = 0 \/ \E q \in P : Leads(b, q, p)) => p \in P \cup {pos}

LEMMA AppliedNext ==
    ASSUME NEW b, b.entries \subseteq Entry, NEW P, NEW pos \in Nat,
           AppliedUpTo(b, P, pos), Readable(b, pos)
    PROVE  /\ P \cup {pos} \in Beginnings(b)
           /\ EntryAt(b, pos).next = 0 => IsWhole(b, P \cup {pos})
           /\ EntryAt(b, pos).next # 0 =>
                AppliedUpTo(b, P \cup {pos}, pos + EntryAt(b, pos).next)
<1> DEFINE all == P \cup {pos}
           next == pos + EntryAt(b, pos).next
<1>1. P \in SUBSET Nat /\ P \in SUBSET Offsets(b)
  BY OffsetsNat DEF AppliedUpTo, Beginnings
<1>2. pos \in Offsets(b)
  <2>1. CASE pos = 0
    BY <2>1 DEF Offsets
  <2>2. CASE pos # 0
    BY <1>1, <2>2, LinksGoOn DEF AppliedUpTo
  <2> QED BY <2>1, <2>2
<1>3. all \in Beginnings(b)
  <2>1. \A p \in all : Readable(b, p) /\ (p = 0 \/ \E q \in all : Leads(b, q, p))
    BY DEF AppliedUpTo, Beginnings
  <2> QED BY <1>1, <1>2, <2>1 DEF Beginnings
<1>4. ASSUME EntryAt(b, pos).next = 0 PROVE IsWhole(b, all)
  <2>1. \A p : ~Leads(b, pos, p)
    BY <1>4 DEF Leads
  <2> QED BY <2>1 DEF IsWhole, AppliedUpTo
<1>5. ASSUME EntryAt(b, pos).next # 0 PROVE AppliedUpTo(b, all, next)
  <2>1. \A p : Leads(b, pos, p) <=> p = next
    BY <1>5 DEF Leads
  <2>2. next \in Nat /\ pos < next
    BY <2>1, LinksGoOn
  <2> HIDE DEF next
  <2>3. \A p \in all : p < next
    BY <1>1, <2>2 DEF AppliedUpTo
  <2>4. ASSUME NEW p, p = 0 \/ \E q \in all : Leads(b, q, p) PROVE p \in all \cup {next}
    BY <2>1, <2>4 DEF AppliedUpTo
  <2> QED BY <1>3, <2>1, <2>3, <2>4 DEF AppliedUpTo
<1> QED
  BY <1>3, <1>4, <1>5

\* Where no entry can be taken the list is through.
LEMMA AppliedAll ==
    ASSUME NEW b, NEW P, NEW pos, AppliedUpTo(b, P, pos), ~Readable(b, pos)
    PROVE  P \in Beginnings(b) /\ IsWhole(b, P)
BY DEF AppliedUpTo, IsWhole

\* An undisturbed request has set what some first entries mean, and is at the
\* next one or through.
SetOK(r, f) ==
    r # Nil /\ r.op \in {"create", "set_ea"} /\ r.was # Nil =>
        \E P \in Beginnings(r.buf) :
            /\ f = [r.was EXCEPT !.ea = Meant(@, r.buf, P)]
            /\ r.pc = "entry" => AppliedUpTo(r.buf, P, r.pos)
            /\ r.pc = "final" => IsWhole(r.buf, P)

-----------------------------------------------------------------------------
(* Extended attributes: the list that is built.                            *)

\* A list under construction: entries one after the other, up to its length,
\* each linked from the one before; they name, in order, the attributes before
\* the i-th that were not missed.
Once(names) == \A j, k \in DOMAIN names : j # k => names[j] # names[k]

Linked(b, more) ==
    /\ \A e \in b.entries : e.at + RawLen(e.name, e.vlen) <= b.len
    /\ \A e, f \in b.entries : e.at = f.at => e = f
    /\ \A e \in b.entries : e.next # 0 =>
          e.at + e.next = b.len \/ \E f \in b.entries : f.at = e.at + e.next
    /\ \A e \in b.entries : e.at = 0 \/ \E f \in b.entries : f.next # 0 /\ f.at + f.next = e.at
    /\ \/ b.entries = {} /\ b.len = 0
       \/ /\ \E e \in b.entries : e.at = 0
          /\ more => \E e \in b.entries : e.next # 0 /\ e.at + e.next = b.len

Listed(b, names, i, missed) ==
    /\ {e.name : e \in b.entries} = {names[j] : j \in 1 .. i - 1} \ missed
    /\ missed \subseteq {names[j] : j \in 1 .. i - 1}

Ordered(b, names, i) ==
    \A e, f \in b.entries : e.at < f.at =>
       \E j, k \in 1 .. i - 1 : j < k /\ e.name = names[j] /\ f.name = names[k]

Laid(b, names, i, missed) ==
    /\ Once(names)
    /\ Linked(b, i <= Len(names))
    /\ Listed(b, names, i, missed)
    /\ Ordered(b, names, i)

LEMMA LaidEmpty ==
    ASSUME NEW names \in Seq(EaNames), Once(names),
           NEW b, b.entries = {}, b.len = 0
    PROVE  Laid(b, names, 1, {})
BY DEF Laid, Linked, Listed, Ordered

\* An attribute that cannot be read.
LEMMA LaidSkip ==
    ASSUME NEW names \in Seq(EaNames), NEW i \in 1 .. Len(names), NEW b, NEW missed,
           Laid(b, names, i, missed)
    PROVE  Laid(b, names, i + 1, missed \cup {names[i]})
<1>1. 1 .. (i + 1) - 1 = (1 .. i - 1) \cup {i}
  OBVIOUS
<1>2. {names[j] : j \in 1 .. (i + 1) - 1} = {names[j] : j \in 1 .. i - 1} \cup {names[i]}
  BY <1>1
<1>3. names[i] \notin {names[j] : j \in 1 .. i - 1}
  BY DEF Laid, Once
<1>4. {e.name : e \in b.entries} =
        {names[j] : j \in 1 .. (i + 1) - 1} \ (missed \cup {names[i]})
  BY <1>2, <1>3 DEF Laid, Listed
<1>5. missed \cup {names[i]} \subseteq {names[j] : j \in 1 .. (i + 1) - 1}
  BY <1>2 DEF Laid, Listed
<1>6. Ordered(b, names, i + 1)
  BY <1>1 DEF Laid, Ordered
<1>7. Linked(b, i + 1 <= Len(names))
  <2>1. i + 1 <= Len(names) => i <= Len(names)
    OBVIOUS
  <2> QED BY <2>1 DEF Laid, Linked
<1> QED
  BY <1>4, <1>5, <1>6, <1>7 DEF Laid, Listed

\* The name of an entry that has been built.
LEMMA LaidName ==
    ASSUME NEW names, NEW i, NEW missed, NEW b, Listed(b, names, i, missed), NEW e \in b.entries
    PROVE  \E j \in 1 .. i - 1 : e.name = names[j]
<1>1. e.name \in {f.name : f \in b.entries}
  OBVIOUS
<1> QED
  BY <1>1 DEF Listed

LEMMA RawLenPositive ==
    ASSUME NEW n \in EaNames, NEW v \in ValueLens
    PROVE  RawLen(n, v) \in Nat /\ RawLen(n, v) > HeaderLen
<1>1. NameLen[n] \in Nat /\ v \in Nat
  BY Lengths
<1> QED
  BY <1>1 DEF RawLen, HeaderLen

LEMMA PaddedHolds ==
    ASSUME NEW raw \in Nat, NEW last
    PROVE  Padded(raw, last) \in Nat /\ Padded(raw, last) >= raw
<1>1. ((raw + 3) \div 4) * 4 \in Nat /\ ((raw + 3) \div 4) * 4 >= raw
  OBVIOUS
<1> QED
  BY <1>1 DEF Padded

\* One entry more.
LEMMA LaidTake ==
    ASSUME NEW names \in Seq(EaNames), NEW i \in 1 .. Len(names), NEW missed,
           NEW b, b.len \in Nat, b.entries \subseteq Entry,
           Laid(b, names, i, missed),
           NEW v \in ValueLens, NEW padded \in Nat, padded >= RawLen(names[i], v),
           NEW e, e.at = b.len, i = Len(names) => e.next = 0, i # Len(names) => e.next = padded,
           e.name = names[i], e.vlen = v,
           NEW bb, bb.len = b.len + padded, bb.entries = b.entries \cup {e}
    PROVE  Laid(bb, names, i + 1, missed)
<1>0. names[i] \in EaNames
  OBVIOUS
<1>r. RawLen(names[i], v) \in Nat /\ RawLen(names[i], v) > HeaderLen /\ HeaderLen \in Nat
  BY <1>0, RawLenPositive DEF HeaderLen
<1>p. padded > 0 /\ e.at = b.len /\ e.name = names[i] /\ e.vlen = v
  BY <1>r DEF HeaderLen
<1>f. \A x \in b.entries : /\ x.at \in Nat /\ x.next \in Nat
                           /\ x.name \in EaNames
                           /\ x.at < b.len
  <2> SUFFICES ASSUME NEW x \in b.entries
               PROVE  x.at \in Nat /\ x.next \in Nat /\ x.name \in EaNames /\ x.at < b.len
    OBVIOUS
  <2>1. x.at \in Nat /\ x.next \in Nat /\ x.vlen \in ValueLens
    BY DEF Entry
  <2>3. x.name \in EaNames
    <3>1. PICK j \in 1 .. i - 1 : x.name = names[j]
      BY LaidName DEF Laid
    <3> QED BY <3>1
  <2>4. RawLen(x.name, x.vlen) \in Nat /\ RawLen(x.name, x.vlen) > 0
    BY <2>1, <2>3, RawLenPositive DEF HeaderLen
  <2>5. x.at + RawLen(x.name, x.vlen) <= b.len
    BY DEF Laid, Linked
  <2> QED BY <2>1, <2>3, <2>4, <2>5
<1>1. 1 .. (i + 1) - 1 = (1 .. i - 1) \cup {i}
  OBVIOUS
<1>2. {names[j] : j \in 1 .. (i + 1) - 1} = {names[j] : j \in 1 .. i - 1} \cup {names[i]}
  BY <1>1
<1>3. names[i] \notin {names[j] : j \in 1 .. i - 1}
  BY DEF Laid, Once
<1>4. \A x \in bb.entries : x.at + RawLen(x.name, x.vlen) <= bb.len
  <2>1. ASSUME NEW x \in b.entries PROVE x.at + RawLen(x.name, x.vlen) <= bb.len
    <3>1. x.at + RawLen(x.name, x.vlen) <= b.len /\ x.vlen \in ValueLens
      BY DEF Laid, Linked, Entry
    <3>2. RawLen(x.name, x.vlen) \in Nat
      BY <1>f, <3>1, RawLenPositive
    <3> QED BY <1>f, <3>1, <3>2
  <2>2. e.at + RawLen(e.name, e.vlen) <= bb.len
    BY <1>p, <1>r
  <2> QED BY <2>1, <2>2
<1>5. \A x, y \in bb.entries : x.at = y.at => x = y
  BY <1>f, <1>p DEF Laid, Linked
<1>6. \A x \in bb.entries : x.next # 0 =>
          x.at + x.next = bb.len \/ \E y \in bb.entries : y.at = x.at + x.next
  <2>1. ASSUME NEW x \in b.entries, x.next # 0
        PROVE  \E y \in bb.entries : y.at = x.at + x.next
    <3>1. CASE x.at + x.next = b.len
      BY <1>p, <3>1
    <3>2. CASE \E y \in b.entries : y.at = x.at + x.next
      BY <3>2
    <3> QED BY <2>1, <3>1, <3>2 DEF Laid, Linked
  <2>2. e.next # 0 => e.at + e.next = bb.len
    BY <1>p
  <2> QED BY <2>1, <2>2
<1>7. \A x \in bb.entries : x.at = 0 \/ \E y \in bb.entries : y.next # 0 /\ y.at + y.next = x.at
  <2>1. e.at = 0 \/ \E y \in b.entries : y.next # 0 /\ y.at + y.next = e.at
    BY <1>p DEF Laid, Linked
  <2> QED BY <2>1 DEF Laid, Linked
<1>8. /\ \E x \in bb.entries : x.at = 0
      /\ i + 1 <= Len(names) => \E x \in bb.entries : x.next # 0 /\ x.at + x.next = bb.len
  <2>1. \E x \in bb.entries : x.at = 0
    BY <1>p DEF Laid, Linked
  <2>2. i + 1 <= Len(names) => e.next # 0 /\ e.at + e.next = bb.len
    BY <1>p
  <2> QED BY <2>1, <2>2
<1>9. {x.name : x \in bb.entries} = {names[j] : j \in 1 .. (i + 1) - 1} \ missed
  <2>1. {x.name : x \in bb.entries} = {x.name : x \in b.entries} \cup {names[i]}
    BY <1>p
  <2>2. names[i] \notin missed
    BY <1>3 DEF Laid, Listed
  <2>3. {x.name : x \in b.entries} = {names[j] : j \in 1 .. i - 1} \ missed
    BY DEF Laid, Listed
  <2> QED BY <1>2, <2>1, <2>2, <2>3
<1>10. missed \subseteq {names[j] : j \in 1 .. (i + 1) - 1}
  BY <1>2 DEF Laid, Listed
<1>11. ASSUME NEW x \in bb.entries, NEW y \in bb.entries, x.at < y.at
       PROVE  \E j, k \in 1 .. (i + 1) - 1 : j < k /\ x.name = names[j] /\ y.name = names[k]
  <2>1. x \in b.entries
    BY <1>11, <1>f, <1>p
  <2>2. CASE y \in b.entries
    BY <1>1, <1>11, <2>1, <2>2 DEF Laid, Ordered
  <2>3. CASE y = e
    <3>2. PICK j \in 1 .. i - 1 : x.name = names[j]
      BY <2>1, LaidName DEF Laid
    <3>3. j < i /\ j \in 1 .. (i + 1) - 1 /\ i \in 1 .. (i + 1) - 1
      BY <1>1
    <3> QED BY <1>p, <2>3, <3>2, <3>3
  <2> QED BY <2>2, <2>3
<1>12. Linked(bb, i + 1 <= Len(names))
  BY <1>4, <1>5, <1>6, <1>7, <1>8 DEF Linked
<1>13. Listed(bb, names, i + 1, missed)
  BY <1>9, <1>10 DEF Listed
<1>14. Ordered(bb, names, i + 1)
  BY <1>11 DEF Ordered
<1> QED
  BY <1>12, <1>13, <1>14 DEF Laid

ReadsBack(b, names, missed) ==
    \E P \in Beginnings(b) :
        /\ IsWhole(b, P)
        /\ \A p \in P : EntryAt(b, p) \in b.entries
        /\ {EntryAt(b, p).name : p \in P} = {names[j] : j \in DOMAIN names} \ missed
        /\ \A p, q \in P : p < q =>
              \E j, k \in DOMAIN names :
                 j < k /\ EntryAt(b, p).name = names[j] /\ EntryAt(b, q).name = names[k]

\* A list that has been built reads back.
LEMMA LaidReadsBack ==
    ASSUME NEW names \in Seq(EaNames), NEW i, i = Len(names) + 1, NEW missed,
           NEW b, b.len \in Nat, b.entries \subseteq Entry,
           Laid(b, names, i, missed)
    PROVE  ReadsBack(b, names, missed)
<1> DEFINE P == {e.at : e \in b.entries}
<1>0. 1 .. i - 1 = DOMAIN names
  OBVIOUS
<1>1. \A e \in b.entries : EntryAt(b, e.at) = e
  BY DEF EntryAt, Laid, Linked
<1>2. \A p \in P : EntryAt(b, p) \in b.entries /\ EntryAt(b, p).at = p
  BY <1>1
<1>3. ASSUME NEW e \in b.entries PROVE Readable(b, e.at)
  <2>1. PICK j \in 1 .. i - 1 : e.name = names[j]
    BY LaidName DEF Laid
  <2>2. e.name \in EaNames /\ e.vlen \in ValueLens /\ e.at \in Nat
    BY <2>1, <1>0 DEF Entry
  <2>3. RawLen(e.name, e.vlen) \in Nat /\ RawLen(e.name, e.vlen) > HeaderLen /\ HeaderLen \in Nat
    BY <2>2, RawLenPositive DEF HeaderLen
  <2>4. e.at + RawLen(e.name, e.vlen) <= b.len
    BY DEF Laid, Linked
  <2> QED BY <1>1, <2>2, <2>3, <2>4 DEF Readable, Fits
<1>4. \A e \in b.entries : \A p : Leads(b, e.at, p) <=> e.next # 0 /\ p = e.at + e.next
  BY <1>1 DEF Leads
<1>5. P \in Beginnings(b)
  <2>1. ASSUME NEW e \in b.entries
        PROVE  e.at \in Offsets(b) /\ (e.at = 0 \/ \E q \in P : Leads(b, q, e.at))
    <3>1. CASE e.at = 0
      BY <3>1 DEF Offsets
    <3>2. CASE \E f \in b.entries : f.next # 0 /\ f.at + f.next = e.at
      BY <1>4, <3>2 DEF Offsets
    <3> QED BY <3>1, <3>2 DEF Laid, Linked
  <2> QED BY <1>3, <2>1 DEF Beginnings
<1>6. IsWhole(b, P)
  <2> SUFFICES ASSUME NEW p, Readable(b, p), p = 0 \/ \E q \in P : Leads(b, q, p)
               PROVE  p \in P
    BY DEF IsWhole
  <2>1. CASE p = 0
    <3>1. ~ (b.len = 0)
      BY <2>1 DEF Readable, HeaderLen
    <3> QED BY <2>1, <3>1 DEF Laid, Linked
  <2>2. CASE \E q \in P : Leads(b, q, p)
    <3>1. PICK e \in b.entries : e.next # 0 /\ p = e.at + e.next
      BY <1>4, <2>2
    <3>2. p # b.len
      BY DEF Readable, HeaderLen
    <3> QED BY <3>1, <3>2 DEF Laid, Linked
  <2> QED BY <2>1, <2>2
<1>7. {EntryAt(b, p).name : p \in P} = {names[j] : j \in DOMAIN names} \ missed
  <2>1. {EntryAt(b, p).name : p \in P} = {e.name : e \in b.entries}
    BY <1>1
  <2> QED BY <1>0, <2>1 DEF Laid, Listed
<1>8. \A p, q \in P : p < q =>
         \E j, k \in DOMAIN names :
            j < k /\ EntryAt(b, p).name = names[j] /\ EntryAt(b, q).name = names[k]
  BY <1>0, <1>1 DEF Laid, Ordered
<1> HIDE DEF P
<1> QED
  BY <1>2, <1>5, <1>6, <1>7, <1>8 DEF ReadsBack

-----------------------------------------------------------------------------
(* Extended attributes: the requests.                                      *)

\* An undisturbed request has seen one file; a list that is done has got past
\* all names.
ListOK(r, f) ==
    r # Nil /\ r.op = "get_ea" =>
        /\ r.was # Nil =>
              f = r.was /\ \A e \in r.buf.entries : e.vlen = r.was.ea[e.name]
        /\ r.pc = "list" => /\ r.names = <<>> /\ r.missed = {}
                           /\ r.buf.entries = {} /\ r.buf.len = 0
        /\ r.pc = "done" => r.i = Len(r.names) + 1
        /\ Laid(r.buf, r.names, r.i, r.missed)

EaOK(r, f) == SetOK(r, f) /\ ListOK(r, f)

EaInv == TypeOK /\ \A t \in Threads : EaOK(req[t], file)

\* Requests that touch no attribute.
LEMMA OtherEa ==
    ASSUME NEW r, NEW f, r = Nil \/ r.op = "basic"
    PROVE  EaOK(r, f)
BY DEF EaOK, SetOK, ListOK

LEMMA GoesEa ==
    ASSUME EaInv, TypeOK', NEW t \in Threads, NEW r, Goes(t, r), file' = file, EaOK(r, file)
    PROVE  EaInv'
<1>1. req' = [u \in Threads |-> IF u = t THEN r ELSE req[u]]
  BY TypeByRequest DEF Goes, EaInv
<1>2. \A u \in Threads : EaOK(req'[u], file')
  BY <1>1 DEF EaInv
<1> QED
  BY <1>2 DEF EaInv, EaOK, SetOK, ListOK

LEMMA ChangesEa ==
    ASSUME EaInv, TypeOK', NEW t \in Threads, NEW r, NEW f, Changes(t, r, f), EaOK(r, f)
    PROVE  EaInv'
<1>1. file' = f
  BY DEF Changes
<1>2. req' = [u \in Threads |-> IF u = t THEN r
                                ELSE IF req[u] = Nil \/ f = file THEN req[u]
                                ELSE [req[u] EXCEPT !.was = Nil]]
  BY DEF Changes
<1>3. ASSUME NEW u \in Threads PROVE EaOK(req'[u], file')
  <2>1. CASE u = t
    BY <1>1, <1>2, <2>1
  <2>2. CASE u # t /\ f = file
    BY <1>1, <1>2, <2>2 DEF EaInv
  <2>3. CASE u # t /\ req[u] = Nil
    BY <1>2, <2>3, OtherEa
  <2>4. CASE u # t /\ f # file /\ req[u] # Nil
    <3> DEFINE d == [req[u] EXCEPT !.was = Nil]
    <3>1. req'[u] = d /\ req[u] \in Requests
      BY <1>2, <2>4, Kinds DEF EaInv
    <3>2. d.op = req[u].op /\ d.pc = req[u].pc /\ d.was = Nil
      BY <3>1, Disturb
    <3>3. req[u].op = "get_ea" => req[u] \in GetRequest
      BY <2>4, Kinds DEF EaInv
    <3>4. req[u].op = "get_ea" => d.i = req[u].i /\ d.names = req[u].names
                                  /\ d.buf = req[u].buf /\ d.missed = req[u].missed
      BY <3>1, <3>3, Disturb
    <3>5. ListOK(req[u], file)
      BY DEF EaInv, EaOK
    <3> HIDE DEF d
    <3>6. ListOK(d, f)
      BY <2>4, <3>2, <3>4, <3>5 DEF ListOK
    <3>7. SetOK(d, f)
      BY <3>2 DEF SetOK
    <3> QED BY <1>1, <3>1, <3>6, <3>7 DEF EaOK
  <2> QED BY <2>1, <2>2, <2>3, <2>4
<1> QED
  BY <1>3 DEF EaInv, EaOK, SetOK, ListOK

\* What a request starts with.
LEMMA SetBegins ==
    ASSUME NEW b \in Buffers, NEW f \in Files, NEW r,
           r.buf = b, r.pos = 0, r.was = f, r.pc = "entry", r.op \in {"create", "set_ea"}
    PROVE  EaOK(r, f)
<1>1. AppliedUpTo(b, {}, 0)
  BY DEF AppliedUpTo, Beginnings
<1>2. f.ea \in [EaNames -> ValueLens \cup {Absent}] /\ f = [f EXCEPT !.ea = f.ea]
  BY DEF Files
<1>3. f = [f EXCEPT !.ea = Meant(@, b, {})]
  BY <1>2, MeantNothing
<1>4. {} \in Beginnings(b)
  BY <1>1 DEF AppliedUpTo
<1> QED
  BY <1>1, <1>3, <1>4 DEF EaOK, SetOK, ListOK

LEMMA BeginsEa ==
    ASSUME EaInv, NEW t \in Threads
    PROVE  /\ \A a \in {"unchanged", "readonly", "normal"}, time \in Times \cup {Nil} :
                BeginBasic(t, a, time) => EaInv'
           /\ \A b \in Buffers : BeginSet(t, b) => EaInv'
           /\ \A b \in Buffers, ro \in BOOLEAN, time \in Times :
                BeginCreate(t, b, ro, time) => EaInv'
           /\ \A n \in Sizes : BeginGet(t, n) => EaInv'
<1>0. TypeOK
  BY DEF EaInv
<1>1. ASSUME NEW a \in {"unchanged", "readonly", "normal"}, NEW time \in Times \cup {Nil},
             BeginBasic(t, a, time)
      PROVE  EaInv'
  <2> DEFINE r == [op |-> "basic", pc |-> "utimens", attrs |-> a, time |-> time,
                   seen |-> {}, was |-> file]
  <2>1. Goes(t, r) /\ file' = file
    BY <1>1 DEF BeginBasic, Begin, Goes
  <2>2. TypeOK'
    BY <1>0, <1>1, BeginsTyped
  <2> QED BY <2>1, <2>2, OtherEa, GoesEa
<1>2. ASSUME NEW b \in Buffers, BeginSet(t, b) PROVE EaInv'
  <2> DEFINE r == [op |-> "set_ea", pc |-> "entry", buf |-> b, pos |-> 0, was |-> file]
  <2>1. Goes(t, r) /\ file' = file /\ file \in Files
    BY <1>0, <1>2 DEF BeginSet, Begin, Goes, TypeOK
  <2>2. TypeOK'
    BY <1>0, <1>2, BeginsTyped
  <2>3. EaOK(r, file)
    BY <2>1, SetBegins
  <2> QED BY <2>1, <2>2, <2>3, GoesEa
<1>3. ASSUME NEW b \in Buffers, NEW ro \in BOOLEAN, NEW time \in Times, BeginCreate(t, b, ro, time)
      PROVE  EaInv'
  <2> DEFINE f == [writers |-> NewMode(ro), time |-> time, ea |-> [n \in EaNames |-> Absent]]
             r == [op |-> "create", pc |-> "entry", buf |-> b, pos |-> 0, was |-> f]
  <2>1. TypeOK'
    BY <1>0, <1>3, BeginsTyped
  <2>2. \A u \in Threads : req[u] = Nil
    BY <1>0, <1>3 DEF TypeOK, BeginCreate
  <2>3. f \in Files
    BY OwnerAssumption DEF Files, NewMode
  <2>4. file' = f /\ req' = [req EXCEPT ![t] = r]
    BY <1>3 DEF BeginCreate, Begin
  <2>5. r.buf = b /\ r.pos = 0 /\ r.was = f /\ r.pc = "entry" /\ r.op = "create"
    OBVIOUS
  <2> HIDE DEF f, r
  <2>6. EaOK(r, f)
    BY <2>3, <2>5, SetBegins
  <2>7. \A u \in Threads : req'[u] = Nil \/ req'[u] = r
    BY <1>0, <2>2, <2>4 DEF TypeOK
  <2>8. \A u \in Threads : EaOK(req'[u], file')
    BY <2>4, <2>6, <2>7, OtherEa
  <2> QED BY <2>1, <2>8 DEF EaInv, EaOK, SetOK, ListOK
<1>4. ASSUME NEW n \in Sizes, BeginGet(t, n) PROVE EaInv'
  <2> DEFINE b == [len |-> 0, entries |-> {}]
             r == [op |-> "get_ea", pc |-> "list", size |-> n, names |-> <<>>, i |-> 1,
                   buf |-> b, missed |-> {}, was |-> file]
  <2>1. Goes(t, r) /\ file' = file
    BY <1>4 DEF BeginGet, Begin, Goes
  <2>2. TypeOK'
    BY <1>0, <1>4, BeginsTyped
  <2>3. Laid(b, <<>>, 1, {})
    <3>1. <<>> \in Seq(EaNames) /\ Once(<<>>)
      BY DEF Once
    <3>2. b.entries = {} /\ b.len = 0
      OBVIOUS
    <3> HIDE DEF b
    <3> QED BY <3>1, <3>2, LaidEmpty
  <2>4. ListOK(r, file)
    BY <2>3 DEF ListOK
  <2>5. SetOK(r, file)
    BY DEF SetOK
  <2> QED BY <2>1, <2>2, <2>4, <2>5, GoesEa DEF EaOK
<1> QED
  BY <1>1, <1>2, <1>3, <1>4

LEMMA BasicEa ==
    ASSUME EaInv, NEW t \in Threads, Utimens(t) \/ BasicStat(t) \/ Chmod(t) \/ BasicFinal(t)
    PROVE  EaInv'
<1> DEFINE r == req[t]
<1>1. TypeOK /\ TypeOK' /\ r # Nil
  BY BasicTyped DEF EaInv, Utimens, BasicStat, Chmod, BasicFinal
<1>2. r \in BasicRequest
  <2>1. r \in Requests
    BY <1>1, Kinds
  <2>2. CASE Utimens(t)
    BY <2>1, <2>2 DEF Utimens, Requests, BasicRequest, SetRequest, GetRequest
  <2>3. CASE BasicStat(t) \/ Chmod(t) \/ BasicFinal(t)
    BY <1>1, <2>3, Kinds DEF BasicStat, Chmod, BasicFinal
  <2> QED BY <2>2, <2>3
<1>3. ASSUME NEW x, NEW y
      PROVE  /\ [r EXCEPT !.pc = x].op = "basic"
             /\ [r EXCEPT !.seen = y, !.pc = x].op = "basic"
             /\ [r EXCEPT !.pc = x, !.seen = y].op = "basic"
  BY <1>2 DEF BasicRequest
<1>4. \/ \E rr, f : rr.op = "basic" /\ Changes(t, rr, f)
      \/ \E rr : rr.op = "basic" /\ Goes(t, rr) /\ file' = file
  <2>1. CASE Utimens(t)
    <3> DEFINE rr == [r EXCEPT !.pc = IF r.attrs = "unchanged" THEN "final" ELSE "stat"]
    <3>1. rr.op = "basic"
      BY <1>3
    <3>2. (Goes(t, rr) /\ file' = file) \/ Changes(t, rr, [file EXCEPT !.time = r.time])
      BY <2>1 DEF Utimens
    <3> HIDE DEF rr
    <3> QED BY <3>1, <3>2
  <2>2. CASE BasicStat(t)
    BY <1>3, <2>2 DEF BasicStat
  <2>3. CASE Chmod(t)
    <3> DEFINE rr == [r EXCEPT !.pc = "final"]
    <3>1. rr.op = "basic"
      BY <1>3
    <3>2. Changes(t, rr, [file EXCEPT !.writers = NewWriters(r)])
      BY <2>3 DEF Chmod
    <3> HIDE DEF rr
    <3> QED BY <3>1, <3>2
  <2>4. CASE BasicFinal(t)
    BY <1>3, <2>4 DEF BasicFinal
  <2> QED BY <2>1, <2>2, <2>3, <2>4
<1> QED
  BY <1>1, <1>4, OtherEa, GoesEa, ChangesEa

\* One entry of a list is applied.
LEMMA ApplyEntryEa ==
    ASSUME EaInv, NEW t \in Threads, ApplyEntry(t)
    PROVE  EaInv'
<1> DEFINE r == req[t]
           b == r.buf
           pos == r.pos
           e == EntryAt(b, pos)
           last == [r EXCEPT !.pc = "final"]
           next == [r EXCEPT !.pos = @ + e.next]
           f == [file EXCEPT !.ea = Applied(@, e)]
<1>1. TypeOK /\ TypeOK'
  BY SetTyped DEF EaInv
<1>2. /\ r # Nil /\ file \in Files /\ r \in SetRequest
      /\ r.op \in {"create", "set_ea"} /\ r.pc = "entry"
  BY <1>1, Kinds DEF ApplyEntry
<1>3. b \in Buffers /\ b.entries \subseteq Entry /\ pos \in Nat
  BY <1>2, BuffersAssumption DEF SetRequest
<1>4. /\ last.op = r.op /\ last.buf = b /\ last.was = r.was /\ last.pc = "final"
      /\ next.op = r.op /\ next.buf = b /\ next.was = r.was /\ next.pc = "entry"
      /\ next.pos = pos + e.next
  <2> HIDE DEF e
  <2> QED BY <1>2 DEF SetRequest
<1>5. ASSUME r.was # Nil
      PROVE  \E P \in Beginnings(b) : file = [r.was EXCEPT !.ea = Meant(@, b, P)]
                                      /\ AppliedUpTo(b, P, pos)
  BY <1>2, <1>5 DEF EaInv, EaOK, SetOK
<1>6. CASE ~Readable(b, pos)
  <2>1. Goes(t, last) /\ file' = file
    BY <1>6 DEF ApplyEntry
  <2> HIDE DEF last, e, b, pos
  <2>2. SetOK(last, file)
    BY <1>4, <1>5, <1>6, AppliedAll DEF SetOK
  <2>3. ListOK(last, file)
    BY <1>2, <1>4 DEF ListOK
  <2> QED BY <1>1, <2>1, <2>2, <2>3, GoesEa DEF EaOK
<1>7. CASE Readable(b, pos)
  <2> DEFINE rr == IF e.next = 0 THEN last ELSE next
  <2>1. Changes(t, rr, f)
    BY <1>7 DEF ApplyEntry
  <2>2. ASSUME r.was # Nil
        PROVE  \E P \in Beginnings(b) :
                  /\ f = [r.was EXCEPT !.ea = Meant(@, b, P)]
                  /\ e.next = 0 => IsWhole(b, P)
                  /\ e.next # 0 => AppliedUpTo(b, P, pos + e.next)
    <3>1. PICK P \in Beginnings(b) : file = [r.was EXCEPT !.ea = Meant(@, b, P)]
                                     /\ AppliedUpTo(b, P, pos)
      BY <1>5, <2>2
    <3>2. P \in SUBSET Nat /\ \A p \in P : p < pos
      BY <1>3, <3>1, OffsetsNat DEF Beginnings, AppliedUpTo
    <3>3. Meant(r.was.ea, b, P \cup {pos}) = Applied(Meant(r.was.ea, b, P), e)
      BY <1>3, <3>2, MeantNext
    <3>4. f = [r.was EXCEPT !.ea = Meant(@, b, P \cup {pos})]
      <4>1. r.was \in Files
        BY <1>2, <2>2 DEF SetRequest
      <4> DEFINE m == Meant(r.was.ea, b, P)
                 mm == Meant(r.was.ea, b, P \cup {pos})
      <4>2. file = [r.was EXCEPT !.ea = m] /\ mm = Applied(m, e)
        BY <3>1, <3>3
      <4> HIDE DEF m, mm, e
      <4>3. file.ea = m
        BY <4>1, <4>2 DEF Files
      <4>4. f = [r.was EXCEPT !.ea = mm]
        BY <4>1, <4>2, <4>3 DEF Files
      <4> QED BY <4>4 DEF mm
    <3>5. /\ P \cup {pos} \in Beginnings(b)
          /\ e.next = 0 => IsWhole(b, P \cup {pos})
          /\ e.next # 0 => AppliedUpTo(b, P \cup {pos}, pos + e.next)
      BY <1>3, <1>7, <3>1, AppliedNext
    <3> HIDE DEF f, e, b, pos
    <3> QED BY <3>4, <3>5
  <2>3. /\ rr.op = r.op /\ rr.buf = b /\ rr.was = r.was
        /\ rr.pc = "entry" => e.next # 0 /\ rr.pos = pos + e.next
        /\ rr.pc = "final" => e.next = 0
    <3> HIDE DEF last, next
    <3> QED BY <1>4
  <2> HIDE DEF rr, f, e, b, pos
  <2>4. SetOK(rr, f)
    BY <2>2, <2>3 DEF SetOK
  <2>5. ListOK(rr, f)
    BY <1>2, <2>3 DEF ListOK
  <2> QED BY <1>1, <2>1, <2>4, <2>5, ChangesEa DEF EaOK
<1> QED
  BY <1>6, <1>7

\* The names of the attributes that are there, in some order.
LEMMA SeqOfSet ==
    ASSUME NEW S \in SUBSET EaNames, NEW s \in SetToSeqs(S)
    PROVE  s \in Seq(EaNames) /\ Once(s)
<1>1. Cardinality(S) \in Nat
  BY Lengths, FS_Subset, FS_CardinalityType
<1>2. s \in [1 .. Cardinality(S) -> EaNames]
  BY DEF SetToSeqs
<1>3. \A j, k \in 1 .. Cardinality(S) : j # k => s[j] # s[k]
  BY DEF SetToSeqs
<1> QED
  BY <1>1, <1>2, <1>3 DEF Once

LEMMA GetEa ==
    ASSUME EaInv, NEW t \in Threads,
           ListNames(t) \/ SkipName(t) \/ TakeValue(t) \/ ListDone(t)
    PROVE  EaInv'
<1> DEFINE r == req[t]
           b == r.buf
           i == r.i
<1>1. TypeOK /\ TypeOK' /\ r # Nil /\ r.op = "get_ea" /\ file \in Files /\ r \in GetRequest
  BY GetIsListing, GetTyped, Kinds DEF EaInv
<1>2. /\ r.names \in Seq(EaNames) /\ i \in 1 .. (Len(r.names) + 1)
      /\ b.len \in Nat /\ b.entries \subseteq Entry
  <2>1. i \in 1 .. (Len(r.names) + 1)
    BY <1>1 DEF TypeOK
  <2>2. r.names \in Seq(EaNames) /\ b \in [len: Nat, entries: SUBSET Entry]
    BY <1>1 DEF GetRequest
  <2> QED BY <2>1, <2>2
<1>3. /\ r.was # Nil => file = r.was /\ \A e \in b.entries : e.vlen = r.was.ea[e.name]
      /\ r.pc = "list" => i = 1 /\ r.names = <<>> /\ b.entries = {} /\ b.len = 0 /\ r.missed = {}
      /\ Laid(b, r.names, i, r.missed)
  BY <1>1 DEF EaInv, EaOK, ListOK, TypeOK
<1>4. ASSUME NEW rr, rr.op = "get_ea", Goes(t, rr), file' = file, ListOK(rr, file) PROVE EaInv'
  <2>1. SetOK(rr, file)
    BY <1>4 DEF SetOK
  <2> QED BY <1>1, <1>4, <2>1, GoesEa DEF EaOK
<1>5. ASSUME i = Len(r.names) + 1, Goes(t, [r EXCEPT !.pc = "done"]), file' = file PROVE EaInv'
  <2> DEFINE rr == [r EXCEPT !.pc = "done"]
  <2>1. /\ rr.op = "get_ea" /\ rr.was = r.was /\ rr.pc = "done" /\ rr.names = r.names
        /\ rr.i = i /\ rr.missed = r.missed /\ rr.buf = b
    BY <1>1 DEF GetRequest
  <2>2. Goes(t, rr)
    BY <1>5
  <2> HIDE DEF rr, r
  <2>3. ListOK(rr, file)
    BY <1>3, <1>5, <2>1 DEF ListOK
  <2> QED BY <1>4, <1>5, <2>1, <2>2, <2>3
<1>6. CASE ListNames(t)
  <2>1. ASSUME NEW s \in SetToSeqs(Present(file.ea)),
               Goes(t, [r EXCEPT !.names = s, !.pc = "value"])
        PROVE  EaInv'
    <3> DEFINE rr == [r EXCEPT !.names = s, !.pc = "value"]
    <3>1. s \in Seq(EaNames) /\ Once(s)
      BY SeqOfSet DEF Present
    <3>2. rr.op = "get_ea" /\ rr.was = r.was /\ rr.names = s /\ rr.i = i /\ rr.missed = r.missed
          /\ rr.buf = b /\ rr.pc = "value"
      BY <1>1 DEF GetRequest
    <3>3. r.pc = "list" /\ file' = file
      BY <1>6 DEF ListNames
    <3>4. Goes(t, rr)
      BY <2>1
    <3> HIDE DEF rr, r, b, i
    <3>5. Laid(b, s, 1, {})
      BY <1>3, <3>1, <3>3, LaidEmpty
    <3>6. ListOK(rr, file)
      BY <1>3, <3>2, <3>3, <3>5 DEF ListOK, b
    <3> QED BY <1>4, <3>2, <3>3, <3>4, <3>6
  <2>2. CASE Goes(t, [r EXCEPT !.pc = "done"])
    <3>1. r.pc = "list" /\ file' = file
      BY <1>6 DEF ListNames
    <3> HIDE DEF r, i
    <3>2. r.names = <<>> /\ i = 1
      BY <1>3, <3>1
    <3>3. i = Len(r.names) + 1
      BY <3>2
    <3> QED BY <1>5, <2>2, <3>1, <3>3
  <2> QED BY <1>6, <2>1, <2>2 DEF ListNames
<1>7. ASSUME Reading(t) PROVE i \in 1 .. Len(r.names) /\ NextName(t) = r.names[i] /\ r.pc = "value"
  BY <1>2, <1>7 DEF Reading, NextName
<1>8. CASE SkipName(t)
  <2> DEFINE m == r.missed \cup {NextName(t)}
             rr == [r EXCEPT !.i = @ + 1, !.missed = @ \cup {NextName(t)}]
  <2>1. Goes(t, rr) /\ file' = file /\ Reading(t)
    BY <1>8 DEF SkipName
  <2>2. rr.op = "get_ea" /\ rr.was = r.was /\ rr.names = r.names /\ rr.i = i + 1 /\ rr.missed = m
        /\ rr.buf = b /\ rr.pc = r.pc
    BY <1>1 DEF GetRequest
  <2>3. Laid(b, r.names, i + 1, m)
    <3> HIDE DEF r, b, i
    <3> QED BY <1>2, <1>3, <1>7, <2>1, LaidSkip
  <2> HIDE DEF rr, r, b, i, m
  <2>4. ListOK(rr, file)
    BY <1>3, <1>7, <2>1, <2>2, <2>3 DEF ListOK, b
  <2> QED BY <1>4, <2>1, <2>2, <2>4
<1>9. CASE TakeValue(t)
  <2> DEFINE n == NextName(t)
             v == file.ea[n]
             raw == RawLen(n, v)
             last == i = Len(r.names)
             padded == Padded(raw, last)
             e == [at |-> b.len, next |-> Link(padded, raw, last), name |-> n, vlen |-> v]
             bb == [len |-> b.len + padded, entries |-> b.entries \cup {e}]
             rr == [r EXCEPT !.i = @ + 1,
                             !.buf = [len |-> @.len + padded, entries |-> @.entries \cup {e}]]
  <2>1. file' = file /\ Reading(t) /\ v # Absent
    BY <1>9 DEF TakeValue
  <2>2. (Goes(t, rr) \/ Goes(t, Nil)) /\ file' = file
    BY <1>9 DEF TakeValue
  <2>3. rr.op = "get_ea" /\ rr.was = r.was /\ rr.names = r.names /\ rr.i = i + 1
        /\ rr.missed = r.missed /\ rr.buf = bb /\ rr.pc = r.pc
    <3> HIDE DEF padded, e
    <3> QED BY <1>1 DEF GetRequest
  <2>4. n = r.names[i] /\ n \in EaNames /\ v \in ValueLens
    BY <1>1, <1>2, <1>7, <2>1 DEF Files
  <2>5. padded \in Nat /\ padded >= raw
    <3>1. raw \in Nat
      BY <2>4, RawLenPositive
    <3> HIDE DEF raw, last
    <3> QED BY <3>1, PaddedHolds
  <2>6. /\ e.at = b.len
        /\ i = Len(r.names) => e.next = 0
        /\ i # Len(r.names) => e.next = padded
    BY DEF Link
  <2>7. bb.len = b.len + padded /\ bb.entries = b.entries \cup {e}
    OBVIOUS
  <2>8. i \in 1 .. Len(r.names) /\ r.pc = "value"
    BY <1>7, <2>1
  <2>9. /\ e.vlen = v /\ v = file.ea[n] /\ e.name = r.names[i] /\ e.name = n
        /\ raw = RawLen(r.names[i], v)
    BY <2>4
  <2> HIDE DEF rr, bb, e, padded, raw, r, b, i, last, v, n
  <2>10. Laid(bb, r.names, i + 1, r.missed)
    BY <1>2, <1>3, <2>4, <2>5, <2>6, <2>7, <2>8, <2>9, LaidTake
  <2>11. r.was # Nil => \A x \in bb.entries : x.vlen = r.was.ea[x.name]
    BY <1>3, <2>7, <2>9
  <2>12. ListOK(rr, file)
    BY <1>3, <2>3, <2>8, <2>10, <2>11 DEF ListOK
  <2>13. ASSUME Goes(t, Nil) PROVE EaInv'
    BY <1>1, <2>1, <2>13, OtherEa, GoesEa
  <2> QED BY <1>4, <2>2, <2>3, <2>12, <2>13
<1>10. CASE ListDone(t)
  <2>1. i > Len(r.names) /\ Goes(t, [r EXCEPT !.pc = "done"]) /\ file' = file
    BY <1>10 DEF ListDone
  <2>2. i = Len(r.names) + 1
    BY <1>2, <2>1
  <2> QED BY <1>5, <2>1, <2>2
<1> QED
  BY <1>6, <1>8, <1>9, <1>10

LEMMA EaStep == EaInv /\ [Next]_vars => EaInv'
<1> SUFFICES ASSUME EaInv, [Next]_vars PROVE EaInv'
  OBVIOUS
<1>0. TypeOK /\ TypeOK'
  BY TypingStep DEF EaInv
<1>1. CASE UNCHANGED vars
  BY <1>0, <1>1 DEF EaInv, EaOK, SetOK, ListOK, vars
<1>2. ASSUME NEW t \in Threads, SetFinal(t) \/ Fail(t) \/ Reply(t) PROVE EaInv'
  <2>1. Goes(t, Nil) /\ file' = file
    BY <1>2 DEF SetFinal, Fail, Reply
  <2> QED BY <1>0, <2>1, OtherEa, GoesEa
<1>3. CASE Next
  BY <1>2, <1>3, BeginsEa, BasicEa, ApplyEntryEa, GetEa DEF Next
<1> QED
  BY <1>1, <1>3

LEMMA EaInit == Init => EaInv
BY TypingInit, OtherEa DEF Init, EaInv

LEMMA EntriesHold == EaInv => EntriesInOrder
<1> SUFFICES ASSUME EaInv, NEW t \in Threads, Undisturbed(t), req[t].op \in {"create", "set_ea"}
             PROVE  \E P \in Beginnings(req[t].buf) :
                       /\ file = [req[t].was EXCEPT !.ea = Meant(@, req[t].buf, P)]
                       /\ req[t].pc = "final" => IsWhole(req[t].buf, P)
  BY DEF EntriesInOrder
<1>1. SetOK(req[t], file)
  BY DEF EaInv, EaOK
<1> QED
  BY <1>1 DEF SetOK, Undisturbed

LEMMA ListsHold == EaInv => ListReadsBack
<1> SUFFICES ASSUME EaInv, NEW t \in Threads, req[t] # Nil, req[t].op = "get_ea",
                    req[t].pc = "done"
             PROVE  LET r == req[t]
                        NameAt(p) == EntryAt(r.buf, p).name
                    IN  \E P \in Beginnings(r.buf) :
                           /\ IsWhole(r.buf, P)
                           /\ {NameAt(p) : p \in P} =
                                {r.names[i] : i \in DOMAIN r.names} \ r.missed
                           /\ \A p, q \in P : p < q =>
                                 \E i, j \in DOMAIN r.names :
                                    i < j /\ NameAt(p) = r.names[i] /\ NameAt(q) = r.names[j]
                           /\ Undisturbed(t) =>
                                 \A p \in P : EntryAt(r.buf, p).vlen = r.was.ea[NameAt(p)]
  BY DEF ListReadsBack
<1> DEFINE r == req[t]
           b == r.buf
<1>1. ListOK(r, file) /\ r \in GetRequest
  BY Kinds DEF EaInv, EaOK
<1>2. /\ r.names \in Seq(EaNames) /\ b.len \in Nat /\ b.entries \subseteq Entry
  <2>1. r.names \in Seq(EaNames) /\ b \in [len: Nat, entries: SUBSET Entry]
    BY <1>1 DEF GetRequest
  <2> QED BY <2>1
<1>3. r.i = Len(r.names) + 1 /\ Laid(b, r.names, r.i, r.missed)
  BY <1>1 DEF ListOK
<1>4. r.was # Nil => \A e \in b.entries : e.vlen = r.was.ea[e.name]
  BY <1>1 DEF ListOK
<1>5. PICK P \in Beginnings(b) :
              /\ IsWhole(b, P)
              /\ \A p \in P : EntryAt(b, p) \in b.entries
              /\ {EntryAt(b, p).name : p \in P} = {r.names[j] : j \in DOMAIN r.names} \ r.missed
              /\ \A p, q \in P : p < q =>
                    \E j, k \in DOMAIN r.names :
                       j < k /\ EntryAt(b, p).name = r.names[j] /\ EntryAt(b, q).name = r.names[k]
  <2> HIDE DEF b, r
  <2>1. ReadsBack(b, r.names, r.missed)
    BY <1>2, <1>3, LaidReadsBack
  <2> QED BY <2>1 DEF ReadsBack
<1>6. Undisturbed(t) => \A p \in P : EntryAt(b, p).vlen = r.was.ea[EntryAt(b, p).name]
  BY <1>4, <1>5 DEF Undisturbed
<1> QED
  BY <1>5, <1>6

\* Whatever of its calls fails, an apply_ea_buffer that no other request disturbs
\* has set what the first so many entries of its list mean, for every list
\* (set_extended_attributes, create).
THEOREM Entries == Spec => []EntriesInOrder
BY EaInit, EaStep, EntriesHold, PTL DEF Spec

\* A list that get_extended_attributes hands out reads back as the attributes it
\* could read, for every set of them and every buffer.
THEOREM Lists == Spec => []ListReadsBack
BY EaInit, EaStep, ListsHold, PTL DEF Spec
=============================================================================
