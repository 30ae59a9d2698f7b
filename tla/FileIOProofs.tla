----------------------------- MODULE FileIOProofs -----------------------------
(***************************************************************************)
(* What FileIO promises, for any number of handles, names and threads and  *)
(* for files and writes of any size.                                       *)
(***************************************************************************)
EXTENDS FileIO, TLAPS

\* The calls each operation makes, and who asks to append or not to extend; the
\* bound of the model.
Stages ==
    \A t \in Threads : req[t] # Nil =>
        /\ req[t].op = "read" => req[t].pc = "access"
        /\ req[t].op = "write" => req[t].pc \in {"stat", "access", "refresh"}
        /\ req[t].op = "truncate" => req[t].pc = "refresh"
        /\ req[t].op = "info" => req[t].pc = "store"
        /\ req[t].op # "write" => ~req[t].append /\ ~req[t].constrained
        /\ req[t].op = "write" /\ req[t].pc = "access"
              => req[t].offset + req[t].length <= MaxSize

\* A request that changes the file has its name for itself.
Alone ==
    \A t, u \in Threads :
        /\ req[t] # Nil /\ req[u] # Nil
        /\ nodeOf[req[t].handle] = nodeOf[req[u].handle]
        /\ req[t].op \in {"write", "truncate"}
        => u = t

\* The size get_file_info is about to store is the one the handle's own last
\* change left.
InfoFresh ==
    \A t \in Threads :
        req[t] # Nil /\ req[t].op = "info" /\ changer = req[t].handle
            => req[t].offset = size

\* What write has settled on lies within the file.
Clamped ==
    OneName => \A t \in Threads :
        req[t] # Nil /\ req[t].constrained /\ req[t].pc = "access"
            => req[t].offset + req[t].length <= size

IInv ==
    TypeOK /\ Stages /\ Alone /\ InfoFresh /\ OwnChangesAreCached /\ AppendsAtEnd /\ Clamped

-----------------------------------------------------------------------------
(* Lemmas.                                                                 *)

LEMMA RequestIs ==
    ASSUME TypeOK, NEW t \in Threads, req[t] # Nil
    PROVE  /\ req[t] \in Request
           /\ req[t].handle \in Handles /\ req[t].offset \in Sizes /\ req[t].length \in Lengths
BY DEF TypeOK, Request

LEMMA ZeroIs == 0 \in Lengths
BY BoundAssumption DEF Lengths

LEMMA NewRequestIs ==
    ASSUME NEW op \in {"read", "write", "truncate", "info"}, NEW h \in Handles,
           NEW pc \in {"stat", "access", "refresh", "store"}, NEW offset \in Sizes,
           NEW length \in Lengths, NEW append \in BOOLEAN, NEW constrained \in BOOLEAN
    PROVE  NewRequest(op, h, pc, offset, length, append, constrained) \in Request
BY DEF NewRequest, Request

\* Whoever may change the file finds nobody serving its name.
LEMMA ExclusiveMeans ==
    ASSUME NEW h \in Handles, Exclusive(h), NEW t \in Threads, req[t] # Nil
    PROVE  nodeOf[req[t].handle] # nodeOf[h]
BY DEF Exclusive, Served

LEMMA SharedMeans ==
    ASSUME NEW h \in Handles, Shared(h), NEW t \in Threads, req[t] # Nil,
           nodeOf[req[t].handle] = nodeOf[h]
    PROVE  req[t].op \in {"read", "info"}
BY DEF Shared, Served

\* The bytes a write settles on are some of those it was asked to write, and a
\* constrained one ends within the file.
LEMMA AcceptedIs ==
    ASSUME TypeOK, NEW r \in Request
    PROVE  LET offset == EffectiveOffset(r)
               length == AcceptLength(r, offset)
           IN  /\ offset \in Sizes /\ length \in Lengths
               /\ r.append => offset = size
               /\ r.constrained /\ length # 0 => offset + length <= size
<1> DEFINE offset == EffectiveOffset(r)
           length == AcceptLength(r, offset)
<1>1. r.offset \in 0 .. MaxSize /\ r.length \in 0 .. MaxLength /\ size \in 0 .. MaxSize
      /\ MaxSize \in Nat /\ MaxLength \in Nat
  BY BoundAssumption DEF TypeOK, Request, Sizes, Lengths
<1>2. offset \in 0 .. MaxSize /\ (r.append => offset = size)
  BY <1>1 DEF EffectiveOffset
<1> HIDE DEF offset
<1>3. length \in 0 .. MaxLength /\ (r.constrained /\ length # 0 => offset + length <= size)
  BY <1>1, <1>2 DEF AcceptLength
<1> QED
  BY <1>2, <1>3 DEF Sizes, Lengths, offset

\* pwrite leaves a size within the bound; one that stays within the file, the
\* size it was.
LEMMA GrownIs ==
    ASSUME TypeOK, NEW offset \in Sizes, NEW length \in Lengths, NEW s \in Grown(offset, length)
    PROVE  /\ offset + length <= MaxSize => s \in Sizes
           /\ offset + length <= size => s = size
<1>1. /\ size \in Nat /\ size <= MaxSize /\ offset \in Nat /\ length \in Nat /\ MaxSize \in Nat
  BY BoundAssumption DEF TypeOK, Sizes, Lengths
<1>2. PICK n \in 0 .. length : s = IF n > 0 /\ offset + n > size THEN offset + n ELSE size
  BY DEF Grown
<1> QED
  BY <1>1, <1>2 DEF Sizes

-----------------------------------------------------------------------------
(* The invariant.                                                          *)

LEMMA InitInv == Init => IInv
BY DEF Init, IInv, TypeOK, Stages, Alone, InfoFresh, OwnChangesAreCached, AppendsAtEnd, Clamped

LEMMA StepType == IInv /\ [Next]_vars => TypeOK' /\ Stages'
<1> SUFFICES ASSUME IInv, [Next]_vars PROVE TypeOK' /\ Stages'
  OBVIOUS
<1> USE DEF Continue, Done, Store
<1>0. TypeOK /\ Stages
  BY DEF IInv
<1>1. ASSUME NEW h \in Handles, Open(h) \/ Close(h) PROVE TypeOK' /\ Stages'
  BY <1>0, <1>1 DEF Open, Close, TypeOK, Stages
<1>2. ASSUME NEW t \in Threads, NEW h \in Handles, NEW offset \in Sizes, BeginRead(t, h, offset)
      PROVE  TypeOK' /\ Stages'
  <2> DEFINE r == NewRequest("read", h, "access", offset, 0, FALSE, FALSE)
  <2>1. r \in Request
    BY ZeroIs DEF NewRequest, Request
  <2>2. r.op = "read" /\ r.pc = "access" /\ ~r.append /\ ~r.constrained
    BY DEF NewRequest
  <2> HIDE DEF r
  <2>3. UNCHANGED <<writable, nodeOf, size, cached, changer>> /\ req' = [req EXCEPT ![t] = r]
    BY <1>2 DEF BeginRead, r
  <2> QED
    BY <1>0, <2>1, <2>2, <2>3 DEF TypeOK, Stages
<1>3. ASSUME NEW t \in Threads, NEW h \in Handles, NEW offset \in Sizes, NEW length \in Lengths,
             NEW append \in BOOLEAN, NEW constrained \in BOOLEAN,
             BeginWrite(t, h, offset, length, append, constrained)
      PROVE  TypeOK' /\ Stages'
  <2> DEFINE r == NewRequest("write", h, "stat", offset, length, append, constrained)
  <2>1. r \in Request
    BY NewRequestIs
  <2>2. r.op = "write" /\ r.pc = "stat"
    BY DEF NewRequest
  <2> HIDE DEF r
  <2>3. UNCHANGED <<writable, nodeOf, size, cached, changer>> /\ req' = [req EXCEPT ![t] = r]
    BY <1>3 DEF BeginWrite, r
  <2> QED
    BY <1>0, <2>1, <2>2, <2>3 DEF TypeOK, Stages
<1>4. ASSUME NEW t \in Threads, NEW h \in Handles, NEW new \in Sizes, BeginTruncate(t, h, new)
      PROVE  TypeOK' /\ Stages'
  <2> DEFINE r == NewRequest("truncate", h, "refresh", new, 0, FALSE, FALSE)
  <2>1. r \in Request
    BY ZeroIs DEF NewRequest, Request
  <2>2. r.op = "truncate" /\ r.pc = "refresh" /\ ~r.append /\ ~r.constrained
    BY DEF NewRequest
  <2> HIDE DEF r
  <2>3. UNCHANGED <<writable, nodeOf, cached>> /\ req' = [req EXCEPT ![t] = r] /\ size' = new
        /\ changer' \in {h, changer}
    BY <1>4 DEF BeginTruncate, r
  <2> QED
    BY <1>0, <2>1, <2>2, <2>3 DEF TypeOK, Stages
<1>5. ASSUME NEW t \in Threads, NEW h \in Handles, BeginInfo(t, h) PROVE TypeOK' /\ Stages'
  <2> DEFINE r == NewRequest("info", h, "store", size, 0, FALSE, FALSE)
  <2>1. r \in Request
    BY <1>0, ZeroIs DEF NewRequest, Request, TypeOK
  <2>2. r.op = "info" /\ r.pc = "store" /\ ~r.append /\ ~r.constrained
    BY DEF NewRequest
  <2> HIDE DEF r
  <2>3. UNCHANGED <<writable, nodeOf, size, cached, changer>> /\ req' = [req EXCEPT ![t] = r]
    BY <1>5 DEF BeginInfo, r
  <2> QED
    BY <1>0, <2>1, <2>2, <2>3 DEF TypeOK, Stages
<1>6. ASSUME NEW t \in Threads, FinishRead(t) \/ Fail(t) PROVE TypeOK' /\ Stages'
  BY <1>0, <1>6 DEF FinishRead, Fail, TypeOK, Stages
<1>7. ASSUME NEW t \in Threads, FinishTruncate(t) \/ WriteRefresh(t) \/ FinishInfo(t)
      PROVE  TypeOK' /\ Stages'
  <2>1. req[t] # Nil /\ req[t].handle \in Handles /\ req[t].offset \in Sizes
    BY <1>0, <1>7, RequestIs DEF FinishTruncate, WriteRefresh, FinishInfo
  <2> QED
    BY <1>0, <1>7, <2>1 DEF FinishTruncate, WriteRefresh, FinishInfo, RefreshSize, TypeOK, Stages
<1>8. ASSUME NEW t \in Threads, WriteStat(t) PROVE TypeOK' /\ Stages'
  <2> DEFINE offset == EffectiveOffset(req[t])
             length == AcceptLength(req[t], offset)
             r == [req[t] EXCEPT !.pc = "access", !.offset = offset, !.length = length]
  <2>1. req[t] \in Request /\ req[t].op = "write" /\ offset \in Sizes /\ length \in Lengths
        /\ offset + length <= MaxSize
    BY <1>0, <1>8, RequestIs, AcceptedIs DEF WriteStat
  <2> HIDE DEF offset, length
  <2>2. r \in Request /\ r.op = "write" /\ r.pc = "access" /\ r.offset + r.length <= MaxSize
    BY <2>1 DEF Request
  <2> HIDE DEF r
  <2>3. UNCHANGED <<writable, nodeOf, size, cached, changer>>
        /\ (req' = [req EXCEPT ![t] = r] \/ req' = [req EXCEPT ![t] = Nil])
    BY <1>8 DEF WriteStat, r, offset, length
  <2> QED
    BY <1>0, <2>2, <2>3 DEF TypeOK, Stages
<1>9. ASSUME NEW t \in Threads, Pwrite(t) \/ PwriteFails(t) PROVE TypeOK' /\ Stages'
  <2> DEFINE r == [req[t] EXCEPT !.pc = "refresh"]
  <2>1. req[t] \in Request /\ req[t].op = "write" /\ req[t].handle \in Handles
        /\ size' \in Grown(req[t].offset, req[t].length)
    BY <1>0, <1>9, RequestIs DEF Pwrite, PwriteFails
  <2>2. size' \in Sizes
    BY <1>0, <1>9, <2>1, RequestIs, GrownIs DEF Pwrite, PwriteFails, Stages
  <2>3. r \in Request /\ r.op = "write" /\ r.pc = "refresh"
    BY <2>1 DEF Request
  <2> HIDE DEF r
  <2>4. UNCHANGED <<writable, nodeOf, cached>> /\ changer' \in Handles \cup {Nil}
        /\ (req' = [req EXCEPT ![t] = r] \/ req' = [req EXCEPT ![t] = Nil])
    BY <1>0, <1>9, <2>1 DEF Pwrite, PwriteFails, TypeOK, r
  <2> QED
    BY <1>0, <2>2, <2>3, <2>4 DEF TypeOK, Stages
<1>10. CASE UNCHANGED vars
  BY <1>0, <1>10 DEF vars, TypeOK, Stages
<1> QED
  BY <1>1, <1>2, <1>3, <1>4, <1>5, <1>6, <1>7, <1>8, <1>9, <1>10 DEF Next

\* Nobody begins to change a file whose name is being served, nor is served by
\* the name of one who changes it.
LEMMA StepAlone == IInv /\ [Next]_vars => Alone'
<1> SUFFICES ASSUME IInv, [Next]_vars PROVE Alone'
  OBVIOUS
<1> USE DEF Continue, Done, Store
<1>0. TypeOK /\ Alone /\ nodeOf' = nodeOf
  BY DEF IInv, Next, Open, Close, BeginRead, BeginWrite, BeginTruncate, BeginInfo, FinishRead,
         WriteStat, Pwrite, PwriteFails, WriteRefresh, FinishTruncate, FinishInfo, Fail, vars
<1>1. ASSUME NEW t \in Threads, NEW r, req' = [req EXCEPT ![t] = r],
             \/ r = Nil
             \/ req[t] # Nil /\ r.op = req[t].op /\ r.handle = req[t].handle
             \/ /\ r.handle \in Handles /\ req[t] = Nil
                /\ \/ r.op \in {"write", "truncate"} /\ Exclusive(r.handle)
                   \/ r.op \in {"read", "info"} /\ Shared(r.handle)
      PROVE  Alone'
  <2> SUFFICES ASSUME NEW u \in Threads, NEW v \in Threads, req'[u] # Nil, req'[v] # Nil,
                      nodeOf[req'[u].handle] = nodeOf[req'[v].handle],
                      req'[u].op \in {"write", "truncate"}, u # v
               PROVE  FALSE
    BY <1>0 DEF Alone
  <2>1. \A w \in Threads : req'[w] = IF w = t THEN r ELSE req[w]
    BY <1>0, <1>1 DEF TypeOK
  <2>2. CASE u # t /\ v # t
    BY <1>0, <2>1, <2>2 DEF Alone
  <2>3. CASE req[t] # Nil
    BY <1>0, <1>1, <2>1, <2>3 DEF Alone
  <2>4. CASE u = t /\ req[t] = Nil
    BY <1>1, <2>1, <2>4, ExclusiveMeans
  <2>5. CASE v = t /\ req[t] = Nil
    BY <1>1, <2>1, <2>5, ExclusiveMeans, SharedMeans
  <2> QED
    BY <2>2, <2>3, <2>4, <2>5
<1>2. ASSUME NEW t \in Threads, NEW h \in Handles,
             \/ \E offset \in Sizes : BeginRead(t, h, offset)
             \/ BeginInfo(t, h)
      PROVE  Alone'
  BY <1>1, <1>2 DEF BeginRead, BeginInfo, NewRequest
<1>3. ASSUME NEW t \in Threads, NEW h \in Handles,
             \/ \E offset \in Sizes, length \in Lengths, append, constrained \in BOOLEAN :
                   BeginWrite(t, h, offset, length, append, constrained)
             \/ \E new \in Sizes : BeginTruncate(t, h, new)
      PROVE  Alone'
  BY <1>1, <1>3 DEF BeginWrite, BeginTruncate, NewRequest
<1>4. ASSUME NEW t \in Threads, \/ FinishRead(t) \/ PwriteFails(t) \/ WriteRefresh(t)
                                \/ FinishTruncate(t) \/ FinishInfo(t) \/ Fail(t)
      PROVE  Alone'
  BY <1>1, <1>4 DEF FinishRead, PwriteFails, WriteRefresh, FinishTruncate, FinishInfo, Fail
<1>5. ASSUME NEW t \in Threads, WriteStat(t) \/ Pwrite(t) PROVE Alone'
  <2>1. req[t] # Nil /\ req[t] \in Request
    BY <1>0, <1>5, RequestIs DEF WriteStat, Pwrite
  <2>2. PICK r : /\ req' = [req EXCEPT ![t] = r]
                 /\ r = Nil \/ (r.op = req[t].op /\ r.handle = req[t].handle)
    <3>1. CASE req' = [req EXCEPT ![t] = Nil]
      BY <3>1, Zenon
    <3>2. CASE \E o, l : req' = [req EXCEPT ![t] = [req[t] EXCEPT !.pc = "access", !.offset = o,
                                                                  !.length = l]]
      BY <2>1, <3>2 DEF Request
    <3>3. CASE req' = [req EXCEPT ![t] = [req[t] EXCEPT !.pc = "refresh"]]
      <4>1. [req[t] EXCEPT !.pc = "refresh"].op = req[t].op
            /\ [req[t] EXCEPT !.pc = "refresh"].handle = req[t].handle
        BY <2>1 DEF Request
      <4> QED
        BY <3>3, <4>1, Zenon
    <3> QED
      BY <1>5, <3>1, <3>2, <3>3 DEF WriteStat, Pwrite
  <2> QED
    BY <1>1, <2>1, <2>2
<1>6. ASSUME UNCHANGED req PROVE Alone'
  BY <1>0, <1>6 DEF Alone
<1> QED
  BY <1>2, <1>3, <1>4, <1>5, <1>6 DEF Next, Open, Close, vars

\* While get_file_info is between its stat and its store, nobody changes the
\* file by that name, and whoever does by another name is the changer then.
LEMMA StepInfo == IInv /\ [Next]_vars => InfoFresh'
<1> SUFFICES ASSUME IInv, [Next]_vars PROVE InfoFresh'
  OBVIOUS
<1> USE DEF Continue, Done, Store
<1>0. TypeOK /\ Stages /\ Alone /\ InfoFresh /\ nodeOf' = nodeOf
  BY DEF IInv, Next, Open, Close, BeginRead, BeginWrite, BeginTruncate, BeginInfo, FinishRead,
         WriteStat, Pwrite, PwriteFails, WriteRefresh, FinishTruncate, FinishInfo, Fail, vars
<1> SUFFICES ASSUME NEW u \in Threads, req'[u] # Nil, req'[u].op = "info",
                    changer' = req'[u].handle
             PROVE  req'[u].offset = size'
  BY DEF InfoFresh
<1>1. ASSUME NEW t \in Threads, NEW h \in Handles, BeginInfo(t, h)
      PROVE  req'[u].offset = size'
  <2>1. CASE u = t
    BY <1>0, <1>1, <2>1 DEF BeginInfo, NewRequest, TypeOK
  <2>2. CASE u # t
    BY <1>0, <1>1, <2>2 DEF BeginInfo, InfoFresh, TypeOK
  <2> QED
    BY <2>1, <2>2
<1>2. ASSUME NEW t \in Threads, NEW h \in Handles, NEW new \in Sizes, BeginTruncate(t, h, new)
      PROVE  req'[u].offset = size'
  <2>1. u # t /\ req'[u] = req[u]
    BY <1>0, <1>2 DEF BeginTruncate, NewRequest, TypeOK
  <2>2. req[u].handle # h
    BY <1>2, <2>1, ExclusiveMeans DEF BeginTruncate
  <2> QED
    BY <1>0, <1>2, <2>1, <2>2 DEF BeginTruncate, InfoFresh
<1>3. ASSUME NEW t \in Threads, Pwrite(t) \/ PwriteFails(t) PROVE req'[u].offset = size'
  <2>1. req[t] # Nil /\ req[t] \in Request /\ req[t].op = "write"
    BY <1>0, <1>3, RequestIs DEF Pwrite, PwriteFails
  <2>2. u # t
    <3>1. CASE req' = [req EXCEPT ![t] = Nil]
      BY <1>0, <3>1 DEF TypeOK
    <3>2. CASE req' = [req EXCEPT ![t] = [req[t] EXCEPT !.pc = "refresh"]]
      BY <1>0, <2>1, <3>2 DEF TypeOK, Request
    <3> QED
      BY <1>3, <3>1, <3>2 DEF Pwrite, PwriteFails
  <2>3. req'[u] = req[u]
    BY <1>0, <1>3, <2>2 DEF Pwrite, PwriteFails, TypeOK
  <2>4. req[u].handle # req[t].handle /\ req[u].handle \in Handles
    BY <1>0, <2>1, <2>2, <2>3, RequestIs DEF Alone
  <2>5. size' = size /\ changer' = changer
    BY <1>3, <2>3, <2>4, NilAssumption DEF Pwrite, PwriteFails
  <2> QED
    BY <1>0, <2>3, <2>5 DEF InfoFresh
<1>4. ASSUME NEW t \in Threads, NEW h \in Handles,
             \/ \E offset \in Sizes : BeginRead(t, h, offset)
             \/ \E offset \in Sizes, length \in Lengths, append, constrained \in BOOLEAN :
                   BeginWrite(t, h, offset, length, append, constrained)
      PROVE  req'[u].offset = size'
  <2>1. u # t /\ req'[u] = req[u] /\ size' = size /\ changer' = changer
    BY <1>0, <1>4 DEF BeginRead, BeginWrite, NewRequest, TypeOK
  <2> QED
    BY <1>0, <2>1 DEF InfoFresh
<1>5. ASSUME NEW t \in Threads, \/ FinishRead(t) \/ WriteRefresh(t) \/ FinishTruncate(t)
                                \/ FinishInfo(t) \/ Fail(t)
      PROVE  req'[u].offset = size'
  <2>1. u # t /\ req'[u] = req[u] /\ size' = size /\ changer' \in {changer, Nil}
    BY <1>0, <1>5 DEF FinishRead, WriteRefresh, FinishTruncate, FinishInfo, Fail, TypeOK
  <2>2. req[u].handle \in Handles
    BY <1>0, <2>1, RequestIs
  <2>3. changer' = changer
    BY <2>1, <2>2, NilAssumption
  <2> QED
    BY <1>0, <2>1, <2>3 DEF InfoFresh
<1>6. ASSUME NEW t \in Threads, WriteStat(t) PROVE req'[u].offset = size'
  <2>1. req[t] # Nil /\ req[t] \in Request /\ req[t].op = "write" /\ UNCHANGED <<size, changer>>
    BY <1>0, <1>6, RequestIs DEF WriteStat
  <2>2. u # t
    <3> DEFINE r == [req[t] EXCEPT !.pc = "access", !.offset = EffectiveOffset(req[t]),
                                   !.length = AcceptLength(req[t], EffectiveOffset(req[t]))]
    <3>1. r.op = "write"
      BY <2>1 DEF Request
    <3>2. req' = [req EXCEPT ![t] = Nil] \/ req' = [req EXCEPT ![t] = r]
      BY <1>6 DEF WriteStat
    <3> HIDE DEF r
    <3> QED
      BY <1>0, <3>1, <3>2 DEF TypeOK
  <2>3. req'[u] = req[u]
    BY <1>0, <1>6, <2>2 DEF WriteStat, TypeOK
  <2> QED
    BY <1>0, <2>1, <2>3 DEF InfoFresh
<1>7. ASSUME UNCHANGED <<req, size, changer>> PROVE req'[u].offset = size'
  BY <1>0, <1>7 DEF InfoFresh
<1> QED
  BY <1>1, <1>2, <1>3, <1>4, <1>5, <1>6, <1>7 DEF Next, Open, Close, vars

\* With one name, what write has settled on stands until its pwrite.
LEMMA StepOffsets == IInv /\ [Next]_vars => AppendsAtEnd' /\ Clamped'
<1> SUFFICES ASSUME IInv, [Next]_vars PROVE AppendsAtEnd' /\ Clamped'
  OBVIOUS
<1> USE DEF Continue, Done, Store
<1>0. TypeOK /\ Stages /\ Alone /\ AppendsAtEnd /\ Clamped /\ nodeOf' = nodeOf
  BY DEF IInv, Next, Open, Close, BeginRead, BeginWrite, BeginTruncate, BeginInfo, FinishRead,
         WriteStat, Pwrite, PwriteFails, WriteRefresh, FinishTruncate, FinishInfo, Fail, vars
<1>00. Stages'
  BY StepType
<1> SUFFICES ASSUME OneName, NEW u \in Threads, req'[u] # Nil, req'[u].pc = "access",
                    req'[u].op = "write"
             PROVE  /\ req'[u].append => req'[u].offset = size'
                    /\ req'[u].constrained => req'[u].offset + req'[u].length <= size'
  <2>1. TypeOK'
    BY StepType
  <2>2. \A v \in Threads : req'[v] # Nil /\ (req'[v].append \/ req'[v].constrained)
                              => req'[v].op = "write"
    BY <1>00, <2>1 DEF Stages, TypeOK, Request
  <2>3. OneName' <=> OneName
    BY <1>0 DEF OneName
  <2> QED
    BY <2>2, <2>3 DEF AppendsAtEnd, Clamped
<1> DEFINE Settled == /\ req'[u].append => req'[u].offset = size'
                      /\ req'[u].constrained => req'[u].offset + req'[u].length <= size'
<1>1. ASSUME req'[u] = req[u], size' = size PROVE Settled
  BY <1>0, <1>1 DEF AppendsAtEnd, Clamped
<1>2. ASSUME NEW t \in Threads, NEW h \in Handles,
             \/ \E offset \in Sizes : BeginRead(t, h, offset)
             \/ \E offset \in Sizes, length \in Lengths, append, constrained \in BOOLEAN :
                   BeginWrite(t, h, offset, length, append, constrained)
             \/ BeginInfo(t, h)
      PROVE  Settled
  <2>1. req'[u] = req[u] /\ size' = size
    BY <1>0, <1>2 DEF BeginRead, BeginWrite, BeginInfo, NewRequest, TypeOK
  <2> QED
    BY <1>1, <2>1
<1>3. ASSUME NEW t \in Threads, NEW h \in Handles, NEW new \in Sizes, BeginTruncate(t, h, new)
      PROVE  FALSE
  <2>1. u # t /\ req'[u] = req[u]
    BY <1>0, <1>3 DEF BeginTruncate, NewRequest, TypeOK
  <2>2. nodeOf[req[u].handle] # nodeOf[h] /\ req[u].handle \in Handles
    BY <1>0, <1>3, <2>1, ExclusiveMeans, RequestIs DEF BeginTruncate
  <2> QED
    BY <2>2 DEF OneName
<1>4. ASSUME NEW t \in Threads, Pwrite(t) \/ PwriteFails(t) PROVE FALSE
  <2>1. req[t] # Nil /\ req[t] \in Request /\ req[t].op = "write" /\ req[t].handle \in Handles
    BY <1>0, <1>4, RequestIs DEF Pwrite, PwriteFails
  <2>2. u # t
    <3>1. CASE req' = [req EXCEPT ![t] = Nil]
      BY <1>0, <3>1 DEF TypeOK
    <3>2. CASE req' = [req EXCEPT ![t] = [req[t] EXCEPT !.pc = "refresh"]]
      BY <1>0, <2>1, <3>2 DEF TypeOK, Request
    <3> QED
      BY <1>4, <3>1, <3>2 DEF Pwrite, PwriteFails
  <2>3. req'[u] = req[u]
    BY <1>0, <1>4, <2>2 DEF Pwrite, PwriteFails, TypeOK
  <2>4. req[u].handle \in Handles
    BY <1>0, <2>3, RequestIs
  <2> QED
    BY <1>0, <2>1, <2>2, <2>3, <2>4 DEF Alone, OneName
<1>5. ASSUME NEW t \in Threads, \/ FinishRead(t) \/ WriteRefresh(t) \/ FinishTruncate(t)
                                \/ FinishInfo(t) \/ Fail(t)
      PROVE  Settled
  <2>1. req'[u] = req[u] /\ size' = size
    BY <1>0, <1>5 DEF FinishRead, WriteRefresh, FinishTruncate, FinishInfo, Fail, TypeOK
  <2> QED
    BY <1>1, <2>1
<1>6. ASSUME NEW t \in Threads, WriteStat(t) PROVE Settled
  <2> DEFINE offset == EffectiveOffset(req[t])
             length == AcceptLength(req[t], offset)
  <2>1. req[t] # Nil /\ req[t] \in Request /\ size' = size
    BY <1>0, <1>6, RequestIs DEF WriteStat
  <2>2. CASE u # t
    <3>1. req'[u] = req[u]
      BY <1>0, <1>6, <2>2 DEF WriteStat, TypeOK
    <3> QED
      BY <1>1, <2>1, <3>1
  <2>3. CASE u = t
    <3>1. /\ req[t].append => offset = size
          /\ req[t].constrained /\ length # 0 => offset + length <= size
      BY <1>0, <2>1, AcceptedIs
    <3> HIDE DEF offset, length
    <3>2. length # 0
          /\ req' = [req EXCEPT ![t] = [req[t] EXCEPT !.pc = "access", !.offset = offset,
                                                      !.length = length]]
      <4>1. CASE req' = [req EXCEPT ![t] = Nil]
        BY <1>0, <2>3, <4>1 DEF TypeOK
      <4> QED
        BY <1>6, <4>1 DEF WriteStat, offset, length
    <3>3. req'[u] = [req[t] EXCEPT !.pc = "access", !.offset = offset, !.length = length]
      BY <1>0, <2>3, <3>2 DEF TypeOK
    <3>4. req'[u].offset = offset /\ req'[u].length = length /\ req'[u].append = req[t].append
          /\ req'[u].constrained = req[t].constrained
      BY <2>1, <3>3 DEF Request
    <3> QED
      BY <2>1, <3>1, <3>2, <3>4
  <2> QED
    BY <2>2, <2>3
<1>7. ASSUME UNCHANGED <<req, size>> PROVE Settled
  BY <1>1, <1>7
<1> QED
  BY <1>2, <1>3, <1>4, <1>5, <1>6, <1>7 DEF Next, Open, Close, vars

\* A handle's own change is followed by its own refresh, or by an error.
LEMMA StepCached == IInv /\ [Next]_vars => OwnChangesAreCached'
<1> SUFFICES ASSUME IInv, [Next]_vars PROVE OwnChangesAreCached'
  OBVIOUS
<1> USE DEF Continue, Done, Store
<1>0. TypeOK /\ Stages /\ Alone /\ InfoFresh /\ OwnChangesAreCached /\ nodeOf' = nodeOf
  BY DEF IInv, Next, Open, Close, BeginRead, BeginWrite, BeginTruncate, BeginInfo, FinishRead,
         WriteStat, Pwrite, PwriteFails, WriteRefresh, FinishTruncate, FinishInfo, Fail, vars
<1> SUFFICES ASSUME NEW g \in Handles, changer' = g, cached'[g] # Nil, ~Refreshing(g)'
             PROVE  cached'[g] = size'
  BY DEF OwnChangesAreCached
\* Where nothing but requests before their refresh changes, the handle keeps its size.
<1>1. ASSUME UNCHANGED <<size, cached>>, changer' = changer, ~Refreshing(g)
      PROVE  cached'[g] = size'
  BY <1>0, <1>1 DEF OwnChangesAreCached
<1>2. ASSUME NEW t \in Threads, \A u \in Threads \ {t} : req'[u] = req[u],
             req[t] = Nil \/ req[t].pc # "refresh"
      PROVE  ~Refreshing(g)
  BY <1>2 DEF Refreshing
<1>3. ASSUME NEW h \in Handles, Open(h) \/ Close(h) PROVE cached'[g] = size'
  <2>1. UNCHANGED <<size, req, changer>> /\ ~Refreshing(g)
    BY <1>3 DEF Open, Close, Refreshing
  <2>2. cached'[g] = cached[g] \/ cached'[g] = size
    BY <1>0, <1>3 DEF Open, Close, TypeOK
  <2> QED
    BY <1>0, <2>1, <2>2 DEF OwnChangesAreCached
<1>4. ASSUME NEW t \in Threads, NEW h \in Handles,
             \/ \E offset \in Sizes : BeginRead(t, h, offset)
             \/ \E offset \in Sizes, length \in Lengths, append, constrained \in BOOLEAN :
                   BeginWrite(t, h, offset, length, append, constrained)
             \/ BeginInfo(t, h)
      PROVE  cached'[g] = size'
  <2>1. UNCHANGED <<size, cached, changer>> /\ req[t] = Nil
        /\ \A u \in Threads \ {t} : req'[u] = req[u]
    BY <1>0, <1>4 DEF BeginRead, BeginWrite, BeginInfo, TypeOK
  <2> QED
    BY <1>1, <1>2, <2>1
<1>5. ASSUME NEW t \in Threads, NEW h \in Handles, NEW new \in Sizes, BeginTruncate(t, h, new)
      PROVE  cached'[g] = size'
  <2>1. g # h
    <3>1. req'[t] # Nil /\ req'[t].handle = h /\ req'[t].pc = "refresh"
      <4>1. req'[t] = NewRequest("truncate", h, "refresh", new, 0, FALSE, FALSE)
        BY <1>0, <1>5 DEF BeginTruncate, TypeOK
      <4>2. req'[t] \in Request
        BY <4>1, ZeroIs DEF NewRequest, Request
      <4>3. req'[t].handle = h /\ req'[t].pc = "refresh"
        BY <4>1 DEF NewRequest
      <4> QED
        BY <4>2, <4>3, NilAssumption
    <3> QED
      BY <3>1 DEF Refreshing
  <2>2. size' = size /\ changer' = changer /\ UNCHANGED cached
    BY <1>5, <2>1 DEF BeginTruncate
  <2>3. ~Refreshing(g)
    BY <1>0, <1>2, <1>5 DEF BeginTruncate, TypeOK
  <2> QED
    BY <1>1, <2>2, <2>3
<1>6. ASSUME NEW t \in Threads, Pwrite(t) PROVE cached'[g] = size'
  <2>1. req[t] \in Request /\ req[t].pc = "access" /\ req' = [req EXCEPT ![t] = [req[t] EXCEPT !.pc = "refresh"]]
    BY <1>0, <1>6, RequestIs DEF Pwrite
  <2>2. g # req[t].handle
    <3>1. req'[t] = [req[t] EXCEPT !.pc = "refresh"]
      BY <1>0, <2>1 DEF TypeOK
    <3> QED
      BY <2>1, <3>1, NilAssumption DEF Refreshing, Request
  <2>3. size' = size /\ changer' = changer /\ UNCHANGED cached
    BY <1>6, <2>2 DEF Pwrite
  <2>4. ~Refreshing(g)
    BY <1>0, <1>2, <2>1 DEF TypeOK
  <2> QED
    BY <1>1, <2>3, <2>4
<1>7. ASSUME NEW t \in Threads, PwriteFails(t) PROVE cached'[g] = size'
  <2>1. size' = size /\ changer' = changer /\ UNCHANGED cached
    BY <1>7, NilAssumption DEF PwriteFails
  <2>2. ~Refreshing(g)
    BY <1>0, <1>2, <1>7 DEF PwriteFails, TypeOK
  <2> QED
    BY <1>1, <2>1, <2>2
<1>8. ASSUME NEW t \in Threads, FinishRead(t) \/ WriteStat(t) PROVE cached'[g] = size'
  <2>1. UNCHANGED <<size, cached, changer>> /\ req[t] # Nil /\ req[t].pc # "refresh"
        /\ \A u \in Threads \ {t} : req'[u] = req[u]
    BY <1>0, <1>8 DEF FinishRead, WriteStat, TypeOK, Stages
  <2> QED
    BY <1>1, <1>2, <2>1
<1>9. ASSUME NEW t \in Threads, WriteRefresh(t) \/ FinishTruncate(t) PROVE cached'[g] = size'
  <2>1. /\ size' = size /\ changer' = changer /\ req[t] # Nil
        /\ cached' = [cached EXCEPT ![req[t].handle] = size]
        /\ \A u \in Threads \ {t} : req'[u] = req[u]
    BY <1>0, <1>9 DEF WriteRefresh, FinishTruncate, RefreshSize, TypeOK
  <2>2. CASE g = req[t].handle
    BY <1>0, <2>1, <2>2 DEF TypeOK
  <2>3. CASE g # req[t].handle
    <3>1. ~Refreshing(g) /\ cached'[g] = cached[g]
      BY <1>0, <2>1, <2>3 DEF Refreshing, TypeOK
    <3> QED
      BY <1>0, <2>1, <3>1 DEF OwnChangesAreCached
  <2> QED
    BY <2>2, <2>3
<1>10. ASSUME NEW t \in Threads, FinishInfo(t) PROVE cached'[g] = size'
  <2>1. /\ size' = size /\ changer' = changer /\ req[t] # Nil /\ req[t].op = "info"
        /\ cached' = [cached EXCEPT ![req[t].handle] = req[t].offset]
        /\ \A u \in Threads \ {t} : req'[u] = req[u]
    BY <1>0, <1>10 DEF FinishInfo, TypeOK
  <2>2. CASE g = req[t].handle
    BY <1>0, <2>1, <2>2 DEF TypeOK, InfoFresh
  <2>3. CASE g # req[t].handle
    <3>1. ~Refreshing(g) /\ cached'[g] = cached[g]
      BY <1>0, <2>1, <2>3 DEF Refreshing, TypeOK
    <3> QED
      BY <1>0, <2>1, <3>1 DEF OwnChangesAreCached
  <2> QED
    BY <2>2, <2>3
<1>11. ASSUME NEW t \in Threads, Fail(t) PROVE cached'[g] = size'
  <2>1. /\ UNCHANGED <<size, cached>> /\ changer' = changer
        /\ \A u \in Threads \ {t} : req'[u] = req[u]
        /\ req[t].pc = "refresh" => req[t].handle # g
    BY <1>0, <1>11, NilAssumption DEF Fail, TypeOK
  <2>2. ASSUME NEW u \in Threads, req[u] # Nil, req[u].handle = g, req[u].pc = "refresh"
        PROVE  FALSE
    <3>1. u \in Threads \ {t}
      BY <2>1, <2>2
    <3>2. req'[u] = req[u]
      BY <2>1, <3>1
    <3> QED
      BY <2>2, <3>2 DEF Refreshing
  <2>3. ~Refreshing(g)
    BY <2>2 DEF Refreshing
  <2> QED
    BY <1>1, <2>1, <2>3
<1>12. CASE UNCHANGED vars
  <2>1. ~Refreshing(g)
    BY <1>12 DEF vars, Refreshing
  <2> QED
    BY <1>1, <1>12, <2>1 DEF vars
<1> QED
  BY <1>3, <1>4, <1>5, <1>6, <1>7, <1>8, <1>9, <1>10, <1>11, <1>12 DEF Next

-----------------------------------------------------------------------------
(* Results.                                                                *)

\* IInv is an invariant.
THEOREM Invariance == Spec => []IInv
<1>1. IInv /\ [Next]_vars => IInv'
  BY StepType, StepAlone, StepInfo, StepOffsets, StepCached DEF IInv
<1> QED
  BY InitInv, <1>1, PTL DEF Spec

\* Sizes, offsets and lengths stay numbers of the file's range: the subtraction
\* with which write cuts a constrained request never goes below zero.
THEOREM Typing == Spec => []TypeOK
<1>1. IInv => TypeOK
  BY DEF IInv
<1> QED
  BY Invariance, <1>1, PTL

\* A handle remembers the size its own last change left, through short writes
\* and failures, and whatever happens under other names.
THEOREM OwnSizes == Spec => []OwnChangesAreCached
<1>1. IInv => OwnChangesAreCached
  BY DEF IInv
<1> QED
  BY Invariance, <1>1, PTL

\* By one name, an append is at the end of the file when its bytes go out.
THEOREM Appends == Spec => []AppendsAtEnd
<1>1. IInv => AppendsAtEnd
  BY DEF IInv
<1> QED
  BY Invariance, <1>1, PTL

-----------------------------------------------------------------------------
(* A read-only mount.                                                      *)

\* Only requests that look get past their first check.
OnlyLooking == ~writable => \A t \in Threads : req[t] # Nil => req[t].op \in {"read", "info"}

LEMMA LookingStep ==
    ASSUME TypeOK, [Next]_vars
    PROVE  /\ writable' = writable
           /\ OnlyLooking => OnlyLooking' /\ (~writable => size' = size)
<1> USE DEF Continue, Done, Store
<1>1. writable' = writable
  BY DEF Next, Open, Close, BeginRead, BeginWrite, BeginTruncate, BeginInfo, FinishRead,
         WriteStat, Pwrite, PwriteFails, WriteRefresh, FinishTruncate, FinishInfo, Fail, vars
<1> SUFFICES ASSUME OnlyLooking, ~writable
             PROVE  OnlyLooking' /\ size' = size
  BY <1>1 DEF OnlyLooking
<1>2. \A t \in Threads : req[t] # Nil => req[t].op \in {"read", "info"}
  BY DEF OnlyLooking
<1>3. ASSUME NEW t \in Threads, NEW h \in Handles,
             \/ \E offset \in Sizes, length \in Lengths, append, constrained \in BOOLEAN :
                   BeginWrite(t, h, offset, length, append, constrained)
             \/ \E new \in Sizes : BeginTruncate(t, h, new)
      PROVE  FALSE
  BY <1>3 DEF BeginWrite, BeginTruncate, EnsureWritable
<1>4. ASSUME NEW t \in Threads,
             WriteStat(t) \/ Pwrite(t) \/ PwriteFails(t) \/ WriteRefresh(t) \/ FinishTruncate(t)
      PROVE  FALSE
  <2>1. req[t] # Nil /\ req[t].op \in {"write", "truncate"}
    BY <1>4 DEF WriteStat, Pwrite, PwriteFails, WriteRefresh, FinishTruncate
  <2> QED
    BY <1>2, <2>1
<1>5. ASSUME NEW t \in Threads, NEW h \in Handles,
             \/ \E offset \in Sizes : BeginRead(t, h, offset)
             \/ BeginInfo(t, h)
      PROVE  OnlyLooking' /\ size' = size
  BY <1>2, <1>5 DEF BeginRead, BeginInfo, NewRequest, OnlyLooking, TypeOK
<1>6. ASSUME NEW t \in Threads, FinishRead(t) \/ FinishInfo(t) \/ Fail(t)
      PROVE  OnlyLooking' /\ size' = size
  BY <1>2, <1>6 DEF FinishRead, FinishInfo, Fail, OnlyLooking, TypeOK
<1>7. ASSUME NEW h \in Handles, Open(h) \/ Close(h) PROVE OnlyLooking' /\ size' = size
  BY <1>2, <1>7 DEF Open, Close, OnlyLooking
<1>8. CASE UNCHANGED vars
  BY <1>2, <1>8 DEF vars, OnlyLooking
<1> QED
  BY <1>3, <1>4, <1>5, <1>6, <1>7, <1>8 DEF Next

\* No handler changes the data or the size of a file of a read-only mount, by any
\* open and any name (ensure_writable in write, set_file_size and overwrite).
THEOREM ReadOnlyData == Spec => ReadOnlyFileUntouched
<1>1. Init => OnlyLooking
  BY DEF Init, OnlyLooking
<1>2. TypeOK /\ OnlyLooking /\ [Next]_vars => OnlyLooking'
  BY LookingStep
<1>3. TypeOK /\ OnlyLooking /\ [Next]_vars =>
        [~writable =>
            /\ UNCHANGED size
            /\ \A t \in Threads : req[t] # Nil => req[t].op \in {"read", "info"}]_vars
  BY LookingStep DEF OnlyLooking
<1> QED
  BY <1>1, <1>2, <1>3, Typing, PTL DEF Spec, ReadOnlyFileUntouched

-----------------------------------------------------------------------------
(* FileIO implements AtomicFile.                                           *)

\* Does a request still have its write before it?
ToWrite(t) == req[t] # Nil /\ req[t].op = "write" /\ req[t].pc # "refresh"

LEMMA ShownIs ==
    ASSUME TypeOK, NEW t \in Threads
    PROVE  /\ ~ToWrite(t) => AskedShown[t] = Nil
           /\ ToWrite(t) => /\ AskedShown[t] \in Atomic!Requests
                            /\ AskedShown[t] # Nil
                            /\ req[t].constrained => AskedShown[t] = [kind |-> "constrained"]
                            /\ ~req[t].constrained /\ req[t].append
                                 => AskedShown[t] = [kind |-> "append", length |-> req[t].length]
                            /\ ~req[t].constrained /\ ~req[t].append
                                 => AskedShown[t] = [kind |-> "at", offset |-> req[t].offset,
                                                     length |-> req[t].length]
<1>1. ~ToWrite(t) => AskedShown[t] = Nil
  BY DEF ToWrite, AskedShown
<1>2. ASSUME ToWrite(t)
      PROVE  /\ req[t].constrained => AskedShown[t] = [kind |-> "constrained"]
             /\ ~req[t].constrained /\ req[t].append
                  => AskedShown[t] = [kind |-> "append", length |-> req[t].length]
             /\ ~req[t].constrained /\ ~req[t].append
                  => AskedShown[t] = [kind |-> "at", offset |-> req[t].offset,
                                      length |-> req[t].length]
  BY <1>2 DEF ToWrite, AskedShown
<1>3. ToWrite(t) => req[t].offset \in Sizes /\ req[t].length \in Lengths
  BY RequestIs DEF ToWrite
<1>4. ASSUME ToWrite(t) PROVE AskedShown[t] \in Atomic!Requests
  BY <1>2, <1>3, <1>4 DEF Atomic!Requests
<1> QED
  BY <1>1, <1>2, <1>4, AskedAssumption

\* What a request is asked for is a matter of that request alone.
LEMMA ShownStays ==
    ASSUME NEW t \in Threads, NEW r,
           req \in [Threads -> Request \cup {Nil}], req' = [req EXCEPT ![t] = r]
    PROVE  /\ \A u \in Threads \ {t} : AskedShown'[u] = AskedShown[u]
           /\ r = Nil \/ r.op # "write" \/ r.pc = "refresh" => AskedShown'[t] = Nil
<1>1. req' = [u \in Threads |-> IF u = t THEN r ELSE req[u]]
  OBVIOUS
<1>2. req'[t] = r /\ \A u \in Threads \ {t} : req'[u] = req[u]
  BY <1>1
<1> QED
  BY <1>2 DEF AskedShown

LEMMA AskedIs ==
    /\ DOMAIN AskedShown = Threads /\ DOMAIN AskedShown' = Threads
    /\ AskedShown = [t \in Threads |-> AskedShown[t]]
    /\ AskedShown' = [t \in Threads |-> AskedShown'[t]]
BY DEF AskedShown

\* Steps of a request that has no write before it, before or after.
LEMMA Unseen ==
    ASSUME NEW t \in Threads, NEW r, TypeOK, req' = [req EXCEPT ![t] = r],
           ~ToWrite(t), r = Nil \/ r.op # "write" \/ r.pc = "refresh"
    PROVE  AskedShown' = AskedShown
<1>1. \A u \in Threads \ {t} : AskedShown'[u] = AskedShown[u]
  BY ShownStays DEF TypeOK
<1>2. AskedShown'[t] = Nil
  BY ShownStays DEF TypeOK
<1>3. AskedShown[t] = Nil
  BY ShownIs
<1>4. \A u \in Threads : AskedShown'[u] = AskedShown[u]
  BY <1>1, <1>2, <1>3
<1> QED
  BY <1>4, AskedIs

\* A write that is done with, whatever became of the size.
LEMMA Written ==
    ASSUME NEW t \in Threads, NEW r, TypeOK, req' = [req EXCEPT ![t] = r],
           ToWrite(t), r = Nil \/ r.op # "write" \/ r.pc = "refresh",
           req[t].constrained => size' = size,
           ~req[t].constrained /\ req[t].append => \E n \in 0 .. req[t].length : size' = size + n,
           ~req[t].constrained /\ ~req[t].append =>
              size' = size \/ \E n \in 1 .. req[t].length : size' = req[t].offset + n /\ size' > size
    PROVE  Atomic!Write(t)
<1>1. \A u \in Threads \ {t} : AskedShown'[u] = AskedShown[u]
  BY ShownStays DEF TypeOK
<1>2. AskedShown'[t] = Nil
  BY ShownStays DEF TypeOK
<1>3. AskedShown' = [AskedShown EXCEPT ![t] = Nil]
  <2>1. \A u \in Threads : AskedShown'[u] = [AskedShown EXCEPT ![t] = Nil][u]
    BY <1>1, <1>2, AskedIs
  <2> QED
    BY <2>1, AskedIs
<1>4. AskedShown[t] # Nil
  BY ShownIs
<1>5. CASE req[t].constrained
  <2>1. AskedShown[t] = [kind |-> "constrained"]
    BY <1>5, ShownIs
  <2> QED
    BY <1>3, <1>4, <1>5, <2>1 DEF Atomic!Write
<1>6. CASE ~req[t].constrained /\ req[t].append
  <2>1. AskedShown[t] = [kind |-> "append", length |-> req[t].length]
    BY <1>6, ShownIs
  <2> QED
    BY <1>3, <1>4, <1>6, <2>1 DEF Atomic!Write
<1>7. CASE ~req[t].constrained /\ ~req[t].append
  <2>1. AskedShown[t] = [kind |-> "at", offset |-> req[t].offset, length |-> req[t].length]
    BY <1>7, ShownIs
  <2> QED
    BY <1>3, <1>4, <1>7, <2>1 DEF Atomic!Write
<1> QED
  BY <1>5, <1>6, <1>7

\* A write that is done with and has put nothing out.
LEMMA WrittenNothing ==
    ASSUME NEW t \in Threads, NEW r, TypeOK, req' = [req EXCEPT ![t] = r],
           ToWrite(t), r = Nil \/ r.op # "write" \/ r.pc = "refresh", size' = size
    PROVE  Atomic!Write(t)
<1>1. 0 \in 0 .. req[t].length /\ size = size + 0
  <2>1. req[t].length \in 0 .. MaxLength /\ size \in 0 .. MaxSize
        /\ MaxLength \in Nat /\ MaxSize \in Nat
    BY RequestIs, BoundAssumption DEF ToWrite, Lengths, Sizes, TypeOK
  <2> QED
    BY <2>1
<1> QED
  BY <1>1, Written

\* The bytes of a write go out where it has looked the end up.
LEMMA PwriteIsAtomic ==
    ASSUME NEW t \in Threads, NEW r, IInv, OneName, req' = [req EXCEPT ![t] = r],
           req[t] # Nil, req[t].op = "write", req[t].pc = "access",
           r = Nil \/ r.op # "write" \/ r.pc = "refresh",
           size' \in Grown(req[t].offset, req[t].length)
    PROVE  Atomic!Write(t)
<1>0. TypeOK /\ AppendsAtEnd /\ Clamped
  BY DEF IInv
<1>1. ToWrite(t)
  BY DEF ToWrite
<1>2. /\ req[t].offset \in Sizes /\ req[t].length \in Lengths
      /\ req[t].offset \in Nat /\ req[t].length \in Nat /\ size \in Nat
  BY <1>0, RequestIs, BoundAssumption DEF Sizes, Lengths, TypeOK
<1>3. PICK n \in 0 .. req[t].length :
         size' = IF n > 0 /\ req[t].offset + n > size THEN req[t].offset + n ELSE size
  BY DEF Grown
<1>4. ASSUME req[t].constrained PROVE size' = size
  <2>1. req[t].offset + req[t].length <= size
    BY <1>0, <1>4 DEF Clamped
  <2> QED
    BY <1>2, <1>3, <2>1
<1>5. ASSUME req[t].append PROVE \E m \in 0 .. req[t].length : size' = size + m
  <2>1. req[t].offset = size
    BY <1>0, <1>5 DEF AppendsAtEnd
  <2>2. size' = size + n
    BY <1>2, <1>3, <2>1
  <2> QED
    BY <2>2
<1>6. size' = size \/ \E m \in 1 .. req[t].length : size' = req[t].offset + m /\ size' > size
  <2>1. CASE n > 0 /\ req[t].offset + n > size
    <3>1. n \in 1 .. req[t].length /\ size' = req[t].offset + n /\ size' > size
      BY <1>2, <1>3, <2>1
    <3> QED
      BY <3>1
  <2>2. CASE ~(n > 0 /\ req[t].offset + n > size)
    BY <1>3, <2>2
  <2> QED
    BY <2>1, <2>2
<1> QED
  BY <1>0, <1>1, <1>4, <1>5, <1>6, Written

LEMMA InitImplements == Init => Atomic!Init
<1> SUFFICES ASSUME Init PROVE Atomic!Init
  OBVIOUS
<1>1. AskedShown = [t \in Threads |-> Nil]
  BY DEF Init, AskedShown
<1> QED
  BY <1>1 DEF Init, Atomic!Init

\* Every step under one name is one of the atomic file, or none.
LEMMA StepImplements ==
    ASSUME IInv, [Next]_vars, OneName
    PROVE  Atomic!Next \/ UNCHANGED Atomic!vars
<1> USE DEF Continue, Done, Store
<1>0. TypeOK /\ Stages
  BY DEF IInv
<1>1. ASSUME UNCHANGED req, UNCHANGED size PROVE UNCHANGED Atomic!vars
  BY <1>1 DEF AskedShown, Atomic!vars
<1>2. ASSUME NEW h \in Handles, Open(h) \/ Close(h) PROVE UNCHANGED Atomic!vars
  BY <1>1, <1>2 DEF Open, Close
<1>3. ASSUME NEW t \in Threads, NEW h \in Handles,
             \/ \E offset \in Sizes : BeginRead(t, h, offset)
             \/ BeginInfo(t, h)
      PROVE  UNCHANGED Atomic!vars
  <2>1. ~ToWrite(t) /\ UNCHANGED size
    BY <1>3 DEF BeginRead, BeginInfo, ToWrite
  <2>2. PICK op \in {"read", "info"}, pc \in {"access", "store"}, offset \in Sizes :
           req' = [req EXCEPT ![t] = NewRequest(op, h, pc, offset, 0, FALSE, FALSE)]
    BY <1>0, <1>3 DEF BeginRead, BeginInfo, TypeOK
  <2>3. NewRequest(op, h, pc, offset, 0, FALSE, FALSE).op # "write"
    BY DEF NewRequest
  <2>4. AskedShown' = AskedShown
    BY <1>0, <2>1, <2>2, <2>3, Unseen
  <2> QED
    BY <2>1, <2>4 DEF Atomic!vars
<1>4. ASSUME NEW t \in Threads, NEW h \in Handles, NEW offset \in Sizes, NEW length \in Lengths,
             NEW append \in BOOLEAN, NEW constrained \in BOOLEAN,
             BeginWrite(t, h, offset, length, append, constrained)
      PROVE  Atomic!Ask(t)
  <2> DEFINE r == NewRequest("write", h, "stat", offset, length, append, constrained)
  <2>1. req[t] = Nil /\ req' = [req EXCEPT ![t] = r] /\ UNCHANGED size
    BY <1>4 DEF BeginWrite
  <2>2. r \in Request /\ r.op = "write" /\ r.pc = "stat"
    BY NewRequestIs DEF NewRequest
  <2> HIDE DEF r
  <2>3. AskedShown[t] = Nil
    BY <2>1 DEF AskedShown
  <2>4. TypeOK'
    BY StepType
  <2>5. req'[t] = r /\ r # Nil
    BY <1>0, <2>1, <2>2, NilAssumption DEF TypeOK
  <2>6. AskedShown'[t] \in Atomic!Requests
    <3>1. ToWrite(t)'
      BY <2>2, <2>5 DEF ToWrite
    <3>2. /\ req'[t].offset \in Sizes /\ req'[t].length \in Lengths
      BY <2>2, <2>5 DEF Request
    <3>3. \/ AskedShown'[t] = [kind |-> "constrained"]
          \/ AskedShown'[t] = [kind |-> "append", length |-> req'[t].length]
          \/ AskedShown'[t] = [kind |-> "at", offset |-> req'[t].offset,
                               length |-> req'[t].length]
      BY <3>1 DEF AskedShown, ToWrite
    <3> QED
      BY <3>2, <3>3 DEF Atomic!Requests
  <2>7. AskedShown' = [AskedShown EXCEPT ![t] = AskedShown'[t]]
    <3>1. \A u \in Threads \ {t} : AskedShown'[u] = AskedShown[u]
      BY <1>0, <2>1, ShownStays DEF TypeOK
    <3>2. \A u \in Threads : AskedShown'[u] = [AskedShown EXCEPT ![t] = AskedShown'[t]][u]
      BY <3>1, AskedIs
    <3> QED
      BY <3>2, AskedIs
  <2> QED
    BY <2>1, <2>3, <2>6, <2>7 DEF Atomic!Ask
<1>5. ASSUME NEW t \in Threads, NEW h \in Handles, NEW new \in Sizes, BeginTruncate(t, h, new)
      PROVE  Atomic!Truncate
  <2> DEFINE r == NewRequest("truncate", h, "refresh", new, 0, FALSE, FALSE)
  <2>1. ~ToWrite(t) /\ size' = new /\ req' = [req EXCEPT ![t] = r] /\ r.op # "write"
    BY <1>5 DEF BeginTruncate, ToWrite, NewRequest
  <2> HIDE DEF r
  <2>2. AskedShown' = AskedShown
    BY <1>0, <2>1, Unseen
  <2> QED
    BY <2>1, <2>2 DEF Atomic!Truncate
<1>6. ASSUME NEW t \in Threads,
             FinishRead(t) \/ WriteRefresh(t) \/ FinishTruncate(t) \/ FinishInfo(t)
      PROVE  UNCHANGED Atomic!vars
  <2>1. ~ToWrite(t) /\ UNCHANGED size /\ req' = [req EXCEPT ![t] = Nil]
    BY <1>6 DEF FinishRead, WriteRefresh, FinishTruncate, FinishInfo, ToWrite
  <2>2. AskedShown' = AskedShown
    BY <1>0, <2>1, Unseen
  <2> QED
    BY <2>1, <2>2 DEF Atomic!vars
<1>7. ASSUME NEW t \in Threads, WriteStat(t)
      PROVE  Atomic!Write(t) \/ UNCHANGED Atomic!vars
  <2> DEFINE r == req[t]
             offset == EffectiveOffset(r)
             length == AcceptLength(r, offset)
             s == [r EXCEPT !.pc = "access", !.offset = offset, !.length = length]
  <2>1. /\ r # Nil /\ r.op = "write" /\ r.pc = "stat" /\ UNCHANGED size
        /\ \/ req' = [req EXCEPT ![t] = Nil]
           \/ req' = [req EXCEPT ![t] = s]
    BY <1>7 DEF WriteStat
  <2>2. ToWrite(t) /\ r \in Request
    BY <1>0, <2>1, RequestIs DEF ToWrite
  <2>3. CASE req' = [req EXCEPT ![t] = Nil]
    BY <1>0, <2>1, <2>2, <2>3, WrittenNothing
  <2>4. CASE req' = [req EXCEPT ![t] = s]
    <3>1. /\ s.op = "write" /\ s.pc = "access" /\ s.offset = offset /\ s.length = length
          /\ s.append = r.append /\ s.constrained = r.constrained
          /\ s \in Request
      <4>1. offset \in Sizes /\ length \in Lengths
        BY <1>0, <2>2, AcceptedIs
      <4> HIDE DEF offset, length
      <4> QED
        BY <2>1, <2>2, <4>1 DEF Request
    <3>2. /\ ~r.append => offset = r.offset
          /\ ~r.constrained => length = r.length
      BY DEF EffectiveOffset, AcceptLength
    <3> HIDE DEF s, offset, length
    <3>3. req'[t] = s /\ s # Nil
      BY <1>0, <2>4, <3>1, NilAssumption DEF TypeOK
    <3>4. AskedShown'[t] = AskedShown[t]
      <4>1. CASE r.constrained
        BY <2>1, <3>1, <3>3, <4>1 DEF AskedShown
      <4>2. CASE ~r.constrained /\ r.append
        BY <2>1, <3>1, <3>2, <3>3, <4>2 DEF AskedShown
      <4>3. CASE ~r.constrained /\ ~r.append
        BY <2>1, <3>1, <3>2, <3>3, <4>3 DEF AskedShown
      <4> QED
        BY <4>1, <4>2, <4>3
    <3>5. AskedShown' = AskedShown
      <4>1. \A u \in Threads \ {t} : AskedShown'[u] = AskedShown[u]
        BY <1>0, <2>4, ShownStays DEF TypeOK
      <4>2. \A u \in Threads : AskedShown'[u] = AskedShown[u]
        BY <3>4, <4>1
      <4> QED
        BY <4>2, AskedIs
    <3> QED
      BY <2>1, <3>5 DEF Atomic!vars
  <2> QED
    BY <2>1, <2>3, <2>4
<1>8. ASSUME NEW t \in Threads, Pwrite(t) PROVE Atomic!Write(t)
  <2> DEFINE s == [req[t] EXCEPT !.pc = "refresh"]
  <2>1. /\ req[t] # Nil /\ req[t].op = "write" /\ req[t].pc = "access"
        /\ size' \in Grown(req[t].offset, req[t].length)
        /\ req' = [req EXCEPT ![t] = s]
    BY <1>8 DEF Pwrite
  <2>2. s.pc = "refresh"
    BY <1>0, <2>1, RequestIs DEF Request
  <2> HIDE DEF s
  <2> QED
    BY <2>1, <2>2, PwriteIsAtomic
<1>9. ASSUME NEW t \in Threads, PwriteFails(t) PROVE Atomic!Write(t)
  <2>1. /\ req[t] # Nil /\ req[t].op = "write" /\ req[t].pc = "access"
        /\ size' \in Grown(req[t].offset, req[t].length)
        /\ req' = [req EXCEPT ![t] = Nil]
    BY <1>9 DEF PwriteFails
  <2> QED
    BY <2>1, PwriteIsAtomic
<1>10. ASSUME NEW t \in Threads, Fail(t)
       PROVE  Atomic!Write(t) \/ UNCHANGED Atomic!vars
  <2>1. req' = [req EXCEPT ![t] = Nil] /\ UNCHANGED size
    BY <1>10 DEF Fail
  <2>2. CASE ToWrite(t)
    BY <1>0, <2>1, <2>2, WrittenNothing
  <2>3. CASE ~ToWrite(t)
    <3>1. AskedShown' = AskedShown
      BY <1>0, <2>1, <2>3, Unseen
    <3> QED
      BY <2>1, <3>1 DEF Atomic!vars
  <2> QED
    BY <2>2, <2>3
<1>11. CASE UNCHANGED vars
  BY <1>1, <1>11 DEF vars
<1> QED
  BY <1>2, <1>3, <1>4, <1>5, <1>6, <1>7, <1>8, <1>9, <1>10, <1>11 DEF Next, Atomic!Next

\* By one name, the calls of a write are one atomic write: an append adds to the
\* end of the file, and a constrained write leaves the size alone, also when they
\* are short or fail.
THEOREM AtomicImplemented == Spec => ImplementsAtomic
<1>1. IInv /\ [Next]_vars => [OneName => Atomic!Next]_(Atomic!vars)
  BY StepImplements
<1> QED
  BY Invariance, InitImplements, <1>1, PTL DEF Spec, ImplementsAtomic
=============================================================================
