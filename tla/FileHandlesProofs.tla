-------------------------- MODULE FileHandlesProofs --------------------------
(***************************************************************************)
(* What FileHandles promises, for every volume and any number of threads   *)
(* and handles.                                                            *)
(***************************************************************************)
EXTENDS FileHandles, TLAPS

-----------------------------------------------------------------------------
(* Types.  That driver and kernel agree on what is open is part of it: a   *)
(* rename's old name is the kernel's name of the open.                     *)

TypeInv == TypeOK /\ OpenWhileServed

USE DEF mount, volume

\* A request built from an open context is a request.
LEMMA IORequestType ==
    ASSUME TypeOK, NEW h \in Handles, ctx[h] # Nil, NEW op \in {"read", "write"}
    PROVE  IORequest(h, op) \in Request
BY DEF TypeOK, IORequest, Request, FileContext

\* A handle whose file node is free is served by no thread, nor is any other
\* handle of that node.
LEMMA FreeIsIdle ==
    ASSUME NEW h \in Handles, NodeFree(h)
    PROVE  \A t \in Threads : req[t] # Nil =>
             /\ req[t].handle # h
             /\ req[t].handle \in Handles /\ node[h] # Nil =>
                   node[req[t].handle] # node[h]
BY DEF NodeFree, Mates, Busy

\* Every handler of mount.rs keeps the state well typed.
LEMMA TypeStep == TypeInv /\ [Next]_vars => TypeInv'
<1> SUFFICES ASSUME TypeInv, [Next]_vars PROVE TypeInv'
  OBVIOUS
<1> USE NilAssumption, LinksAssumption
<1>1. ASSUME NEW h \in Handles, NEW n \in Names, NEW b \in BOOLEAN, Open(h, n, b)
      PROVE  TypeInv'
  <2>1. PICK m \in Names :
          /\ dirent[m] # Nil
          /\ ctx' = [ctx EXCEPT ![h] = [inode |-> dirent[m], unix_path |-> m,
                                        is_dir |-> dirent[m] \in isdir]]
    BY <1>1 DEF Open, Resolves
  <2>2. [inode |-> dirent[m], unix_path |-> m, is_dir |-> dirent[m] \in isdir]
          \in FileContext
    BY <2>1 DEF TypeInv, TypeOK, FileContext
  <2>3. TypeOK'
    BY <1>1, <2>1, <2>2 DEF Open, TypeInv, TypeOK
  <2> QED
    BY <1>1, <2>1, <2>2, <2>3 DEF Open, TypeInv, TypeOK, OpenWhileServed
<1>2. ASSUME NEW h \in Handles, NEW n \in Names, NEW dir \in BOOLEAN,
             NEW ok \in BOOLEAN, Create(h, n, dir, ok)
      PROVE  TypeInv'
  <2>1. PICK f \in unborn \ Links :
          /\ dirent' = [dirent EXCEPT ![n] = f]
          /\ isdir' = IF dir THEN isdir \cup {f} ELSE isdir \ {f}
          /\ unborn' = unborn \ {f}
          /\ IF ok
               THEN /\ ctx' = [ctx EXCEPT ![h] = [inode |-> f, unix_path |-> n,
                                                  is_dir |-> dir]]
                    /\ node' = [node EXCEPT ![h] = n]
               ELSE UNCHANGED <<ctx, node>>
    BY <1>2 DEF Create
  <2>2. [inode |-> f, unix_path |-> n, is_dir |-> dir] \in FileContext
    BY DEF TypeInv, TypeOK, FileContext
  <2>3. f \in Files \ Links
    BY <2>1 DEF TypeInv, TypeOK
  <2>4. /\ dirent' \in [Names -> Files \cup {Nil}]
        /\ isdir' \subseteq Files \ Links
        /\ unborn' \subseteq Files
    BY <2>1, <2>3 DEF TypeInv, TypeOK
  <2>5. /\ ctx' \in [Handles -> FileContext \cup {Nil}]
        /\ node' \in [Handles -> Names \cup {Nil}]
        /\ OpenWhileServed'
    <3>1. req' = req /\ cleaned' = cleaned /\ ctx[h] = Nil
      BY <1>2 DEF Create
    <3>2. h \notin cleaned /\ \A t \in Threads : req[t] # Nil => req[t].handle # h
      BY <3>1 DEF TypeInv, OpenWhileServed
    <3>3. ASSUME ok
          PROVE  /\ ctx' \in [Handles -> FileContext \cup {Nil}]
                 /\ node' \in [Handles -> Names \cup {Nil}]
                 /\ ctx'[h] # Nil /\ node'[h] # Nil
                 /\ \A g \in Handles \ {h} : ctx'[g] = ctx[g] /\ node'[g] = node[g]
      BY <2>1, <2>2, <3>3 DEF TypeInv, TypeOK
    <3>4. CASE ok
      BY <3>1, <3>2, <3>3, <3>4 DEF TypeInv, TypeOK, OpenWhileServed, Request
    <3>5. CASE ~ok
      <4>1. UNCHANGED <<ctx, node, cleaned, req>>
        BY <2>1, <3>1, <3>5
      <4> QED
        BY <4>1 DEF TypeInv, TypeOK, OpenWhileServed
    <3> QED
      BY <3>4, <3>5
  <2> QED
    BY <1>2, <2>4, <2>5 DEF Create, TypeInv, TypeOK
<1>3. ASSUME NEW h \in Handles, NEW b \in BOOLEAN, SetDelete(h, b)
      PROVE  TypeInv'
  BY <1>3 DEF SetDelete, TypeInv, TypeOK, OpenWhileServed
<1>4. ASSUME NEW h \in Handles, NEW b \in BOOLEAN, Cleanup(h, b)
      PROVE  TypeInv'
  <2>1. /\ ctx[h] # Nil /\ cleaned' = cleaned \cup {h} /\ pending' \subseteq pending
        /\ UNCHANGED <<writable, sharing, isdir, unborn, ctx, req>>
    BY <1>4 DEF Cleanup
  <2>2. /\ node' \in [Handles -> Names \cup {Nil}]
        /\ \A g \in Handles : node'[g] # Nil => node'[g] = node[g]
    BY <1>4 DEF Cleanup, TypeInv, TypeOK
  <2>3. \A g \in Handles : node'[g] = node[g] \/ node[g] = node[h]
    BY <1>4 DEF Cleanup, TypeInv, TypeOK
  <2>4. node' # node => Opens(node[h]) = {h}
    BY <1>4 DEF Cleanup
  <2>5. dirent' \in [Names -> Files \cup {Nil}]
    BY <1>4 DEF Cleanup, TypeInv, TypeOK
  <2>6. \A t \in Threads : req[t] # Nil => req[t].handle # h
    BY <1>4, FreeIsIdle DEF Cleanup
  <2>7. \A g \in Handles : node'[g] # node[g] => g \in cleaned'
    BY <2>1, <2>2, <2>3, <2>4 DEF Opens
  <2>8. TypeOK'
    BY <2>1, <2>2, <2>5 DEF TypeInv, TypeOK
  <2>9. OpenWhileServed'
    BY <2>1, <2>2, <2>6, <2>7 DEF TypeInv, TypeOK, OpenWhileServed
  <2> QED
    BY <2>8, <2>9 DEF TypeInv
<1>11. ASSUME NEW h \in Handles, Close(h)
       PROVE  TypeInv'
  <2>1. \A t \in Threads : req[t] # Nil => req[t].handle # h
    BY <1>11 DEF Close, Busy
  <2> QED
    BY <1>11, <2>1 DEF Close, TypeInv, TypeOK, OpenWhileServed, Request
<1>5. ASSUME NEW t \in Threads, NEW h \in Handles, NEW op \in {"read", "write"},
             BeginIO(t, h, op)
      PROVE  TypeInv'
  <2>1. IORequest(h, op) \in Request /\ IORequest(h, op).handle = h
    BY <1>5, IORequestType DEF BeginIO, TypeInv, IORequest
  <2>2. IORequest(h, op).op = op
    BY DEF IORequest
  <2>3. /\ req' = [req EXCEPT ![t] = IORequest(h, op)] /\ ctx[h] # Nil
        /\ UNCHANGED <<writable, sharing, dirent, isdir, unborn, ctx, node, cleaned,
                        pending>>
    BY <1>5 DEF BeginIO
  <2>4. TypeOK'
    BY <2>1, <2>3 DEF TypeInv, TypeOK
  <2>5. ASSUME NEW u \in Threads, req'[u] # Nil
        PROVE  /\ ctx[req'[u].handle] # Nil
               /\ req'[u].op = "rename" => req'[u].handle \notin cleaned
    BY <2>1, <2>2, <2>3, <2>5 DEF TypeInv, TypeOK, OpenWhileServed
  <2> QED
    BY <2>3, <2>4, <2>5 DEF TypeInv, OpenWhileServed
<1>6. ASSUME NEW t \in Threads, NEW h \in Handles, NEW n \in Names,
             NEW b \in BOOLEAN, BeginRename(t, h, n, b)
      PROVE  TypeInv'
  <2>1. node[h] \in Names
    BY <1>6 DEF BeginRename, TypeInv, TypeOK, OpenWhileServed
  <2> DEFINE r == [op |-> "rename", handle |-> h, pc |-> "rename2",
                   path |-> node[h], dst |-> n, replace |-> b]
  <2>2. r \in Request /\ r.handle = h
    BY <2>1 DEF Request
  <2>3. req' = [req EXCEPT ![t] = r] /\ ctx[h] # Nil
    BY <1>6 DEF BeginRename
  <2> HIDE DEF r
  <2> QED
    BY <1>6, <2>2, <2>3 DEF BeginRename, TypeInv, TypeOK, OpenWhileServed
<1>7. ASSUME NEW t \in Threads,
             IOStat(t) \/ IOAccess(t) \/ IORefresh(t) \/ Fail(t)
      PROVE  TypeInv'
  BY <1>7 DEF IOStat, IOAccess, IORefresh, Fail, Advance, Reply, TypeInv, TypeOK,
              OpenWhileServed, Request
<1>8. ASSUME NEW t \in Threads, Rename2(t)
      PROVE  TypeInv'
  BY <1>8 DEF Rename2, Advance, TypeInv, TypeOK, OpenWhileServed, Request
<1>9. ASSUME NEW t \in Threads, FinishRename(t)
      PROVE  TypeInv'
  <2>1. ctx[req[t].handle] \in FileContext /\ req[t] \in Request
    BY <1>9 DEF FinishRename, UpdatesPath, TypeInv, TypeOK, OpenWhileServed, Request
  <2>2. [ctx[req[t].handle] EXCEPT !.unix_path = req[t].dst] \in FileContext
    BY <2>1 DEF FileContext, Request
  <2>3. TypeOK'
    BY <1>9, <2>1, <2>2 DEF FinishRename, UpdatesPath, Reply, TypeInv, TypeOK, Request
  <2>4. OpenWhileServed'
    BY <1>9, <2>1, <2>2 DEF FinishRename, UpdatesPath, Reply, TypeInv, TypeOK, OpenWhileServed,
                            Request
  <2> QED
    BY <2>3, <2>4 DEF TypeInv
<1>10. CASE UNCHANGED vars
  BY <1>10 DEF vars, TypeInv, TypeOK, OpenWhileServed
<1> QED
  BY <1>1, <1>2, <1>3, <1>4, <1>5, <1>6, <1>7, <1>8, <1>9, <1>10, <1>11 DEF Next

\* The file contexts, requests and directory entries of mount.rs are always
\* well formed.
THEOREM TypeCorrect == Spec => []TypeOK
<1>1. Init => TypeInv
  BY LinksAssumption, DirsAssumption, VolumesAssumption
     DEF Init, TypeInv, TypeOK, OpenWhileServed
<1>2. TypeInv => TypeOK
  BY DEF TypeInv
<1> QED
  BY <1>1, <1>2, TypeStep, PTL DEF Spec

-----------------------------------------------------------------------------
(* A read-only mount.                                                      *)

NoChangeReadOnly ==
    ~writable => \A t \in Threads : req[t] # Nil =>
        req[t].pc # "rename2" /\ req[t].op # "write"

\* No handler of a read-only mount that gets past its check changes anything.
LEMMA NoChangeStep ==
    TypeInv /\ NoChangeReadOnly /\ [Next]_vars => NoChangeReadOnly'
<1> SUFFICES ASSUME TypeInv, NoChangeReadOnly, [Next]_vars PROVE NoChangeReadOnly'
  OBVIOUS
<1>1. ASSUME NEW t \in Threads, NEW h \in Handles, NEW op \in {"read", "write"},
             BeginIO(t, h, op)
      PROVE  NoChangeReadOnly'
  BY <1>1 DEF BeginIO, EnsureWritable, IORequest, NoChangeReadOnly, TypeInv, TypeOK
<1>2. ASSUME NEW t \in Threads, NEW h \in Handles, NEW n \in Names,
             NEW b \in BOOLEAN, BeginRename(t, h, n, b)
      PROVE  NoChangeReadOnly'
  BY <1>2 DEF BeginRename, EnsureWritable, NoChangeReadOnly
<1>3. ASSUME NEW t \in Threads,
             \/ IOStat(t) \/ IOAccess(t) \/ IORefresh(t) \/ Fail(t)
             \/ Rename2(t) \/ FinishRename(t)
      PROVE  NoChangeReadOnly'
  BY <1>3 DEF IOStat, IOAccess, IORefresh, Fail, Rename2, FinishRename, Advance,
              Reply, NoChangeReadOnly, TypeInv, TypeOK, Request
<1>4. CASE UNCHANGED <<writable, req>>
  BY <1>4 DEF NoChangeReadOnly
<1> QED
  BY <1>1, <1>2, <1>3, <1>4
     DEF Next, vars, Open, Create, SetDelete, Cleanup, Close

\* A volume mounted read-only keeps its names, files and data, whatever
\* requests arrive: ensure_writable guards every handler that changes them.
THEOREM ReadOnly == Spec => ReadOnlyVolumeUnchanged
<1>1. Init => TypeInv /\ NoChangeReadOnly
  BY LinksAssumption, DirsAssumption, VolumesAssumption
     DEF Init, TypeInv, TypeOK, OpenWhileServed, NoChangeReadOnly
<1>2. NoChangeReadOnly /\ [Next]_vars =>
        [~writable => UNCHANGED volume /\ \A t \in Threads : ~Wrote(t)]_vars
  <2>1. NoChangeReadOnly /\ ~writable => \A t \in Threads : ~Wrote(t)
    BY DEF NoChangeReadOnly, Wrote
  <2>2. NoChangeReadOnly /\ [Next]_vars /\ ~writable => UNCHANGED volume
    BY DEF NoChangeReadOnly, Next, vars, Open, Create, SetDelete, Cleanup, Close,
           BeginIO, BeginRename, IOStat, IOAccess, IORefresh, Fail, Rename2,
           FinishRename, EnsureWritable, Unlinks
  <2> QED
    BY <2>1, <2>2
<1> QED
  BY <1>1, <1>2, TypeStep, NoChangeStep, PTL DEF Spec, ReadOnlyVolumeUnchanged

-----------------------------------------------------------------------------
(* Paths reach the files they were opened for.                             *)

Addressing == OneName /\ FileAtName /\ RenameAlone /\ MovedIsThere

\* No name leads to a symlink.
PlainNames == \A n \in Names : ~IsLink(n)

\* What holds throughout of a mount without aliases.
Unaliased == NoAliases => PlainNames /\ Addressing

\* The driver makes no symlinks and no opener changes its mind about sharing.
LEMMA AliasesConstant == [Next]_vars => (NoAliases' <=> NoAliases)
<1>1. [Next]_vars => sharing' = sharing /\ Links \cap unborn' = Links \cap unborn
  BY DEF Next, vars, Open, Create, SetDelete, Cleanup, Close, BeginIO, BeginRename,
         IOStat, IOAccess, IORefresh, Fail, Rename2, FinishRename
<1> QED
  BY <1>1 DEF NoAliases

\* Every name that is made or moved leads to a file the driver has created or
\* to one that had a name already.
LEMMA PlainStep == TypeInv /\ PlainNames /\ [Next]_vars => PlainNames'
<1> SUFFICES ASSUME TypeInv, PlainNames, [Next]_vars, NEW n \in Names
             PROVE  dirent'[n] \notin Links
  BY DEF PlainNames, IsLink
<1> USE LinksAssumption, NilAssumption
<1>1. ASSUME NEW h \in Handles, NEW m \in Names, NEW dir \in BOOLEAN,
             NEW ok \in BOOLEAN, Create(h, m, dir, ok)
      PROVE  dirent'[n] \notin Links
  BY <1>1 DEF Create, PlainNames, IsLink, TypeInv, TypeOK
<1>2. ASSUME NEW h \in Handles, NEW b \in BOOLEAN, Cleanup(h, b)
      PROVE  dirent'[n] \notin Links
  BY <1>2 DEF Cleanup, PlainNames, IsLink, TypeInv, TypeOK
<1>3. ASSUME NEW t \in Threads, Rename2(t)
      PROVE  dirent'[n] \notin Links
  BY <1>3 DEF Rename2, PlainNames, IsLink, TypeInv, TypeOK, Request
<1>4. CASE dirent' = dirent
  BY <1>4 DEF PlainNames, IsLink
<1> QED
  BY <1>1, <1>2, <1>3, <1>4
     DEF Next, vars, Open, SetDelete, Close, BeginIO, BeginRename, IOStat, IOAccess,
         IORefresh, Fail, FinishRename

\* Without symlinks stat_resolved returns the path it was given.
LEMMA ResolvesPlain ==
    ASSUME PlainNames, NEW n \in Names, NEW m \in Names, Resolves(n, m)
    PROVE  m = n /\ dirent[n] # Nil
<1>1. PICK k \in 1..MaxStats : \E s \in [1..k -> Names] :
        /\ s[1] = n /\ s[k] = m /\ dirent[m] # Nil
        /\ \A i \in 1..(k-1) : IsLink(s[i])
  BY DEF Resolves
<1>2. k = 1
  <2> SUFFICES ASSUME k # 1 PROVE FALSE
    OBVIOUS
  <2>1. k \in Nat /\ 1 \in 1..(k-1)
    BY <1>1, MaxStatsAssumption
  <2> QED
    BY <1>1, <2>1 DEF PlainNames
<1> QED
  BY <1>1, <1>2

\* Whatever the kernel driver knows by a name has a file context.
LEMMA KnownIsOpen ==
    ASSUME TypeInv, NEW h \in Handles, node[h] # Nil
    PROVE  /\ node[h] \in Names
           /\ ctx[h] # Nil /\ ctx[h] \in FileContext
BY DEF TypeInv, TypeOK, OpenWhileServed

\* While no rename runs, the name of every handle leads to its file.
LEMMA QuietNames ==
    ASSUME TypeInv, Addressing, NamespaceFree, NEW h \in Handles, node[h] # Nil
    PROVE  dirent[node[h]] = ctx[h].inode /\ ctx[h].inode \in Files
<1>1. ~Moving(h)
  BY DEF Moving, NamespaceFree, Addressing, RenameAlone
<1>2. ctx[h] \in FileContext
  BY KnownIsOpen
<1> QED
  BY <1>1, <1>2 DEF Addressing, FileAtName, FileContext

\* An open without symlinks gives driver and kernel the same name (open).
LEMMA AddressingOpen ==
    ASSUME TypeInv, Addressing, PlainNames,
           NEW h \in Handles, NEW n \in Names, NEW b \in BOOLEAN, Open(h, n, b)
    PROVE  Addressing'
<1>1. PICK m \in Names :
        /\ Resolves(n, m)
        /\ ctx' = [ctx EXCEPT ![h] = [inode |-> dirent[m], unix_path |-> m,
                                      is_dir |-> dirent[m] \in isdir]]
  BY DEF Open
<1>2. m = n
  BY <1>1, ResolvesPlain
<1>3. /\ ctx[h] = Nil /\ NamespaceFree /\ req' = req /\ dirent' = dirent
      /\ node' = [node EXCEPT ![h] = n]
  BY DEF Open
<1>4. \A t \in Threads : req[t] # Nil => req[t].handle # h
  BY <1>3 DEF TypeInv, OpenWhileServed
<1>5. OneName'
  BY <1>1, <1>2, <1>3, <1>4, NilAssumption
     DEF Addressing, OneName, TypeInv, TypeOK, Request
<1>6. FileAtName'
  BY <1>1, <1>2, <1>3, QuietNames, NilAssumption DEF FileAtName, TypeInv, TypeOK
<1>7. RenameAlone' /\ MovedIsThere'
  BY <1>3 DEF Addressing, RenameAlone, MovedIsThere, NamespaceFree
<1> QED
  BY <1>5, <1>6, <1>7 DEF Addressing

\* A created file gets an identity and a name no other open has (create).
LEMMA AddressingCreate ==
    ASSUME TypeInv, Addressing, NEW h \in Handles, NEW n \in Names,
           NEW dir \in BOOLEAN, NEW ok \in BOOLEAN, Create(h, n, dir, ok)
    PROVE  Addressing'
<1>1. PICK f \in unborn \ Links :
        /\ dirent' = [dirent EXCEPT ![n] = f]
        /\ IF ok
             THEN /\ ctx' = [ctx EXCEPT ![h] = [inode |-> f, unix_path |-> n,
                                                is_dir |-> dir]]
                  /\ node' = [node EXCEPT ![h] = n]
             ELSE UNCHANGED <<ctx, node>>
  BY DEF Create
<1>2. ctx[h] = Nil /\ NamespaceFree /\ req' = req /\ dirent[n] = Nil
  BY DEF Create
<1>3. \A t \in Threads : req[t] # Nil => req[t].handle # h
  BY <1>2 DEF TypeInv, OpenWhileServed
<1>4. \A g \in Handles : node[g] # Nil =>
        node[g] # n /\ node[g] \in Names /\ dirent[node[g]] = ctx[g].inode
  BY <1>2, QuietNames, KnownIsOpen, NilAssumption
<1>5. OneName'
  <2>1. CASE ok
    BY <1>1, <1>2, <1>3, <2>1 DEF Addressing, OneName, TypeInv, TypeOK, Request
  <2>2. CASE ~ok
    BY <1>1, <1>2, <2>2 DEF Addressing, OneName
  <2> QED
    BY <2>1, <2>2
<1>6. FileAtName'
  <2>1. CASE ok
    BY <1>1, <1>2, <1>4, <2>1 DEF FileAtName, TypeInv, TypeOK
  <2>2. CASE ~ok
    BY <1>1, <1>2, <1>4, <2>2 DEF FileAtName, TypeInv, TypeOK
  <2> QED
    BY <2>1, <2>2
<1>7. RenameAlone' /\ MovedIsThere'
  BY <1>2 DEF Addressing, RenameAlone, MovedIsThere, NamespaceFree
<1> QED
  BY <1>5, <1>6, <1>7 DEF Addressing

\* A deletion takes away a name nobody else has open, and everybody's memory of
\* it (cleanup).
LEMMA AddressingCleanup ==
    ASSUME TypeInv, Addressing, NEW h \in Handles, NEW b \in BOOLEAN, Cleanup(h, b)
    PROVE  Addressing'
<1>1. /\ ctx[h] # Nil /\ h \notin cleaned /\ NamespaceFree
      /\ UNCHANGED <<ctx, req>>
      /\ \/ UNCHANGED <<dirent, node>>
         \/ /\ \A m \in Names : m # node[h] => dirent'[m] = dirent[m]
            /\ node' = [g \in Handles |-> IF node[g] = node[h] THEN Nil ELSE node[g]]
  <2>1. node[h] # Nil /\ ctx[h].unix_path = node[h]
    BY DEF Cleanup, TypeInv, OpenWhileServed, Addressing, OneName
  <2> QED
    BY <2>1 DEF Cleanup, Unlinks, TypeInv, TypeOK
<1>2. \A g \in Handles : node'[g] # Nil => node'[g] = node[g]
  BY <1>1
<1>3. \A g \in Handles : node'[g] # Nil => dirent'[node[g]] = dirent[node[g]]
  BY <1>1, KnownIsOpen DEF TypeInv, TypeOK
<1>4. OneName'
  BY <1>1, <1>2 DEF Addressing, OneName, TypeInv, TypeOK, Request
<1>5. FileAtName'
  BY <1>1, <1>2, <1>3, QuietNames DEF FileAtName
<1>6. RenameAlone' /\ MovedIsThere'
  BY <1>1 DEF Addressing, RenameAlone, MovedIsThere, NamespaceFree
<1> QED
  BY <1>4, <1>5, <1>6 DEF Addressing

\* A context nobody uses any more disturbs nothing when it goes (close).
LEMMA AddressingClose ==
    ASSUME TypeInv, Addressing, NEW h \in Handles, Close(h)
    PROVE  Addressing'
<1>1. /\ h \in cleaned /\ UNCHANGED <<dirent, req>>
      /\ ctx' = [ctx EXCEPT ![h] = Nil]
      /\ node' = [node EXCEPT ![h] = Nil]
      /\ cleaned' = cleaned \ {h}
      /\ \A t \in Threads : req[t] # Nil => req[t].handle # h
  BY DEF Close, Busy
<1>2. /\ node'[h] = Nil
      /\ \A g \in Handles \ {h} : node'[g] = node[g] /\ ctx'[g] = ctx[g]
  BY <1>1 DEF TypeInv, TypeOK
<1>3. OneName'
  BY <1>1, <1>2 DEF Addressing, OneName, TypeInv, TypeOK, Request
<1>4. FileAtName'
  BY <1>1, <1>2 DEF Addressing, FileAtName, Moving
<1>5. \A n \in Names : Opens(n)' = Opens(n)
  BY <1>1, <1>2, NilAssumption DEF Opens
<1>6. RenameAlone'
  BY <1>1, <1>5 DEF Addressing, RenameAlone, TypeInv, TypeOK, Request
<1>7. MovedIsThere'
  BY <1>1, <1>2, NilAssumption DEF Addressing, MovedIsThere, TypeInv, TypeOK, Request
<1> QED
  BY <1>3, <1>4, <1>6, <1>7 DEF Addressing

\* A request copies the path its file node has (read, write and the rest).
LEMMA AddressingBeginIO ==
    ASSUME TypeInv, Addressing, NEW t \in Threads, NEW h \in Handles,
           NEW op \in {"read", "write"}, BeginIO(t, h, op)
    PROVE  Addressing'
<1> DEFINE r == IORequest(h, op)
<1>1. /\ req[t] = Nil /\ ctx[h] # Nil
      /\ req' = [req EXCEPT ![t] = r]
      /\ UNCHANGED <<dirent, ctx, node, cleaned>>
  BY DEF BeginIO
<1>2. /\ r \in Request /\ r.op = op /\ r.handle = h
      /\ node[h] # Nil => r.path = node[h]
      /\ r.pc \in {"stat", "access"}
  BY <1>1, IORequestType DEF TypeInv, IORequest, Addressing, OneName
<1> HIDE DEF r
<1>3. \A u \in Threads : req[u] # Nil /\ req[u].op = "rename" => req[u].handle # h
  BY DEF BeginIO, NodeFree, NodeShared, Busy, Mates
<1>4. OneName'
  BY <1>1, <1>2 DEF Addressing, OneName, TypeInv, TypeOK
<1>5. FileAtName'
  BY <1>1, <1>2 DEF Addressing, FileAtName, Moving, TypeInv, TypeOK
<1>6. RenameAlone'
  BY <1>1, <1>2, <1>3 DEF Addressing, RenameAlone, TypeInv, TypeOK, Opens
<1>7. MovedIsThere'
  BY <1>1, <1>2 DEF Addressing, MovedIsThere, TypeInv, TypeOK
<1> QED
  BY <1>4, <1>5, <1>6, <1>7 DEF Addressing

\* The kernel driver lets a rename in only where it is alone (rename).
LEMMA AddressingBeginRename ==
    ASSUME TypeInv, Addressing, ~sharing, NEW t \in Threads,
           NEW h \in Handles, NEW n \in Names, NEW b \in BOOLEAN,
           BeginRename(t, h, n, b)
    PROVE  Addressing'
<1> DEFINE r == [op |-> "rename", handle |-> h, pc |-> "rename2",
                 path |-> node[h], dst |-> n, replace |-> b]
<1>1. /\ req[t] = Nil /\ ctx[h] # Nil /\ h \notin cleaned /\ NamespaceFree
      /\ n # node[h] /\ Opens(n) = {} /\ Opens(node[h]) = {h}
      /\ req' = [req EXCEPT ![t] = r]
      /\ UNCHANGED <<dirent, ctx, node, cleaned>>
  BY DEF BeginRename, MayDelete
<1>2. /\ r.op = "rename" /\ r.handle = h /\ r.pc = "rename2"
      /\ r.path = node[h] /\ r.dst = n /\ r # Nil
  <2>1. node[h] \in Names
    BY <1>1 DEF TypeInv, TypeOK, OpenWhileServed
  <2>2. r \in Request
    BY <2>1 DEF Request
  <2> QED
    BY <2>2, NilAssumption
<1> HIDE DEF r
<1>3. \A u \in Threads : req[u] # Nil => req[u].handle # h
  BY FreeIsIdle DEF BeginRename
<1>4. OneName'
  BY <1>1, <1>2 DEF Addressing, OneName, TypeInv, TypeOK
<1>5. FileAtName'
  BY <1>1, <1>2 DEF Addressing, FileAtName, Moving, TypeInv, TypeOK
<1>6. RenameAlone'
  BY <1>1, <1>2, <1>3
     DEF Addressing, RenameAlone, NamespaceFree, TypeInv, TypeOK, Opens
<1>7. MovedIsThere'
  BY <1>1, <1>2 DEF Addressing, MovedIsThere, TypeInv, TypeOK
<1> QED
  BY <1>4, <1>5, <1>6, <1>7 DEF Addressing

\* The steps of a request that touch neither names nor contexts.
LEMMA AddressingIO ==
    ASSUME TypeInv, Addressing, NEW t \in Threads,
           \/ IOStat(t) \/ IOAccess(t) \/ IORefresh(t) \/ Fail(t)
    PROVE  Addressing'
<1>1. /\ req[t] # Nil /\ UNCHANGED <<dirent, ctx, node, cleaned>>
      /\ \/ req' = [req EXCEPT ![t] = Nil] /\ req[t].pc # "moved"
         \/ req' = [req EXCEPT ![t].pc = "access"] /\ req[t].pc = "stat"
         \/ req' = [req EXCEPT ![t].pc = "refresh"] /\ req[t].pc = "access"
  BY DEF IOStat, IOAccess, IORefresh, Fail, Advance, Reply
<1>2. OneName'
  BY <1>1 DEF Addressing, OneName, TypeInv, TypeOK, Request
<1>3. FileAtName'
  BY <1>1 DEF Addressing, FileAtName, Moving, TypeInv, TypeOK, Request
<1>4. RenameAlone'
  BY <1>1 DEF Addressing, RenameAlone, TypeInv, TypeOK, Request, Opens
<1>5. MovedIsThere'
  BY <1>1 DEF Addressing, MovedIsThere, TypeInv, TypeOK, Request
<1> QED
  BY <1>2, <1>3, <1>4, <1>5 DEF Addressing

\* fs_ext4_rename2 moves the file of the renaming handle and no other.
LEMMA AddressingRename2 ==
    ASSUME TypeInv, Addressing, NEW t \in Threads, Rename2(t)
    PROVE  Addressing'
<1> DEFINE h == req[t].handle
           src == req[t].path
           dst == req[t].dst
<1>1. /\ req[t] # Nil /\ req[t].pc = "rename2" /\ UNCHANGED <<ctx, cleaned>>
      /\ dirent' = [dirent EXCEPT ![dst] = dirent[src], ![src] = Nil]
      /\ node' = [g \in Handles |-> IF g \in cleaned /\ node[g] \in {src, dst}
                                      THEN Nil ELSE node[g]]
      /\ req' = [req EXCEPT ![t].pc = "moved"]
  BY DEF Rename2, Advance, Replaces
<1>2. /\ req[t] \in Request /\ req[t].op = "rename" /\ h \in Handles
      /\ src \in Names /\ dst \in Names
  BY <1>1 DEF TypeInv, TypeOK, Addressing, RenameAlone, Request
<1>3. /\ node[h] = src /\ ctx[h] # Nil /\ h \notin cleaned
      /\ Opens(src) = {h} /\ Opens(dst) = {} /\ dst # src
      /\ \A u \in Threads \ {t} : req[u] # Nil =>
            req[u].op # "rename" /\ req[u].handle # h
  BY <1>1, <1>2 DEF TypeInv, OpenWhileServed, Addressing, OneName, RenameAlone
<1>4. /\ node'[h] = src
      /\ \A g \in Handles : node'[g] # Nil => node'[g] = node[g]
      /\ \A g \in Handles \ {h} : node'[g] # src /\ node'[g] # dst
  <2>1. node'[h] = src
    BY <1>1, <1>2, <1>3
  <2>2. ASSUME NEW g \in Handles \ {h} PROVE node'[g] # src /\ node'[g] # dst
    <3>1. g \notin cleaned => node[g] # src /\ node[g] # dst
      BY <1>3 DEF Opens
    <3> QED
      BY <1>1, <1>2, <3>1, NilAssumption
  <2> QED
    BY <1>1, <2>1, <2>2
<1>5. dirent[src] = ctx[h].inode
  <2>1. ~Moving(h)
    BY <1>1, <1>3 DEF Moving
  <2> QED
    BY <1>2, <1>3, <2>1, NilAssumption DEF Addressing, FileAtName
<1>6. dirent'[dst] = ctx[h].inode
  BY <1>1, <1>2, <1>3, <1>5 DEF TypeInv, TypeOK
<1>7. /\ req'[t] # Nil /\ req'[t].pc = "moved" /\ req'[t].op = "rename"
      /\ req'[t].handle = h /\ req'[t].path = src /\ req'[t].dst = dst
      /\ \A u \in Threads \ {t} : req'[u] = req[u]
  <2>1. [req[t] EXCEPT !.pc = "moved"] \in Request
    BY <1>2 DEF Request
  <2> QED
    BY <1>1, <1>2, <2>1, NilAssumption DEF TypeInv, TypeOK, Request
<1> HIDE DEF h, src, dst
<1>8. OneName'
  <2>1. \A g \in Handles : node'[g] # Nil => ctx'[g].unix_path = node'[g]
    BY <1>1, <1>4 DEF Addressing, OneName
  <2>2. ASSUME NEW u \in Threads, req'[u] # Nil, node'[req'[u].handle] # Nil
        PROVE  req'[u].path = node'[req'[u].handle]
    <3>1. CASE u = t
      BY <1>4, <1>7, <3>1
    <3>2. CASE u # t
      <4>1. req[u] # Nil /\ req'[u] = req[u] /\ req[u].handle \in Handles
        BY <1>7, <2>2, <3>2 DEF TypeInv, TypeOK, Request
      <4> QED
        BY <1>4, <2>2, <4>1 DEF Addressing, OneName
    <3> QED
      BY <3>1, <3>2
  <2> QED
    BY <2>1, <2>2 DEF OneName
<1>9. FileAtName'
  <2>1. SUFFICES ASSUME NEW g \in Handles, node'[g] # Nil, ~Moving(g)'
                 PROVE  dirent'[node'[g]] = ctx[g].inode
    BY <1>1 DEF FileAtName
  <2>2. g # h
    BY <1>7, <2>1 DEF Moving
  <2>3. ~Moving(g)
    BY <1>1, <1>2, <1>7, <2>1 DEF Moving, Addressing, RenameAlone, h
  <2>4. node'[g] = node[g] /\ dirent[node[g]] = ctx[g].inode
    BY <1>4, <2>1, <2>3 DEF Addressing, FileAtName
  <2>5. dirent'[node[g]] = dirent[node[g]]
    BY <1>1, <1>2, <1>4, <2>1, <2>2, <2>4, KnownIsOpen DEF TypeInv, TypeOK
  <2> QED
    BY <2>4, <2>5
<1>10. /\ {g \in Handles \ cleaned' : node'[g] = src} = {h}
       /\ {g \in Handles \ cleaned' : node'[g] = dst} = {}
  BY <1>1, <1>2, <1>3, <1>4
<1>11. RenameAlone'
  <2>1. Opens(req[t].path)' = {h} /\ Opens(req[t].dst)' = {}
    BY <1>7, <1>10 DEF Opens
  <2>2. \A u \in Threads \ {t} : req'[u] # Nil =>
          /\ req'[u].op # "rename" /\ req'[u].handle # h
          /\ req'[u].pc \notin {"rename2", "moved"}
    BY <1>3, <1>7 DEF Addressing, RenameAlone
  <2> QED
    BY <1>3, <1>7, <2>1, <2>2 DEF RenameAlone
<1>12. MovedIsThere'
  <2>1. SUFFICES ASSUME NEW u \in Threads, req'[u] # Nil, req'[u].pc = "moved"
                 PROVE  u = t
    BY <1>1, <1>4, <1>6, <1>7 DEF MovedIsThere
  <2> QED
    BY <1>2, <1>3, <1>7, <2>1 DEF Addressing, RenameAlone
<1> QED
  BY <1>8, <1>9, <1>11, <1>12 DEF Addressing

\* The update of the context catches up with the moved file (rename).
LEMMA AddressingFinishRename ==
    ASSUME TypeInv, Addressing, NEW t \in Threads, FinishRename(t)
    PROVE  Addressing'
<1> DEFINE h == req[t].handle
           src == req[t].path
           dst == req[t].dst
<1>1. /\ req[t] # Nil /\ req[t].pc = "moved" /\ dirent' = dirent
      /\ ctx' = [ctx EXCEPT ![h].unix_path = dst]
      /\ node' = [g \in Handles |-> IF node[g] = src THEN dst ELSE node[g]]
      /\ req' = [req EXCEPT ![t] = Nil] /\ cleaned' = cleaned
  BY DEF FinishRename, UpdatesPath, Reply
<1>2. /\ req[t] \in Request /\ req[t].op = "rename" /\ h \in Handles
      /\ h \notin cleaned /\ ctx[h] # Nil /\ ctx[h] \in FileContext
      /\ dirent[dst] = ctx[h].inode
      /\ \A g \in Handles \ {h} : node[g] \notin {src, dst}
      /\ \A u \in Threads \ {t} : req[u] # Nil =>
            req[u].op # "rename" /\ req[u].handle # h /\ req[u] \in Request
  BY <1>1 DEF TypeInv, TypeOK, OpenWhileServed, Addressing, RenameAlone,
              MovedIsThere, Request
<1>9. node[h] = src
  BY <1>1, <1>2 DEF TypeInv, OpenWhileServed, Addressing, OneName
<1>3. node'[h] = dst /\ \A g \in Handles \ {h} : node'[g] = node[g]
  BY <1>1, <1>2, <1>9
<1>4. /\ ctx'[h].unix_path = dst /\ ctx'[h].inode = ctx[h].inode
      /\ \A g \in Handles \ {h} : ctx'[g] = ctx[g]
  BY <1>1, <1>2 DEF TypeInv, TypeOK, FileContext
<1>5. \A u \in Threads : req'[u] # Nil =>
        req'[u] = req[u] /\ u # t /\ req[u].handle \in Handles \ {h}
  BY <1>1, <1>2 DEF TypeInv, TypeOK, Request
<1>6. OneName'
  BY <1>3, <1>4, <1>5 DEF Addressing, OneName
<1>7. FileAtName'
  <2>1. \A g \in Handles \ {h} : ~Moving(g)
    BY <1>2 DEF Moving, Addressing, RenameAlone
  <2> QED
    BY <1>1, <1>2, <1>3, <1>4, <2>1 DEF Addressing, FileAtName
<1>8. RenameAlone' /\ MovedIsThere'
  BY <1>2, <1>5 DEF Addressing, RenameAlone, MovedIsThere
<1> QED
  BY <1>6, <1>7, <1>8 DEF Addressing

\* Every handler keeps path, kernel name and file in agreement.
LEMMA AddressingStep ==
    TypeInv /\ Unaliased /\ [Next]_vars => Unaliased'
<1> SUFFICES ASSUME TypeInv, Addressing, PlainNames, [Next]_vars, ~sharing
             PROVE  Addressing'
  BY AliasesConstant, PlainStep DEF NoAliases, Unaliased
<1>1. ASSUME NEW h \in Handles, NEW n \in Names, NEW b \in BOOLEAN, Open(h, n, b)
      PROVE  Addressing'
  BY <1>1, AddressingOpen
<1>2. ASSUME NEW h \in Handles, NEW n \in Names, NEW dir \in BOOLEAN,
             NEW ok \in BOOLEAN, Create(h, n, dir, ok)
      PROVE  Addressing'
  BY <1>2, AddressingCreate
<1>3. ASSUME NEW h \in Handles, NEW b \in BOOLEAN, SetDelete(h, b)
      PROVE  Addressing'
  BY <1>3 DEF SetDelete, Addressing, OneName, FileAtName, RenameAlone,
              MovedIsThere, Moving, Opens
<1>4. ASSUME NEW h \in Handles, NEW b \in BOOLEAN, Cleanup(h, b)
      PROVE  Addressing'
  BY <1>4, AddressingCleanup
<1>11. ASSUME NEW h \in Handles, Close(h)
       PROVE  Addressing'
  BY <1>11, AddressingClose
<1>5. ASSUME NEW t \in Threads, NEW h \in Handles, NEW op \in {"read", "write"},
             BeginIO(t, h, op)
      PROVE  Addressing'
  BY <1>5, AddressingBeginIO
<1>6. ASSUME NEW t \in Threads, NEW h \in Handles, NEW n \in Names,
             NEW b \in BOOLEAN, BeginRename(t, h, n, b)
      PROVE  Addressing'
  BY <1>6, AddressingBeginRename
<1>7. ASSUME NEW t \in Threads,
             IOStat(t) \/ IOAccess(t) \/ IORefresh(t) \/ Fail(t)
      PROVE  Addressing'
  BY <1>7, AddressingIO
<1>8. ASSUME NEW t \in Threads, Rename2(t)
      PROVE  Addressing'
  BY <1>8, AddressingRename2
<1>9. ASSUME NEW t \in Threads, FinishRename(t)
      PROVE  Addressing'
  BY <1>9, AddressingFinishRename
<1>10. CASE UNCHANGED vars
  BY <1>10 DEF vars, Addressing, OneName, FileAtName, RenameAlone, MovedIsThere,
               Moving, Opens
<1> QED
  BY <1>1, <1>2, <1>3, <1>4, <1>5, <1>6, <1>7, <1>8, <1>9, <1>10, <1>11 DEF Next

\* A fresh mount has no opens to disagree about.
LEMMA AddressingInit == Init => TypeInv /\ Unaliased
<1> SUFFICES ASSUME Init PROVE TypeInv /\ Unaliased
  OBVIOUS
<1>1. TypeInv
  BY LinksAssumption, DirsAssumption, VolumesAssumption
     DEF Init, TypeInv, TypeOK, OpenWhileServed
<1>2. NoAliases => PlainNames
  BY LinksAssumption, NilAssumption DEF Init, NoAliases, PlainNames, IsLink
<1>3. Addressing
  BY DEF Init, Addressing, OneName, FileAtName, RenameAlone, MovedIsThere
<1> QED
  BY <1>1, <1>2, <1>3 DEF Unaliased

\* Of every volume without aliases, driver and kernel know each handle by one
\* name, and it leads to the file of the handle, until it is closed or has lost
\* its name after its cleanup.
THEOREM AddressingHolds == Spec => []AddressingInv
<1>1. TypeInv /\ Unaliased => AddressingInv
  BY DEF TypeInv, Unaliased, Addressing, AddressingInv
<1> QED
  BY <1>1, AddressingInit, TypeStep, AddressingStep, PTL DEF Spec

\* On a volume without symlinks, among openers that do not share deletion, the
\* path of every file context leads to the file it was opened on until the
\* context is closed, unless the name was taken away after its cleanup.
THEOREM HandlesAddressTheirFiles ==
    Spec => []HandleAddressesItsFile
<1>1. ASSUME TypeInv, Addressing PROVE HandleAddressesItsFile
  <2>1. SUFFICES ASSUME NEW h \in Handles, ctx[h] # Nil, ~Moving(h)
                 PROVE  dirent[ctx[h].unix_path] = ctx[h].inode \/ Adrift(h)
    BY DEF HandleAddressesItsFile
  <2>2. CASE node[h] = Nil
    BY <1>1, <2>1, <2>2 DEF TypeInv, OpenWhileServed, Adrift
  <2>3. CASE node[h] # Nil
    BY <1>1, <2>1, <2>3 DEF Addressing, OneName, FileAtName
  <2> QED
    BY <2>2, <2>3
<1>2. TypeInv /\ Unaliased => HandleAddressesItsFile
  BY <1>1 DEF Unaliased, HandleAddressesItsFile
<1> QED
  BY <1>2, AddressingInit, TypeStep, AddressingStep, PTL DEF Spec

\* ... and no read or write goes to another file, however many calls of other
\* threads come between the copy of the path and its use, the requests of the
\* cache manager after cleanup included.
THEOREM AccessesReachOwnFiles ==
    Spec => []AccessReachesOwnFile
<1>1. ASSUME TypeInv, Addressing PROVE AccessReachesOwnFile
  <2>1. SUFFICES ASSUME NEW t \in Threads, req[t] # Nil, req[t].pc = "access"
                 PROVE  \/ dirent[req[t].path] = ctx[req[t].handle].inode
                        \/ Adrift(req[t].handle)
    BY DEF AccessReachesOwnFile
  <2>2. ~Moving(req[t].handle)
    BY <1>1, <2>1 DEF Moving, Addressing, RenameAlone
  <2>3. req[t].handle \in Handles /\ ctx[req[t].handle] # Nil
    BY <1>1, <2>1 DEF TypeInv, TypeOK, Request, OpenWhileServed
  <2>4. CASE node[req[t].handle] = Nil
    BY <1>1, <2>3, <2>4 DEF TypeInv, OpenWhileServed, Adrift
  <2>5. CASE node[req[t].handle] # Nil
    BY <1>1, <2>1, <2>2, <2>3, <2>5 DEF Addressing, OneName, FileAtName
  <2> QED
    BY <2>4, <2>5
<1>2. TypeInv /\ Unaliased => AccessReachesOwnFile
  BY <1>1 DEF Unaliased, AccessReachesOwnFile
<1> QED
  BY <1>2, AddressingInit, TypeStep, AddressingStep, PTL DEF Spec

\* fs_ext4_rename2 takes away the last name of a file only if that is the one
\* it was told to replace.
LEMMA RenameRemoves ==
    ASSUME TypeInv, NEW t \in Threads, Rename2(t), req[t].dst # req[t].path,
           NEW f \in Files, Linked(f), ~Linked(f)'
    PROVE  Replacing(t, f)
<1>1. PICK n \in Names : dirent[n] = f /\ dirent'[n] # f
  BY DEF Linked
<1> DEFINE src == req[t].path
           dst == req[t].dst
<1>2. /\ req[t] # Nil /\ req[t].pc = "rename2" /\ req[t] \in Request
      /\ dirent' = [dirent EXCEPT ![dst] = dirent[src], ![src] = Nil]
      /\ dirent[dst] # Nil => req[t].replace
      /\ req' = [req EXCEPT ![t].pc = "moved"]
  BY DEF Rename2, Replaces, Advance, TypeInv, TypeOK
<1>3. n # src
  <2>1. n = src => dirent'[dst] = f
    BY <1>1, <1>2 DEF TypeInv, TypeOK, Request
  <2> QED
    BY <2>1, <1>2 DEF Linked, Request
<1>4. dirent[dst] = f
  BY <1>1, <1>2, <1>3 DEF TypeInv, TypeOK, Request
<1>5. req'[t] \in Request
  BY <1>2 DEF TypeInv, TypeOK, Request
<1> QED
  BY <1>2, <1>4, <1>5, NilAssumption DEF Replacing

\* One step removes a file only on behalf of its own handle or of a rename
\* that was told to replace it.
LEMMA RemovalStep ==
    ASSUME TypeInv, Addressing, [Next]_vars,
           NEW f \in Files, Linked(f), ~Linked(f)'
    PROVE  \/ \E t \in Threads : Replacing(t, f)
           \/ \E h \in Handles :
                 CleanedUp(h) /\ ctx[h].inode = f /\ node[h] \in pending
<1>1. PICK n \in Names : dirent[n] = f /\ dirent'[n] # f
  BY DEF Linked
<1>2. ASSUME NEW h \in Handles, NEW m \in Names, NEW dir \in BOOLEAN,
             NEW ok \in BOOLEAN, Create(h, m, dir, ok)
      PROVE  FALSE
  BY <1>1, <1>2, NilAssumption DEF Create, TypeInv, TypeOK
<1>3. ASSUME NEW h \in Handles, NEW b \in BOOLEAN, Cleanup(h, b)
      PROVE  CleanedUp(h) /\ ctx[h].inode = f /\ node[h] \in pending
  <2>1. /\ ctx[h] # Nil /\ h \notin cleaned /\ h \in cleaned' /\ NamespaceFree
        /\ node[h] \in pending /\ n = ctx[h].unix_path
    BY <1>1, <1>3 DEF Cleanup, Unlinks, TypeInv, TypeOK
  <2>2. node[h] # Nil /\ ctx[h].unix_path = node[h]
    BY <2>1 DEF TypeInv, OpenWhileServed, Addressing, OneName
  <2> QED
    BY <1>1, <2>1, <2>2, QuietNames DEF CleanedUp
<1>4. ASSUME NEW t \in Threads, Rename2(t)
      PROVE  Replacing(t, f)
  <2>1. req[t].dst # req[t].path
    BY <1>4 DEF Rename2, Addressing, RenameAlone
  <2> QED
    BY <1>4, <2>1, RenameRemoves
<1>5. dirent' # dirent
  BY <1>1
<1>6. \/ \E h \in Handles, m \in Names, dir, ok \in BOOLEAN : Create(h, m, dir, ok)
      \/ \E h \in Handles, b \in BOOLEAN : Cleanup(h, b)
      \/ \E t \in Threads : Rename2(t)
  BY <1>5 DEF Next, vars, Open, SetDelete, Close, BeginIO, BeginRename, IOStat,
              IOAccess, IORefresh, Fail, FinishRename
<1> QED
  BY <1>2, <1>3, <1>4, <1>6

\* Without aliases a file leaves the volume only on its own handle's behalf, or
\* because a rename was asked to replace it.
THEOREM OnlyOwnFilesRemoved ==
    Spec => OnlyOwnFileRemoved
<1>1. TypeInv /\ Unaliased /\ [Next]_vars =>
        [\A f \in Files : NoAliases /\ Linked(f) /\ ~Linked(f)' =>
           \/ \E t \in Threads : Replacing(t, f)
           \/ \E h \in Handles :
                 CleanedUp(h) /\ ctx[h].inode = f /\ node[h] \in pending]_vars
  BY RemovalStep DEF Unaliased
<1> QED
  BY <1>1, AddressingInit, TypeStep, AddressingStep, PTL DEF Spec, OnlyOwnFileRemoved

-----------------------------------------------------------------------------
(* With aliases too.                                                       *)

\* The kernel driver lets no rename through to the name the file has.
NewNames ==
    \A t \in Threads : req[t] # Nil /\ req[t].pc = "rename2" => req[t].dst # req[t].path

\* No request turns into a rename to its own name.
LEMMA NewNamesStep == TypeInv /\ NewNames /\ [Next]_vars => NewNames'
<1> SUFFICES ASSUME TypeInv, NewNames, [Next]_vars PROVE NewNames'
  OBVIOUS
<1>1. ASSUME NEW t \in Threads, NEW h \in Handles, NEW op \in {"read", "write"},
             BeginIO(t, h, op)
      PROVE  NewNames'
  BY <1>1 DEF BeginIO, IORequest, NewNames, TypeInv, TypeOK
<1>2. ASSUME NEW t \in Threads, NEW h \in Handles, NEW n \in Names,
             NEW b \in BOOLEAN, BeginRename(t, h, n, b)
      PROVE  NewNames'
  BY <1>2 DEF BeginRename, NewNames, TypeInv, TypeOK
<1>3. ASSUME NEW t \in Threads,
             \/ IOStat(t) \/ IOAccess(t) \/ IORefresh(t) \/ Fail(t)
             \/ Rename2(t) \/ FinishRename(t)
      PROVE  NewNames'
  BY <1>3 DEF IOStat, IOAccess, IORefresh, Fail, Rename2, FinishRename, Advance,
              Reply, NewNames, TypeInv, TypeOK, Request
<1>4. CASE req' = req
  BY <1>4 DEF NewNames
<1> QED
  BY <1>1, <1>2, <1>3, <1>4 DEF Next, vars, Open, Create, SetDelete, Cleanup,
                                   Close

\* One step takes a file's last name away only for a rename told to replace
\* it, or for the last open of a marked name.
LEMMA RequestedStep ==
    ASSUME TypeInv, NewNames, [Next]_vars,
           NEW f \in Files, Linked(f), ~Linked(f)'
    PROVE  \/ \E t \in Threads : Replacing(t, f)
           \/ \E h \in Handles :
                 CleanedUp(h) /\ node[h] \in pending /\ Opens(node[h]) = {h}
<1>1. PICK n \in Names : dirent[n] = f /\ dirent'[n] # f
  BY DEF Linked
<1>2. ASSUME NEW h \in Handles, NEW m \in Names, NEW dir \in BOOLEAN,
             NEW ok \in BOOLEAN, Create(h, m, dir, ok)
      PROVE  FALSE
  BY <1>1, <1>2, NilAssumption DEF Create, TypeInv, TypeOK
<1>3. ASSUME NEW h \in Handles, NEW b \in BOOLEAN, Cleanup(h, b)
      PROVE  CleanedUp(h) /\ node[h] \in pending /\ Opens(node[h]) = {h}
  BY <1>1, <1>3 DEF Cleanup, Unlinks, CleanedUp, TypeInv, TypeOK
<1>4. ASSUME NEW t \in Threads, Rename2(t)
      PROVE  Replacing(t, f)
  <2>1. req[t].dst # req[t].path
    BY <1>4 DEF Rename2, NewNames
  <2> QED
    BY <1>4, <2>1, RenameRemoves
<1>5. dirent' # dirent
  BY <1>1
<1>6. \/ \E h \in Handles, m \in Names, dir, ok \in BOOLEAN : Create(h, m, dir, ok)
      \/ \E h \in Handles, b \in BOOLEAN : Cleanup(h, b)
      \/ \E t \in Threads : Rename2(t)
  BY <1>5 DEF Next, vars, Open, SetDelete, Close, BeginIO, BeginRename, IOStat,
              IOAccess, IORefresh, Fail, FinishRename
<1> QED
  BY <1>2, <1>3, <1>4, <1>6

\* Whatever symlinks there are and whatever openers share, nothing is removed
\* unasked.
THEOREM RemovalsRequested == Spec => RemovalWasRequested
<1>1. Init => TypeInv /\ NewNames
  BY AddressingInit DEF Init, NewNames
<1>2. TypeInv /\ NewNames /\ [Next]_vars =>
        [\A f \in Files : Linked(f) /\ ~Linked(f)' =>
           \/ \E t \in Threads : Replacing(t, f)
           \/ \E h \in Handles :
                 CleanedUp(h) /\ node[h] \in pending /\ Opens(node[h]) = {h}]_vars
  BY RequestedStep
<1> QED
  BY <1>1, <1>2, TypeStep, NewNamesStep, PTL DEF Spec, RemovalWasRequested

-----------------------------------------------------------------------------
(***************************************************************************)
(* FileHandles implements FileService: for every volume without aliases    *)
(* and any number of threads and handles, the driver that knows its open   *)
(* files by path cannot be told from a service whose opens are opens of    *)
(* files.                                                                  *)
(***************************************************************************)

(* The names the service shows.                                            *)

\* While no rename has moved a file, every name is shown as it is.
LEMMA ShownPlain ==
    ASSUME \A t \in Threads : ~Renaming(t)
    PROVE  Shown = [n \in Names |-> n]
BY DEF Shown

\* A rename that has moved its file shows the old name as the new one.
LEMMA ShownMoved ==
    ASSUME TypeInv, RenameAlone, NEW t \in Threads, Renaming(t)
    PROVE  Shown = [n \in Names |-> IF n = req[t].path THEN req[t].dst ELSE n]
<1>1. \A u \in Threads : Renaming(u) => u = t
  BY DEF Renaming, RenameAlone
<1>2. ASSUME NEW n \in Names PROVE Shown[n] = IF n = req[t].path THEN req[t].dst ELSE n
  <2>1. CASE n = req[t].path
    <3>1. \A u \in Threads : Renaming(u) /\ req[u].path = n <=> u = t
      BY <1>1, <2>1
    <3>2. (CHOOSE u \in Threads : Renaming(u) /\ req[u].path = n) = t
      BY <3>1
    <3> QED
      BY <2>1, <3>1, <3>2 DEF Shown
  <2>2. CASE n # req[t].path
    BY <1>1, <2>2 DEF Shown
  <2> QED
    BY <2>1, <2>2
<1> QED
  BY <1>2 DEF Shown

\* Steps that neither begin nor end the moved part of a rename show the same
\* names.
LEMMA ShownSame ==
    ASSUME \A t \in Threads : Renaming(t)' <=> Renaming(t),
           \A t \in Threads : Renaming(t) => req'[t] = req[t]
    PROVE  Shown' = Shown
<1>1. ASSUME NEW n \in Names
      PROVE  \A t \in Threads : Renaming(t)' /\ req'[t].path = n
                                <=> Renaming(t) /\ req[t].path = n
  OBVIOUS
<1>2. ASSUME NEW n \in Names
      PROVE  (CHOOSE t \in Threads : Renaming(t)' /\ req'[t].path = n)
               = CHOOSE t \in Threads : Renaming(t) /\ req[t].path = n
  BY <1>1
<1>3. ASSUME NEW n \in Names PROVE Shown'[n] = Shown[n]
  <2> DEFINE R(t) == Renaming(t) /\ req[t].path = n
             c == CHOOSE t \in Threads : R(t)
  <2>1. CASE \E t \in Threads : R(t)
    <3>1. c \in Threads /\ R(c)
      BY <2>1
    <3>2. req'[c] = req[c]
      BY <3>1
    <3>3. \E t \in Threads : Renaming(t)' /\ req'[t].path = n
      BY <1>1, <2>1
    <3>4. Shown[n] = req[c].dst
      BY <2>1 DEF Shown
    <3>5. Shown'[n] = req'[CHOOSE t \in Threads : Renaming(t)' /\ req'[t].path = n].dst
      BY <3>3 DEF Shown
    <3> QED
      BY <1>2, <3>2, <3>4, <3>5
  <2>2. CASE ~\E t \in Threads : R(t)
    BY <1>1, <2>2 DEF Shown
  <2> QED
    BY <2>1, <2>2
<1> QED
  BY <1>3 DEF Shown

\* No rename has moved a file while nobody renames.
LEMMA QuietShown ==
    ASSUME RenameAlone, NamespaceFree
    PROVE  Shown = [n \in Names |-> n]
<1>1. \A t \in Threads : ~Renaming(t)
  BY DEF Renaming, RenameAlone, NamespaceFree
<1> QED
  BY <1>1, ShownPlain

\* The name of an open that is not being renamed is shown as it is, and no
\* other name is shown as it.
LEMMA OwnName ==
    ASSUME TypeInv, Addressing, NEW h \in Handles, node[h] # Nil, ~Moving(h)
    PROVE  /\ node[h] \in Names
           /\ Shown[node[h]] = node[h]
           /\ \A n \in Names : Shown[n] = node[h] => n = node[h]
<1>1. node[h] \in Names
  BY KnownIsOpen
<1>2. CASE \A t \in Threads : ~Renaming(t)
  BY <1>1, <1>2, ShownPlain
<1>3. ASSUME NEW t \in Threads, Renaming(t)
      PROVE  /\ Shown[node[h]] = node[h]
             /\ \A n \in Names : Shown[n] = node[h] => n = node[h]
  <2>1. Shown = [n \in Names |-> IF n = req[t].path THEN req[t].dst ELSE n]
    BY <1>3, ShownMoved DEF Addressing
  <2>2. h # req[t].handle
    BY <1>3 DEF Moving, Renaming
  <2>3. node[h] # req[t].path /\ node[h] # req[t].dst
    BY <1>3, <2>2 DEF Renaming, Addressing, MovedIsThere
  <2> QED
    BY <1>1, <2>1, <2>3
<1> QED
  BY <1>1, <1>2, <1>3

-----------------------------------------------------------------------------
(* The state the service shows of a mount without aliases.                 *)

\* Shown contexts and requests are records, never Nil.
LEMMA ShownTypes ==
    ASSUME TypeInv, NoAliases
    PROVE  /\ \A h \in Handles :
                /\ ctx[h] = Nil <=> OpenShown[h] = Nil
                /\ ctx[h] # Nil /\ node[h] = Nil => OpenShown[h] = Lost
                /\ node[h] # Nil => /\ OpenShown[h] # Nil
                                    /\ OpenShown[h].file = ctx[h].inode
                                    /\ OpenShown[h].name = Shown[ctx[h].unix_path]
           /\ \A t \in Threads : ServingShown[t] # Nil =>
                 req[t] # Nil /\ ServingShown[t].handle = req[t].handle
           /\ DirShown = dirent /\ UnbornShown = unborn /\ LingeringShown = cleaned
           /\ MarkedShown = {Shown[n] : n \in pending}
<1>1. \A n \in Names : Shown[n] \in Names
  <2> SUFFICES ASSUME NEW n \in Names,
                      NEW t \in Threads, Renaming(t) /\ req[t].path = n
               PROVE  Shown[n] \in Names
    BY DEF Shown
  <2> DEFINE c == CHOOSE u \in Threads : Renaming(u) /\ req[u].path = n
  <2>1. c \in Threads /\ Renaming(c)
    OBVIOUS
  <2>2. Shown[n] = req[c].dst
    BY DEF Shown
  <2> HIDE DEF c
  <2>3. req[c] \in Request
    BY <2>1 DEF Renaming, TypeInv, TypeOK
  <2> QED
    BY <2>2, <2>3 DEF Request
<1>2. ASSUME NEW h \in Handles, node[h] # Nil
      PROVE  /\ OpenShown[h] # Nil
             /\ OpenShown[h].file = ctx[h].inode
             /\ OpenShown[h].name = Shown[ctx[h].unix_path]
  <2>1. ctx[h] # Nil /\ ctx[h] \in FileContext
    BY <1>2, KnownIsOpen
  <2>2. [file |-> ctx[h].inode, name |-> Shown[ctx[h].unix_path]]
          \in [file: Files \cup {Nil}, name: Names \cup {Nil}]
    BY <1>1, <2>1 DEF FileContext
  <2>3. OpenShown[h] = [file |-> ctx[h].inode, name |-> Shown[ctx[h].unix_path]]
    BY <1>2, <2>1 DEF OpenShown
  <2> QED
    BY <2>2, <2>3, NilAssumption
<1>3. Lost # Nil
  <2>1. Lost \in [file: Files \cup {Nil}, name: Names \cup {Nil}]
    BY DEF Lost
  <2> QED
    BY <2>1, NilAssumption
<1>4. ASSUME NEW h \in Handles
      PROVE  /\ ctx[h] = Nil <=> OpenShown[h] = Nil
             /\ ctx[h] # Nil /\ node[h] = Nil => OpenShown[h] = Lost
  <2>1. CASE ctx[h] = Nil
    BY <2>1 DEF OpenShown
  <2>2. CASE ctx[h] # Nil /\ node[h] = Nil
    BY <1>3, <2>2 DEF OpenShown
  <2>3. CASE node[h] # Nil
    BY <1>2, <2>3, KnownIsOpen
  <2> QED
    BY <2>1, <2>2, <2>3
<1>5. \A t \in Threads : ServingShown[t] # Nil =>
        req[t] # Nil /\ ServingShown[t].handle = req[t].handle
  BY DEF ServingShown
<1> QED
  BY <1>2, <1>4, <1>5 DEF DirShown, UnbornShown, LingeringShown, MarkedShown

\* Those the service shows to know the name of a handle that is not being
\* renamed are those the kernel knows by it.
LEMMA KnowsName ==
    ASSUME TypeInv, Addressing, NoAliases, NEW h \in Handles, node[h] # Nil, ~Moving(h)
    PROVE  \A g \in Handles : Service!Knows(g, node[h]) <=> node[g] = node[h]
<1> SUFFICES ASSUME NEW g \in Handles
             PROVE  OpenShown[g] # Nil /\ OpenShown[g].name = node[h] <=> node[g] = node[h]
  BY DEF Service!Knows
<1>1. CASE node[g] = Nil
  <2>1. OpenShown[g] = Nil \/ OpenShown[g] = Lost
    BY <1>1, ShownTypes
  <2>2. Lost.name = Nil
    BY DEF Lost
  <2> QED
    BY <1>1, <2>1, <2>2
<1>2. CASE node[g] # Nil
  <2>1. node[g] \in Names /\ ctx[g].unix_path = node[g]
    BY <1>2, KnownIsOpen DEF Addressing, OneName
  <2>2. OpenShown[g] # Nil /\ OpenShown[g].name = Shown[node[g]]
    BY <1>2, <2>1, ShownTypes
  <2> QED
    BY <2>1, <2>2, OwnName
<1> QED
  BY <1>1, <1>2

\* So are those that have it open.
LEMMA OpensOfName ==
    ASSUME TypeInv, Addressing, NoAliases, NEW h \in Handles, node[h] # Nil, ~Moving(h)
    PROVE  Service!Opens(node[h]) = Opens(node[h])
BY KnowsName, ShownTypes DEF Service!Opens, Opens

\* A handle no thread serves is served by no thread of the service.
LEMMA IdleShown ==
    ASSUME TypeInv, NoAliases, NEW h \in Handles, NodeFree(h)
    PROVE  ~Service!Served(h) /\ ~Moving(h)
BY FreeIsIdle, ShownTypes DEF Service!Served, Moving

\* Requests whose handle keeps its name or stays without one, while the path
\* keeps its file, are shown unchanged.
LEMMA ServingSame ==
    ASSUME NoAliases, NoAliases', UNCHANGED req,
           \A t \in Threads : req[t] # Nil =>
             /\ node'[req[t].handle] = Nil <=> node[req[t].handle] = Nil
             /\ node[req[t].handle] # Nil => dirent'[req[t].path] = dirent[req[t].path]
    PROVE  ServingShown' = ServingShown
<1>1. \A t \in Threads : ServingShown'[t] = ServingShown[t]
  BY DEF ServingShown
<1> QED
  BY <1>1 DEF ServingShown

-----------------------------------------------------------------------------
(* The steps.                                                              *)

\* open is OpenFile.
LEMMA ServiceOpen ==
    ASSUME TypeInv, Addressing, PlainNames, NoAliases, TypeInv', NoAliases',
           NEW h \in Handles, NEW n \in Names, NEW b \in BOOLEAN, Open(h, n, b)
    PROVE  Service!OpenFile(h, n)
<1>1. PICK m \in Names :
        /\ Resolves(n, m)
        /\ ctx' = [ctx EXCEPT ![h] = [inode |-> dirent[m], unix_path |-> m,
                                      is_dir |-> dirent[m] \in isdir]]
  BY DEF Open
<1>2. m = n /\ dirent[n] # Nil
  BY <1>1, ResolvesPlain
<1>3. /\ ctx[h] = Nil /\ NamespaceFree /\ n \notin pending
      /\ pending' \in {pending, pending \cup {n}}
      /\ node' = [node EXCEPT ![h] = n]
      /\ UNCHANGED <<writable, dirent, unborn, cleaned, req>>
  BY DEF Open
<1>4. Shown = [x \in Names |-> x] /\ Shown' = Shown
  <2>1. Shown' = Shown
    BY <1>3 DEF Shown, Renaming
  <2> QED
    BY <2>1, <1>3, QuietShown DEF Addressing
<1>5. MarkedShown = pending /\ MarkedShown' = pending'
  BY <1>4, ShownTypes DEF MarkedShown, TypeInv, TypeOK
<1>6. /\ DirShown = dirent
      /\ UNCHANGED <<DirShown, UnbornShown, LingeringShown, ServingShown>>
  <2>1. \A t \in Threads : req[t] # Nil => req[t].handle # h /\ req[t].handle \in Handles
    BY <1>3 DEF TypeInv, TypeOK, OpenWhileServed, Request
  <2>2. ServingShown' = ServingShown
    BY <1>3, <2>1, ServingSame DEF TypeInv, TypeOK
  <2> QED
    BY <1>3, <2>2, ShownTypes DEF DirShown, UnbornShown, LingeringShown
<1>7. OpenShown[h] = Nil
  BY <1>3, ShownTypes
<1>8. OpenShown' = [OpenShown EXCEPT ![h] = [file |-> dirent[n], name |-> n]]
  <2>1. [inode |-> dirent[n], unix_path |-> n, is_dir |-> dirent[n] \in isdir]
          \in FileContext
    BY <1>2 DEF TypeInv, TypeOK, FileContext
  <2>2. /\ ctx'[h] # Nil /\ ctx'[h].inode = dirent[n] /\ ctx'[h].unix_path = n
        /\ node'[h] = n
        /\ \A g \in Handles \ {h} : ctx'[g] = ctx[g] /\ node'[g] = node[g]
    BY <1>1, <1>2, <1>3, <2>1, NilAssumption DEF TypeInv, TypeOK
  <2>3. OpenShown'[h] = [file |-> dirent[n], name |-> n]
    BY <1>4, <2>2, NilAssumption DEF OpenShown
  <2>4. \A g \in Handles \ {h} : OpenShown'[g] = OpenShown[g]
    BY <1>4, <2>2 DEF OpenShown
  <2> QED
    BY <2>3, <2>4 DEF OpenShown
<1> QED
  BY <1>2, <1>3, <1>5, <1>6, <1>7, <1>8 DEF Service!OpenFile

\* create is CreateFile.
LEMMA ServiceCreate ==
    ASSUME TypeInv, Addressing, NoAliases, TypeInv', NoAliases',
           NEW h \in Handles, NEW n \in Names, NEW dir \in BOOLEAN,
           NEW ok \in BOOLEAN, Create(h, n, dir, ok)
    PROVE  Service!CreateFile(h, n)
<1>1. PICK f \in unborn \ Links :
        /\ dirent' = [dirent EXCEPT ![n] = f]
        /\ unborn' = unborn \ {f}
        /\ IF ok
             THEN /\ ctx' = [ctx EXCEPT ![h] = [inode |-> f, unix_path |-> n,
                                                is_dir |-> dir]]
                  /\ node' = [node EXCEPT ![h] = n]
             ELSE UNCHANGED <<ctx, node>>
  BY DEF Create
<1>2. /\ writable /\ ctx[h] = Nil /\ NamespaceFree /\ dirent[n] = Nil
      /\ n \notin pending /\ UNCHANGED <<writable, cleaned, pending, req>>
  BY DEF Create, EnsureWritable
<1>3. Shown = [x \in Names |-> x] /\ Shown' = Shown
  <2>1. Shown' = Shown
    BY <1>2 DEF Shown, Renaming
  <2> QED
    BY <2>1, <1>2, QuietShown DEF Addressing
<1>4. MarkedShown = pending /\ MarkedShown' = pending'
  BY <1>3, ShownTypes DEF MarkedShown, TypeInv, TypeOK
<1>5. /\ DirShown = dirent /\ DirShown' = dirent'
      /\ UnbornShown = unborn /\ UnbornShown' = unborn'
      /\ UNCHANGED LingeringShown
  BY <1>2, ShownTypes DEF DirShown, UnbornShown, LingeringShown
<1>6. OpenShown[h] = Nil
  BY <1>2, ShownTypes
<1>7. OpenShown' \in {OpenShown, [OpenShown EXCEPT ![h] = [file |-> f, name |-> n]]}
  <2>1. ASSUME ok PROVE OpenShown' = [OpenShown EXCEPT ![h] = [file |-> f, name |-> n]]
    <3>1. [inode |-> f, unix_path |-> n, is_dir |-> dir] \in FileContext
      BY DEF TypeInv, TypeOK, FileContext
    <3>2. /\ ctx'[h] # Nil /\ ctx'[h].inode = f /\ ctx'[h].unix_path = n
          /\ node'[h] = n
          /\ \A g \in Handles \ {h} : ctx'[g] = ctx[g] /\ node'[g] = node[g]
      BY <1>1, <2>1, <3>1, NilAssumption DEF TypeInv, TypeOK
    <3>3. OpenShown'[h] = [file |-> f, name |-> n]
      BY <1>3, <3>2, NilAssumption DEF OpenShown
    <3>4. \A g \in Handles \ {h} : OpenShown'[g] = OpenShown[g]
      BY <1>3, <3>2 DEF OpenShown
    <3> QED
      BY <3>3, <3>4 DEF OpenShown
  <2>2. ASSUME ~ok PROVE OpenShown' = OpenShown
    BY <1>1, <1>3, <2>2 DEF OpenShown
  <2> QED
    BY <2>1, <2>2
<1>8. UNCHANGED ServingShown
  <2>1. ASSUME NEW t \in Threads, req[t] # Nil
        PROVE  /\ node'[req[t].handle] = node[req[t].handle]
               /\ node[req[t].handle] # Nil => dirent'[req[t].path] = dirent[req[t].path]
    <3>1. req[t].handle \in Handles /\ req[t].handle # h
      BY <1>2, <2>1 DEF TypeInv, TypeOK, Request, OpenWhileServed
    <3>2. node'[req[t].handle] = node[req[t].handle]
      BY <1>1, <3>1 DEF TypeInv, TypeOK
    <3>3. ASSUME node[req[t].handle] # Nil PROVE req[t].path \in Names \ {n}
      BY <1>2, <2>1, <3>1, <3>3, QuietNames, KnownIsOpen, NilAssumption
         DEF Addressing, OneName
    <3> QED
      BY <1>1, <3>2, <3>3 DEF TypeInv, TypeOK
  <2> QED
    BY <1>2, <2>1, ServingSame
<1>9. f \in unborn
  BY <1>1
<1> QED
  BY <1>1, <1>2, <1>4, <1>5, <1>6, <1>7, <1>8, <1>9 DEF Service!CreateFile

\* set_delete is Mark.
LEMMA ServiceMark ==
    ASSUME TypeInv, Addressing, NoAliases, NoAliases',
           NEW h \in Handles, NEW b \in BOOLEAN, SetDelete(h, b)
    PROVE  Service!Mark(h)
<1>1. /\ writable /\ ctx[h] # Nil /\ h \notin cleaned /\ node[h] # Nil
      /\ NodeFree(h) /\ Opens(node[h]) = {h}
      /\ pending' \in {pending \cup {node[h]}, pending \ {node[h]}}
      /\ UNCHANGED <<writable, dirent, unborn, ctx, node, cleaned, req>>
  BY DEF SetDelete, EnsureWritable, MayDelete, NoAliases, TypeInv, OpenWhileServed
<1>2. ~Service!Served(h) /\ ~Moving(h)
  BY <1>1, IdleShown
<1>3. /\ node[h] \in Names /\ Shown[node[h]] = node[h]
      /\ \A n \in Names : Shown[n] = node[h] => n = node[h]
  BY <1>1, <1>2, OwnName
<1>4. Shown' = Shown /\ pending \subseteq Names
  BY <1>1 DEF Shown, Renaming, TypeInv, TypeOK
<1>5. OpenShown[h] # Nil /\ OpenShown[h].name = node[h]
  BY <1>1, <1>3, ShownTypes DEF Addressing, OneName
<1>6. Service!Opens(node[h]) = {h}
  BY <1>1, <1>2, OpensOfName
<1>7. MarkedShown' \in {MarkedShown \cup {node[h]}, MarkedShown \ {node[h]}}
  <2>1. /\ MarkedShown = {Shown[n] : n \in pending}
        /\ MarkedShown' = {Shown[n] : n \in pending'}
    BY <1>4 DEF MarkedShown
  <2>2. CASE pending' = pending \cup {node[h]}
    BY <1>3, <2>1, <2>2
  <2>3. CASE pending' = pending \ {node[h]}
    BY <1>3, <1>4, <2>1, <2>3
  <2> QED
    BY <1>1, <2>2, <2>3
<1>8. UNCHANGED <<DirShown, UnbornShown, OpenShown, LingeringShown, ServingShown>>
  BY <1>1, <1>4, ServingSame DEF DirShown, UnbornShown, OpenShown, LingeringShown
<1>9. LingeringShown = cleaned
  BY ShownTypes
<1> QED
  BY <1>1, <1>2, <1>5, <1>6, <1>7, <1>8, <1>9 DEF Service!Mark

\* What Cleanup and CleanupMarked need of the handle that is cleaned up.
LEMMA CleaningShown ==
    ASSUME TypeInv, Addressing, NoAliases, NoAliases',
           NEW h \in Handles, NEW b \in BOOLEAN, Cleanup(h, b)
    PROVE  /\ ctx[h] # Nil /\ h \notin cleaned /\ node[h] \in Names /\ node[h] # Nil
           /\ OpenShown[h] # Nil /\ OpenShown[h].name = node[h]
           /\ OpenShown[h].file = dirent[node[h]]
           /\ ctx[h].unix_path = node[h]
           /\ Service!Opens(node[h]) = Opens(node[h])
           /\ \A g \in Handles : Service!Knows(g, node[h]) <=> node[g] = node[h]
           /\ \A g \in Handles : node[g] = node[h] => ~Service!Served(g)
           /\ MarkedShown = pending /\ MarkedShown' = pending'
           /\ DirShown = dirent /\ DirShown' = dirent'
           /\ LingeringShown = cleaned /\ LingeringShown' = cleaned \cup {h}
           /\ Shown' = Shown
           /\ UNCHANGED <<writable, UnbornShown>>
<1>1. /\ ctx[h] # Nil /\ h \notin cleaned /\ NamespaceFree /\ NodeFree(h)
      /\ pending' \subseteq pending /\ cleaned' = cleaned \cup {h}
      /\ UNCHANGED <<writable, unborn, ctx, req>>
  BY DEF Cleanup
<1>2. node[h] # Nil /\ node[h] \in Names /\ ctx[h].unix_path = node[h]
  BY <1>1, KnownIsOpen DEF TypeInv, OpenWhileServed, Addressing, OneName
<1>3. ~Moving(h)
  BY <1>1, IdleShown
<1>4. Shown = [x \in Names |-> x] /\ Shown' = Shown
  <2>1. Shown' = Shown
    BY <1>1 DEF Shown, Renaming
  <2> QED
    BY <2>1, <1>1, QuietShown DEF Addressing
<1>5. MarkedShown = pending /\ MarkedShown' = pending'
  BY <1>1, <1>4, ShownTypes DEF MarkedShown, TypeInv, TypeOK
<1>6. /\ OpenShown[h] # Nil /\ OpenShown[h].name = node[h]
      /\ OpenShown[h].file = dirent[node[h]]
  BY <1>1, <1>2, <1>4, QuietNames, ShownTypes
<1>7. \A g \in Handles : node[g] = node[h] => ~Service!Served(g)
  <2>1. \A t \in Threads : ServingShown[t] # Nil =>
          req[t] # Nil /\ ServingShown[t].handle = req[t].handle
    BY ShownTypes
  <2> QED
    BY <1>1, <1>2, <2>1, FreeIsIdle DEF Service!Served
<1>8. /\ DirShown = dirent /\ DirShown' = dirent' /\ UNCHANGED UnbornShown
      /\ LingeringShown = cleaned /\ LingeringShown' = cleaned \cup {h}
  BY <1>1, ShownTypes DEF DirShown, UnbornShown, LingeringShown
<1>9. /\ Service!Opens(node[h]) = Opens(node[h])
      /\ \A g \in Handles : Service!Knows(g, node[h]) <=> node[g] = node[h]
  BY <1>2, <1>3, OpensOfName, KnowsName
<1> QED
  BY <1>1, <1>2, <1>4, <1>5, <1>6, <1>7, <1>8, <1>9

\* cleanup is Cleanup, or CleanupMarked when it was asked to delete.
LEMMA ServiceCleanup ==
    ASSUME TypeInv, Addressing, NoAliases, NoAliases',
           NEW h \in Handles, NEW b \in BOOLEAN, Cleanup(h, b)
    PROVE  Service!Cleanup(h) \/ Service!CleanupMarked(h)
<1> DEFINE n == node[h]
           delete == n \in pending /\ Opens(n) = {h}
<1>1. CASE ~delete
  <2>1. UNCHANGED <<dirent, pending, node, ctx, req>>
    BY <1>1 DEF Cleanup, Unlinks
  <2>2. UNCHANGED <<OpenShown, ServingShown>>
    BY <2>1, CleaningShown, ServingSame DEF OpenShown
  <2> QED
    BY <1>1, <2>1, <2>2, CleaningShown DEF Service!Cleanup
<1>2. CASE delete
  <2>1. /\ \/ dirent' = dirent
           \/ writable /\ dirent' = [dirent EXCEPT ![n] = Nil]
        /\ pending' = pending \ {n}
        /\ node' = [g \in Handles |-> IF node[g] = n THEN Nil ELSE node[g]]
        /\ UNCHANGED <<ctx, req>>
    BY <1>2, CleaningShown DEF Cleanup, Unlinks
  <2>2. ASSUME NEW g \in Handles
        PROVE  OpenShown'[g] = IF Service!Knows(g, n) THEN Lost ELSE OpenShown[g]
    <3>1. CASE node[g] = n
      <4>1. ctx[g] # Nil /\ node'[g] = Nil
        BY <2>1, <3>1, CleaningShown, KnownIsOpen
      <4> QED
        BY <2>1, <3>1, <4>1, CleaningShown DEF OpenShown
    <3>2. CASE node[g] # n
      <4>1. node'[g] = node[g]
        BY <2>1, <3>2
      <4> QED
        BY <2>1, <3>2, <4>1, CleaningShown DEF OpenShown
    <3> QED
      BY <3>1, <3>2
  <2>3. OpenShown' = [g \in Handles |-> IF Service!Knows(g, n) THEN Lost ELSE OpenShown[g]]
    BY <2>2 DEF OpenShown
  <2>4. UNCHANGED ServingShown
    <3>1. ASSUME NEW t \in Threads, req[t] # Nil
          PROVE  /\ node'[req[t].handle] = node[req[t].handle]
                 /\ node[req[t].handle] # Nil =>
                       dirent'[req[t].path] = dirent[req[t].path]
      <4>1. req[t].handle \in Handles /\ node[req[t].handle] # n
        <5>1. NodeFree(h) /\ n # Nil /\ req[t].handle \in Handles
          BY <3>1, CleaningShown DEF Cleanup, TypeInv, TypeOK, Request
        <5> QED
          BY <3>1, <5>1, FreeIsIdle
      <4>2. node'[req[t].handle] = node[req[t].handle]
        BY <2>1, <4>1
      <4>3. node[req[t].handle] # Nil => req[t].path \in Names \ {n}
        BY <3>1, <4>1, KnownIsOpen DEF Addressing, OneName
      <4> QED
        BY <2>1, <4>2, <4>3 DEF TypeInv, TypeOK
    <3> QED
      BY <2>1, <3>1, ServingSame
  <2>5. Service!CleanupMarked(h)
    <3>1. /\ DirShown[n] = OpenShown[h].file
          /\ \/ UNCHANGED DirShown
             \/ writable /\ DirShown' = [DirShown EXCEPT ![n] = Nil]
      BY <2>1, CleaningShown
    <3>2. /\ OpenShown[h].name = n /\ n \in MarkedShown /\ Service!Opens(n) = {h}
          /\ MarkedShown' = MarkedShown \ {n}
          /\ LingeringShown' = LingeringShown \cup {h} /\ h \notin LingeringShown
          /\ OpenShown[h] # Nil
          /\ \A g \in Handles : Service!Knows(g, n) => ~Service!Served(g)
          /\ UNCHANGED <<writable, UnbornShown>>
      BY <1>2, <2>1, CleaningShown
    <3>3. Lost = Service!Lost
      BY DEF Lost, Service!Lost
    <3> HIDE DEF n
    <3> QED
      BY <2>3, <2>4, <3>1, <3>2, <3>3 DEF Service!CleanupMarked
  <2> QED
    BY <2>5
<1> QED
  BY <1>1, <1>2

\* close is Close.
LEMMA ServiceClose ==
    ASSUME TypeInv, Addressing, NoAliases, NoAliases', NEW h \in Handles, Close(h)
    PROVE  Service!Close(h)
<1>1. /\ h \in cleaned /\ cleaned' = cleaned \ {h}
      /\ ctx' = [ctx EXCEPT ![h] = Nil]
      /\ node' = [node EXCEPT ![h] = Nil]
      /\ UNCHANGED <<writable, dirent, unborn, pending, req>>
      /\ \A t \in Threads : req[t] # Nil => req[t].handle # h
  BY DEF Close, Busy
<1>2. Shown' = Shown
  BY <1>1 DEF Shown, Renaming
<1>3. ~Service!Served(h)
  BY <1>1, ShownTypes DEF Service!Served
<1>4. OpenShown' = [OpenShown EXCEPT ![h] = Nil]
  <2>1. ctx'[h] = Nil /\ \A g \in Handles \ {h} : ctx'[g] = ctx[g] /\ node'[g] = node[g]
    BY <1>1 DEF TypeInv, TypeOK
  <2>2. OpenShown'[h] = Nil /\ \A g \in Handles \ {h} : OpenShown'[g] = OpenShown[g]
    BY <1>2, <2>1 DEF OpenShown
  <2> QED
    BY <2>2 DEF OpenShown
<1>5. UNCHANGED ServingShown
  <2>1. \A t \in Threads : req[t] # Nil => node'[req[t].handle] = node[req[t].handle]
    BY <1>1 DEF TypeInv, TypeOK
  <2> QED
    BY <1>1, <2>1, ServingSame
<1>6. LingeringShown = cleaned /\ LingeringShown' = LingeringShown \ {h}
  BY <1>1, ShownTypes DEF LingeringShown
<1>7. UNCHANGED <<DirShown, UnbornShown, MarkedShown>>
  BY <1>1, <1>2 DEF DirShown, UnbornShown, MarkedShown
<1> QED
  BY <1>1, <1>3, <1>4, <1>5, <1>6, <1>7 DEF Service!Close

\* A request that begins is Begin (read, write and the rest).
LEMMA ServiceBegin ==
    ASSUME TypeInv, Addressing, NoAliases, NoAliases', NEW t \in Threads,
           NEW h \in Handles, NEW op \in {"read", "write"}, BeginIO(t, h, op)
    PROVE  Service!Begin(t, h)
<1> DEFINE r == IORequest(h, op)
<1>1. /\ req[t] = Nil /\ ctx[h] # Nil /\ req' = [req EXCEPT ![t] = r]
      /\ UNCHANGED <<writable, dirent, unborn, ctx, node, cleaned, pending>>
  BY DEF BeginIO
<1>2. /\ r \in Request /\ r # Nil /\ r.op # "rename" /\ r.pc # "moved"
      /\ r.handle = h
      /\ node[h] # Nil => r.path = node[h]
  BY <1>1, IORequestType, NilAssumption DEF TypeInv, IORequest, Addressing, OneName
<1> HIDE DEF r
<1>3. ~Moving(h)
  BY DEF BeginIO, NodeFree, NodeShared, Busy, Mates, Moving, Addressing, RenameAlone
<1>4. Shown' = Shown
  <2>1. \A u \in Threads : /\ Renaming(u)' <=> Renaming(u)
                           /\ Renaming(u) => req'[u] = req[u]
    BY <1>1, <1>2 DEF Renaming, TypeInv, TypeOK
  <2> QED
    BY <2>1, ShownSame
<1>5. /\ OpenShown[h] # Nil
      /\ OpenShown[h].file = IF node[h] = Nil THEN Nil ELSE dirent[node[h]]
  <2>1. CASE node[h] = Nil
    BY <1>1, <2>1, ShownTypes DEF Lost
  <2>2. CASE node[h] # Nil
    BY <1>1, <1>3, <2>2, ShownTypes DEF Addressing, FileAtName
  <2> QED
    BY <2>1, <2>2
<1>6. ServingShown[t] = Nil
      /\ ServingShown' = [ServingShown EXCEPT ![t] =
                             [handle |-> h, file |-> OpenShown[h].file]]
  <2>1. req'[t] = r /\ \A u \in Threads \ {t} : req'[u] = req[u]
    BY <1>1 DEF TypeInv, TypeOK
  <2>2. ServingShown'[t] = [handle |-> h, file |-> OpenShown[h].file]
    <3>1. CASE node[h] = Nil
      BY <1>1, <1>2, <1>5, <2>1, <3>1 DEF ServingShown
    <3>2. CASE node[h] # Nil
      BY <1>1, <1>2, <1>5, <2>1, <3>2 DEF ServingShown
    <3> QED
      BY <3>1, <3>2
  <2>3. ASSUME NEW u \in Threads \ {t} PROVE ServingShown'[u] = ServingShown[u]
    <3>1. req'[u] = req[u] /\ UNCHANGED <<node, dirent>>
      BY <1>1, <2>1
    <3> QED
      BY <3>1 DEF ServingShown
  <2>4. ServingShown[t] = Nil
    BY <1>1 DEF ServingShown
  <2>5. /\ ServingShown' = [u \in Threads |-> ServingShown'[u]]
        /\ ServingShown = [u \in Threads |-> ServingShown[u]]
    BY DEF ServingShown
  <2> QED
    BY <2>2, <2>3, <2>4, <2>5
<1>7. UNCHANGED <<DirShown, UnbornShown, OpenShown, LingeringShown, MarkedShown>>
  BY <1>1, <1>4 DEF DirShown, UnbornShown, OpenShown, LingeringShown, MarkedShown
<1> QED
  BY <1>1, <1>5, <1>6, <1>7 DEF Service!Begin

\* Steps that leave names, contexts and marks alone, and end or advance a
\* request that has moved nothing, show nothing or the end of a request.
LEMMA ServiceIO ==
    ASSUME TypeInv, Addressing, NoAliases, NoAliases', NEW t \in Threads,
           \/ IOStat(t) \/ IOAccess(t) \/ IORefresh(t) \/ Fail(t)
    PROVE  Service!End(t) \/ UNCHANGED Service!vars
<1>1. /\ req[t] # Nil /\ req[t].pc # "moved"
      /\ UNCHANGED <<writable, dirent, unborn, ctx, node, cleaned, pending>>
      /\ \/ req' = [req EXCEPT ![t] = Nil]
         \/ req' = [req EXCEPT ![t].pc = "access"]
         \/ req' = [req EXCEPT ![t].pc = "refresh"]
  BY DEF IOStat, IOAccess, IORefresh, Fail, Advance, Reply
<1>2. req[t] \in Request
  BY <1>1 DEF TypeInv, TypeOK
<1>3. /\ \A u \in Threads \ {t} : req'[u] = req[u]
      /\ \/ req'[t] = Nil
         \/ /\ req'[t] # Nil /\ req'[t].pc # "moved" /\ req'[t].op = req[t].op
            /\ req'[t].handle = req[t].handle /\ req'[t].path = req[t].path
  <2>1. CASE req' = [req EXCEPT ![t] = Nil]
    BY <2>1 DEF TypeInv, TypeOK
  <2>2. ASSUME NEW pc \in {"access", "refresh"}, req' = [req EXCEPT ![t].pc = pc]
        PROVE  <1>3!2!2
    <3>1. [req[t] EXCEPT !.pc = pc] \in Request
      BY <1>2 DEF Request
    <3> QED
      BY <1>2, <2>2, <3>1, NilAssumption DEF TypeInv, TypeOK, Request
  <2> QED
    BY <1>1, <2>1, <2>2 DEF TypeInv, TypeOK
<1>4. Shown' = Shown
  <2>1. \A u \in Threads : /\ Renaming(u)' <=> Renaming(u)
                           /\ Renaming(u) => req'[u] = req[u]
    BY <1>1, <1>3 DEF Renaming
  <2> QED
    BY <2>1, ShownSame
<1>5. UNCHANGED <<writable, DirShown, UnbornShown, OpenShown, LingeringShown, MarkedShown>>
  BY <1>1, <1>4 DEF DirShown, UnbornShown, OpenShown, LingeringShown, MarkedShown
<1>6. CASE req'[t] = Nil /\ ServingShown[t] # Nil
  <2>1. \A u \in Threads : ServingShown'[u] = IF u = t THEN Nil ELSE ServingShown[u]
    BY <1>1, <1>3, <1>6 DEF ServingShown
  <2>2. ServingShown' = [ServingShown EXCEPT ![t] = Nil]
    BY <2>1 DEF ServingShown
  <2> QED
    BY <1>5, <1>6, <2>2 DEF Service!End
<1>7. CASE req'[t] # Nil \/ ServingShown[t] = Nil
  <2>1. \A u \in Threads : ServingShown'[u] = ServingShown[u]
    BY <1>1, <1>3, <1>7 DEF ServingShown
  <2>2. ServingShown' = ServingShown
    BY <2>1 DEF ServingShown
  <2> QED
    BY <1>5, <2>2 DEF Service!vars
<1> QED
  BY <1>6, <1>7

\* A rename that begins shows nothing (rename, before fs_ext4_rename2).
LEMMA ServiceBeginRename ==
    ASSUME TypeInv, Addressing, NoAliases, NoAliases', NEW t \in Threads,
           NEW h \in Handles, NEW n \in Names, NEW b \in BOOLEAN,
           BeginRename(t, h, n, b)
    PROVE  UNCHANGED Service!vars
<1> DEFINE r == [op |-> "rename", handle |-> h, pc |-> "rename2",
                 path |-> node[h], dst |-> n, replace |-> b]
<1>1. /\ req[t] = Nil /\ req' = [req EXCEPT ![t] = r]
      /\ UNCHANGED <<writable, dirent, unborn, ctx, node, cleaned, pending>>
  BY DEF BeginRename
<1>2. r.op = "rename" /\ r.pc = "rename2"
  OBVIOUS
<1> HIDE DEF r
<1>3. Shown' = Shown
  <2>1. \A u \in Threads : /\ Renaming(u)' <=> Renaming(u)
                           /\ Renaming(u) => req'[u] = req[u]
    BY <1>1, <1>2 DEF Renaming, TypeInv, TypeOK
  <2> QED
    BY <2>1, ShownSame
<1>4. \A u \in Threads : ServingShown'[u] = ServingShown[u]
  BY <1>1, <1>2 DEF ServingShown, TypeInv, TypeOK
<1>5. ServingShown' = ServingShown
  BY <1>4 DEF ServingShown
<1>6. UNCHANGED <<writable, DirShown, UnbornShown, OpenShown, LingeringShown, MarkedShown>>
  BY <1>1, <1>3 DEF DirShown, UnbornShown, OpenShown, LingeringShown, MarkedShown
<1> QED
  BY <1>5, <1>6 DEF Service!vars

\* fs_ext4_rename2 is the whole Rename: the name moves in the directory and,
\* as far as the service shows, in the context and the mark; what lingered on
\* either name has lost it.
LEMMA ServiceRename ==
    ASSUME TypeInv, NoChangeReadOnly, Addressing, NoAliases,
           TypeInv', Addressing', NoAliases', NEW t \in Threads, Rename2(t)
    PROVE  Service!Rename(req[t].handle, req[t].dst)
<1> DEFINE h == req[t].handle
           src == req[t].path
           dst == req[t].dst
           Loses(g) == g \in cleaned /\ node[g] \in {src, dst}
<1>1. /\ req[t] # Nil /\ req[t].pc = "rename2"
      /\ dirent' = [dirent EXCEPT ![dst] = dirent[src], ![src] = Nil]
      /\ node' = [g \in Handles |-> IF Loses(g) THEN Nil ELSE node[g]]
      /\ req' = [req EXCEPT ![t].pc = "moved"]
      /\ UNCHANGED <<writable, unborn, ctx, cleaned, pending>>
  BY DEF Rename2, Advance
<1>2. /\ req[t] \in Request /\ req[t].op = "rename"
      /\ h \in Handles /\ src \in Names /\ dst \in Names
  BY <1>1 DEF TypeInv, TypeOK, Addressing, RenameAlone, Request
<1>16. /\ node[h] = src /\ node[h] # Nil /\ ctx[h] # Nil /\ h \notin cleaned
       /\ ctx[h].unix_path = src
       /\ Opens(src) = {h} /\ Opens(dst) = {} /\ dst # src
       /\ \A u \in Threads \ {t} : req[u] # Nil =>
             req[u].op # "rename" /\ req[u].handle # h
  <2>1. ctx[h] # Nil /\ h \notin cleaned /\ node[h] # Nil
    BY <1>1, <1>2 DEF TypeInv, OpenWhileServed
  <2>2. node[h] = src /\ ctx[h].unix_path = src
    BY <1>1, <1>2, <2>1 DEF Addressing, OneName
  <2> QED
    BY <1>1, <1>2, <2>1, <2>2 DEF Addressing, RenameAlone
<1>3. /\ req'[t] # Nil /\ req'[t].pc = "moved" /\ req'[t].op = "rename"
      /\ req'[t].path = src /\ req'[t].dst = dst
      /\ \A u \in Threads \ {t} : req'[u] = req[u]
  <2>1. [req[t] EXCEPT !.pc = "moved"] \in Request
    BY <1>2 DEF Request
  <2> QED
    BY <1>1, <1>2, <2>1, NilAssumption DEF TypeInv, TypeOK, Request
<1>4. \A u \in Threads : ~Renaming(u)
  BY <1>1, <1>2, <1>16 DEF Renaming, Addressing, RenameAlone
<1>5. ~Moving(h)
  BY <1>4 DEF Moving, Renaming
<1>6. Shown = [n \in Names |-> n]
  BY <1>4, ShownPlain
<1>7. Shown' = [n \in Names |-> IF n = src THEN dst ELSE n]
  <2>1. \A u \in Threads : Renaming(u)' <=> u = t
    BY <1>3, <1>4, <1>16 DEF Renaming
  <2>2. ASSUME NEW n \in Names PROVE Shown'[n] = IF n = src THEN dst ELSE n
    <3>1. CASE n = src
      <4>1. \A u \in Threads : Renaming(u)' /\ req'[u].path = n <=> u = t
        BY <1>3, <2>1, <3>1
      <4>2. (CHOOSE u \in Threads : Renaming(u)' /\ req'[u].path = n) = t
        BY <4>1
      <4> QED
        BY <1>3, <3>1, <4>1, <4>2 DEF Shown
    <3>2. CASE n # src
      BY <1>3, <2>1, <3>2 DEF Shown
    <3> QED
      BY <3>1, <3>2
  <2> QED
    BY <2>2 DEF Shown
<1>8. /\ DirShown = dirent /\ DirShown' = dirent'
      /\ UNCHANGED <<UnbornShown, LingeringShown>> /\ LingeringShown = cleaned
      /\ OpenShown[h] # Nil /\ OpenShown[h].name = src
      /\ OpenShown[h].file = dirent[src]
  <2>1. dirent[src] = ctx[h].inode
    BY <1>2, <1>5, <1>16 DEF Addressing, FileAtName
  <2>2. OpenShown[h] # Nil /\ OpenShown[h].name = src /\ OpenShown[h].file = dirent[src]
    BY <1>2, <1>6, <1>16, <2>1, ShownTypes
  <2> QED
    BY <1>1, <2>2, ShownTypes DEF DirShown, UnbornShown, LingeringShown
<1>17. ASSUME NEW g \in Handles, NEW n \in Names
       PROVE  Service!Knows(g, n) <=> node[g] = n
  <2>1. CASE node[g] = Nil
    <3>1. OpenShown[g] = Nil \/ OpenShown[g] = Lost
      BY <2>1, ShownTypes
    <3> QED
      BY <2>1, <3>1, NilAssumption DEF Lost, Service!Knows
  <2>2. CASE node[g] # Nil
    <3>1. node[g] \in Names /\ ctx[g].unix_path = node[g]
      BY <2>2, KnownIsOpen DEF Addressing, OneName
    <3> QED
      BY <1>6, <2>2, <3>1, ShownTypes DEF Service!Knows
  <2> QED
    BY <2>1, <2>2
<1>9. Service!Opens(src) = {h} /\ Service!Opens(dst) = {}
  BY <1>2, <1>8, <1>16, <1>17 DEF Service!Opens, Opens
<1>10. MarkedShown = pending
       /\ MarkedShown' = IF src \in pending THEN (pending \ {src}) \cup {dst}
                                             ELSE pending
  <2>1. MarkedShown = {Shown[n] : n \in pending} /\ pending \subseteq Names
    BY DEF MarkedShown, TypeInv, TypeOK
  <2>2. MarkedShown' = {Shown'[n] : n \in pending}
    BY <1>1 DEF MarkedShown
  <2> QED
    BY <1>6, <1>7, <2>1, <2>2
<1>18. \A g \in Handles : Loses(g) <=>
         g \in LingeringShown /\ (Service!Knows(g, src) \/ Service!Knows(g, dst))
  BY <1>2, <1>8, <1>17
<1>11. ASSUME NEW g \in Handles
       PROVE  OpenShown'[g] = IF g = h THEN [file |-> dirent[src], name |-> dst]
                              ELSE IF Loses(g) THEN Lost ELSE OpenShown[g]
  <2>1. CASE g = h
    <3>1. ctx'[h] # Nil /\ node'[h] # Nil /\ ctx'[h].inode = dirent[src]
          /\ ctx'[h].unix_path = src
      BY <1>1, <1>2, <1>5, <1>16 DEF Addressing, FileAtName
    <3> QED
      BY <1>2, <1>7, <2>1, <3>1 DEF OpenShown
  <2>2. CASE g # h /\ Loses(g)
    <3>1. ctx'[g] # Nil /\ node'[g] = Nil
      BY <1>1, <2>2 DEF TypeInv, OpenWhileServed
    <3> QED
      BY <2>2, <3>1 DEF OpenShown
  <2>3. CASE g # h /\ ~Loses(g) /\ node[g] = Nil
    <3>1. ctx'[g] = ctx[g] /\ node'[g] = Nil
      BY <1>1, <2>3
    <3> QED
      BY <2>3, <3>1 DEF OpenShown
  <2>4. CASE g # h /\ ~Loses(g) /\ node[g] # Nil
    <3>1. node[g] \in Names /\ ctx[g].unix_path = node[g] /\ ctx[g] # Nil
      BY <2>4, KnownIsOpen DEF Addressing, OneName
    <3>2. node[g] # src
      BY <1>16, <2>4 DEF Opens
    <3>3. ctx'[g] = ctx[g] /\ node'[g] = node[g]
      BY <1>1, <2>4
    <3> QED
      BY <1>6, <1>7, <2>4, <3>1, <3>2, <3>3 DEF OpenShown
  <2> QED
    BY <2>1, <2>2, <2>3, <2>4
<1>12. ASSUME NEW u \in Threads
       PROVE  ServingShown'[u] =
                IF ServingShown[u] # Nil /\ Loses(ServingShown[u].handle)
                  THEN [ServingShown[u] EXCEPT !.file = Nil] ELSE ServingShown[u]
  <2>1. CASE u = t
    BY <1>2, <1>3, <2>1 DEF ServingShown
  <2>2. CASE u # t /\ req[u] = Nil
    BY <1>3, <2>2 DEF ServingShown
  <2>3. CASE u # t /\ req[u] # Nil
    <3> DEFINE g == req[u].handle
               Before == [handle |-> g,
                          file |-> IF node[g] = Nil THEN Nil ELSE dirent[req[u].path]]
               After == [handle |-> g,
                         file |-> IF node'[g] = Nil THEN Nil ELSE dirent'[req[u].path]]
    <3>1. g \in Handles /\ req[u] \in Request /\ req[u].op # "rename" /\ req'[u] = req[u]
      BY <1>3, <1>16, <2>3 DEF TypeInv, TypeOK, Request
    <3>2. ServingShown[u] = Before /\ ServingShown'[u] = After
      BY <2>3, <3>1 DEF ServingShown
    <3>3. Before # Nil
      <4>1. req[u].path \in Names
        BY <3>1 DEF Request
      <4>2. Before \in [handle: Handles, file: Files \cup {Nil}]
        BY <3>1, <4>1 DEF TypeInv, TypeOK
      <4> QED
        BY <4>2, NilAssumption
    <3>4. CASE Loses(g)
      <4>1. node'[g] = Nil
        BY <1>1, <3>1, <3>4
      <4> QED
        BY <3>2, <3>3, <3>4, <4>1
    <3>5. CASE ~Loses(g)
      <4>1. node'[g] = node[g]
        BY <1>1, <3>1, <3>5
      <4>2. ASSUME node[g] # Nil PROVE dirent'[req[u].path] = dirent[req[u].path]
        <5>1. req[u].path = node[g] /\ node[g] \in Names
          BY <2>3, <3>1, <4>2, KnownIsOpen DEF Addressing, OneName
        <5>2. g # h
          BY <1>16, <2>3
        <5>3. node[g] # src /\ node[g] # dst
          BY <1>16, <3>1, <3>5, <5>2 DEF Opens
        <5> QED
          BY <1>1, <1>2, <5>1, <5>3 DEF TypeInv, TypeOK
      <4>3. After = Before
        BY <4>1, <4>2
      <4> QED
        BY <3>2, <3>5, <4>3
    <3> QED
      BY <3>4, <3>5
  <2> QED
    BY <2>1, <2>2, <2>3
<1>13. writable
  BY <1>1 DEF NoChangeReadOnly
<1>14. ~Service!Served(h)
  <2>1. \A u \in Threads : ServingShown[u] # Nil => u # t
    BY <1>2 DEF ServingShown
  <2> QED
    BY <1>16, <2>1, ShownTypes DEF Service!Served
<1>19. OpenShown' = [g \in Handles |-> IF g = h THEN [file |-> dirent[src], name |-> dst]
                                       ELSE IF Loses(g) THEN Lost ELSE OpenShown[g]]
  BY <1>11 DEF OpenShown
<1>20. ServingShown' = [u \in Threads |->
                          IF ServingShown[u] # Nil /\ Loses(ServingShown[u].handle)
                            THEN [ServingShown[u] EXCEPT !.file = Nil] ELSE ServingShown[u]]
  BY <1>12 DEF ServingShown
<1>21. \A u \in Threads : ServingShown[u] # Nil => ServingShown[u].handle \in Handles
  BY ShownTypes DEF TypeInv, TypeOK, Request
<1> HIDE DEF h, src, dst, Loses
<1> DEFINE L(g) == g \in LingeringShown /\ (Service!Knows(g, src) \/ Service!Knows(g, dst))
<1>22. OpenShown' = [g \in Handles |-> IF g = h THEN [file |-> DirShown[src], name |-> dst]
                                       ELSE IF L(g) THEN Service!Lost ELSE OpenShown[g]]
  <2>1. Service!Lost = Lost
    BY DEF Lost, Service!Lost
  <2> HIDE DEF L
  <2>2. \A g \in Handles : L(g) <=> Loses(g)
    BY <1>18 DEF L
  <2> QED
    BY <1>8, <1>19, <2>1, <2>2
<1>23. ServingShown' = [u \in Threads |->
                          IF ServingShown[u] # Nil /\ L(ServingShown[u].handle)
                            THEN [ServingShown[u] EXCEPT !.file = Nil] ELSE ServingShown[u]]
  <2> HIDE DEF L
  <2>1. \A g \in Handles : L(g) <=> Loses(g)
    BY <1>18 DEF L
  <2>2. \A u \in Threads : ServingShown[u] # Nil =>
          (L(ServingShown[u].handle) <=> Loses(ServingShown[u].handle))
    BY <1>21, <2>1
  <2> QED
    BY <1>20, <2>2
<1>15. Service!Rename(h, dst)
  <2>1. DirShown' = [DirShown EXCEPT ![dst] = DirShown[src], ![src] = Nil]
    BY <1>1, <1>8 DEF h, src, dst
  <2>2. h \notin LingeringShown /\ UNCHANGED <<writable, UnbornShown, LingeringShown>>
    BY <1>1, <1>8, <1>16
  <2> QED
    BY <1>8, <1>9, <1>10, <1>13, <1>14, <1>16, <1>22, <1>23, <2>1, <2>2
       DEF Service!Rename
<1> QED
  BY <1>15 DEF h, dst

\* The update of the context shows nothing: the service has moved already.
LEMMA ServiceFinishRename ==
    ASSUME TypeInv, Addressing, NoAliases, NoAliases', TypeInv', Addressing',
           NEW t \in Threads, FinishRename(t)
    PROVE  UNCHANGED Service!vars
<1> DEFINE h == req[t].handle
           src == req[t].path
           dst == req[t].dst
<1>1. /\ Renaming(t)
      /\ ctx' = [ctx EXCEPT ![h].unix_path = dst]
      /\ node' = [g \in Handles |-> IF node[g] = src THEN dst ELSE node[g]]
      /\ pending' = IF src \in pending THEN (pending \ {src}) \cup {dst} ELSE pending
      /\ req' = [req EXCEPT ![t] = Nil]
      /\ UNCHANGED <<writable, dirent, unborn, cleaned>>
  BY DEF FinishRename, UpdatesPath, Reply, Renaming
<1>2. /\ req[t] \in Request /\ req[t].op = "rename" /\ h \in Handles
      /\ src \in Names /\ dst \in Names
  BY <1>1 DEF TypeInv, TypeOK, Addressing, RenameAlone, Renaming, Request
<1>9. /\ node[h] = src /\ ctx[h] # Nil /\ ctx[h].unix_path = src /\ dst # src
      /\ \A g \in Handles \ {h} : node[g] # src
      /\ \A u \in Threads \ {t} : ~Renaming(u)
  BY <1>1, <1>2
     DEF TypeInv, OpenWhileServed, Addressing, OneName, RenameAlone, MovedIsThere, Renaming
<1>10. /\ node'[h] = dst /\ src # Nil /\ dst # Nil
       /\ \A g \in Handles \ {h} : node'[g] = node[g]
       /\ \A g \in Handles : node'[g] = Nil <=> node[g] = Nil
  BY <1>1, <1>2, <1>9, NilAssumption
<1>3. Shown = [n \in Names |-> IF n = src THEN dst ELSE n]
  BY <1>1, ShownMoved DEF Addressing
<1>4. Shown' = [n \in Names |-> n]
  <2>1. \A u \in Threads : ~Renaming(u)'
    BY <1>1, <1>9 DEF Renaming, TypeInv, TypeOK
  <2> QED
    BY <2>1 DEF Shown
<1>5. MarkedShown' = MarkedShown
  <2>1. MarkedShown = {Shown[n] : n \in pending} /\ pending \subseteq Names
    BY DEF MarkedShown, TypeInv, TypeOK
  <2>2. MarkedShown' = {Shown'[n] : n \in pending'} /\ pending' \subseteq Names
    BY DEF MarkedShown, TypeInv, TypeOK
  <2> QED
    BY <1>1, <1>3, <1>4, <2>1, <2>2
<1>6. OpenShown' = OpenShown
  <2>1. ASSUME NEW g \in Handles PROVE OpenShown'[g] = OpenShown[g]
    <3>1. CASE g = h
      <4>1. ctx[h] \in FileContext
        BY <1>2, <1>9 DEF TypeInv, TypeOK
      <4>2. ctx'[h] # Nil /\ ctx'[h].unix_path = dst /\ ctx'[h].inode = ctx[h].inode
        <5>1. [ctx[h] EXCEPT !.unix_path = dst] \in FileContext
          BY <1>2, <4>1 DEF FileContext
        <5>2. ctx'[h] = [ctx[h] EXCEPT !.unix_path = dst]
          BY <1>1, <1>2 DEF TypeInv, TypeOK
        <5> QED
          BY <4>1, <5>1, <5>2, NilAssumption DEF FileContext
      <4> QED
        BY <1>2, <1>3, <1>4, <1>9, <1>10, <3>1, <4>2 DEF OpenShown
    <3>2. CASE g # h /\ node[g] # Nil
      <4>1. node[g] \in Names /\ ctx[g].unix_path = node[g] /\ node[g] # src
        BY <1>9, <3>2, KnownIsOpen DEF Addressing, OneName
      <4>2. ctx'[g] = ctx[g] /\ node'[g] = node[g]
        BY <1>1, <1>2, <1>10, <3>2 DEF TypeInv, TypeOK
      <4> QED
        BY <1>3, <1>4, <3>2, <4>1, <4>2 DEF OpenShown
    <3>3. CASE g # h /\ node[g] = Nil
      <4>1. ctx'[g] = ctx[g] /\ node'[g] = Nil
        BY <1>1, <1>2, <1>10, <3>3 DEF TypeInv, TypeOK
      <4> QED
        BY <3>3, <4>1 DEF OpenShown
    <3> QED
      BY <3>1, <3>2, <3>3
  <2> QED
    BY <2>1 DEF OpenShown
<1>7. ServingShown' = ServingShown
  <2>1. ASSUME NEW v \in Threads PROVE ServingShown'[v] = ServingShown[v]
    <3>1. CASE v = t
      BY <1>1, <1>2, <3>1 DEF ServingShown, TypeInv, TypeOK
    <3>2. CASE v # t /\ req[v] = Nil
      BY <1>1, <3>2 DEF ServingShown, TypeInv, TypeOK
    <3>3. CASE v # t /\ req[v] # Nil
      <4>1. req'[v] = req[v] /\ req[v].handle \in Handles
        BY <1>1, <3>3 DEF TypeInv, TypeOK, Request
      <4> QED
        BY <1>1, <1>10, <3>3, <4>1 DEF ServingShown
    <3> QED
      BY <3>1, <3>2, <3>3
  <2> QED
    BY <2>1 DEF ServingShown
<1>8. UNCHANGED <<writable, DirShown, UnbornShown, LingeringShown>>
  BY <1>1 DEF DirShown, UnbornShown, LingeringShown
<1> QED
  BY <1>5, <1>6, <1>7, <1>8 DEF Service!vars

\* Every step of the driver is a step of the service, or shows nothing.
LEMMA ServiceStep ==
    ASSUME TypeInv, NoChangeReadOnly, Unaliased, TypeInv', Unaliased', [Next]_vars
    PROVE  [Service!Next]_Service!vars
<1>1. CASE ~NoAliases
  <2>1. ~NoAliases' /\ writable' = writable
    BY <1>1, AliasesConstant
       DEF Next, vars, Open, Create, SetDelete, Cleanup, Close, BeginIO, BeginRename,
           IOStat, IOAccess, IORefresh, Fail, Rename2, FinishRename
  <2> QED
    BY <1>1, <2>1
       DEF Service!vars, DirShown, UnbornShown, OpenShown, LingeringShown, MarkedShown,
           ServingShown
<1>2. CASE NoAliases
  <2>1. NoAliases' /\ Addressing /\ Addressing' /\ PlainNames
    BY <1>2, AliasesConstant DEF Unaliased
  <2>2. ASSUME NEW h \in Handles, NEW n \in Names, NEW b \in BOOLEAN, Open(h, n, b)
        PROVE  Service!Next
    BY <1>2, <2>1, <2>2, ServiceOpen DEF Service!Next
  <2>3. ASSUME NEW h \in Handles, NEW n \in Names, NEW dir \in BOOLEAN,
               NEW ok \in BOOLEAN, Create(h, n, dir, ok)
        PROVE  Service!Next
    BY <1>2, <2>1, <2>3, ServiceCreate DEF Service!Next
  <2>4. ASSUME NEW h \in Handles, NEW b \in BOOLEAN, SetDelete(h, b)
        PROVE  Service!Next
    BY <1>2, <2>1, <2>4, ServiceMark DEF Service!Next
  <2>5. ASSUME NEW h \in Handles, NEW b \in BOOLEAN, Cleanup(h, b)
        PROVE  Service!Next
    BY <1>2, <2>1, <2>5, ServiceCleanup DEF Service!Next
  <2>12. ASSUME NEW h \in Handles, Close(h)
         PROVE  Service!Next
    BY <1>2, <2>1, <2>12, ServiceClose DEF Service!Next
  <2>6. ASSUME NEW t \in Threads, NEW h \in Handles, NEW op \in {"read", "write"},
               BeginIO(t, h, op)
        PROVE  Service!Next
    BY <1>2, <2>1, <2>6, ServiceBegin DEF Service!Next
  <2>7. ASSUME NEW t \in Threads, NEW h \in Handles, NEW n \in Names,
               NEW b \in BOOLEAN, BeginRename(t, h, n, b)
        PROVE  UNCHANGED Service!vars
    BY <1>2, <2>1, <2>7, ServiceBeginRename
  <2>8. ASSUME NEW t \in Threads,
               IOStat(t) \/ IOAccess(t) \/ IORefresh(t) \/ Fail(t)
        PROVE  Service!Next \/ UNCHANGED Service!vars
    BY <1>2, <2>1, <2>8, ServiceIO DEF Service!Next
  <2>9. ASSUME NEW t \in Threads, Rename2(t)
        PROVE  Service!Next
    <3>1. req[t].handle \in Handles /\ req[t].dst \in Names
      BY <2>9 DEF Rename2, TypeInv, TypeOK, Request
    <3> QED
      BY <1>2, <2>1, <2>9, <3>1, ServiceRename DEF Service!Next
  <2>10. ASSUME NEW t \in Threads, FinishRename(t)
         PROVE  UNCHANGED Service!vars
    BY <1>2, <2>1, <2>10, ServiceFinishRename
  <2>11. CASE UNCHANGED vars
    BY <2>11 DEF vars, Service!vars, DirShown, UnbornShown, OpenShown, LingeringShown,
                 MarkedShown, ServingShown, Shown, Renaming, NoAliases
  <2> QED
    BY <2>2, <2>3, <2>4, <2>5, <2>6, <2>7, <2>8, <2>9, <2>10, <2>11, <2>12 DEF Next
<1> QED
  BY <1>1, <1>2

\* A fresh mount is a fresh service.
LEMMA ServiceInit == Init => Service!Init
<1> SUFFICES ASSUME Init PROVE Service!Init
  OBVIOUS
<1>1. CASE NoAliases
  BY <1>1, VolumesAssumption
     DEF Init, Service!Init, DirShown, UnbornShown, OpenShown, LingeringShown,
         MarkedShown, ServingShown
<1>2. CASE ~NoAliases
  BY <1>2, NilAssumption
     DEF Init, Service!Init, DirShown, UnbornShown, OpenShown, LingeringShown,
         MarkedShown, ServingShown
<1> QED
  BY <1>1, <1>2

\* As long as no file has two names in use and no opener shares deletion
\* (NoAliases; nothing is shown of any other mount), handlers that look their
\* files up by path implement opens of files, with renames in one step, for any
\* number of threads and handles.  A handle that was cleaned up still reaches its
\* file until the name is taken away.
THEOREM ServiceImplemented == Spec => ImplementsService
<1> DEFINE Inv == TypeInv /\ NoChangeReadOnly /\ Unaliased
<1>1. Init => Inv
  BY AddressingInit DEF Init, NoChangeReadOnly
<1>2. Inv /\ [Next]_vars => Inv'
  BY TypeStep, NoChangeStep, AddressingStep
<1>3. Inv /\ Inv' /\ [Next]_vars => [Service!Next]_Service!vars
  BY ServiceStep
<1> QED
  BY <1>1, <1>2, <1>3, ServiceInit, PTL DEF Spec, ImplementsService, Service!Spec
=============================================================================
