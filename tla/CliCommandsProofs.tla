-------------------------- MODULE CliCommandsProofs --------------------------
(***************************************************************************)
(* What CliCommands promises, for every size of file, read buffer and      *)
(* width of the integers.                                                  *)
(***************************************************************************)
EXTENDS CliCommands, FiniteSetTheorems, TLAPS

\* Each call belongs to its commands, and the last one decides.
CallInv ==
    /\ pc = "call" => cmd \in OneCall
    /\ pc \in {"probe", "fetch"} => cmd \in Reads
    /\ pc \in {"stdin", "truncate", "pwrite"} => cmd = "write"
    /\ pc \in {"stat", "create"} => cmd \in {"write", "touch"}
    /\ pc \in {"resolve", "size", "read"} => cmd = "cat"
    /\ pc \in {"opendir", "list"} => cmd \in Lists
    /\ pc # "exited" => ~served

\* The file is as it was found until write truncates it or it is created, and
\* empty when the bytes are written.
FileInv ==
    /\ pc \notin {"truncate", "pwrite", "exited", "killed"} => file = before
    /\ pc = "truncate" => file # Missing /\ (file = before \/ file = <<>>)
    /\ pc = "pwrite" => file = <<>>
    /\ cmd = "cat" => file = before

\* cat stands behind what it has printed, and before the end of the range.
CatInv ==
    cmd = "cat" =>
        /\ pc \notin {"read", "exited", "killed"} => printed = <<>>
        /\ pc \in {"size", "read"} => file # Missing
        /\ pc = "read" => /\ end = End(Len(file))
                          /\ pos < end
                          /\ pos = offset + Len(printed)

\* verify-ls has listed the directory but for what is still to be listed.
ListInv ==
    /\ pc \in {"open", "opendir"} => lines = <<>>
    /\ pc = "list" /\ cmd = "verify-ls" =>
          /\ Len(lines) + Len(todo) = Cardinality(Entries(Root))
          /\ {lines[i].path : i \in DOMAIN lines} \cup {todo[i].path : i \in DOMAIN todo}
                = {<<n>> : n \in Entries(Root)}
          /\ \A i \in DOMAIN todo : todo[i].node = Leaf

IInv == TypeOK /\ CallInv /\ FileInv /\ CatInv /\ ListInv /\ OldOrNew /\ CatIsExact

\* What follows is about the listings.  The agenda is what has been listed and
\* what is still to be; a step inserts what a directory holds behind it.
Agenda == lines \o todo

Pairwise(R, s) == \A i, j \in DOMAIN s : i < j => <<s[i], s[j]>> \in R
Different == {w \in Items \X Items : w[1].path # w[2].path}
Before == {w \in Items \X Items : Precedes(w[1].path, w[2].path)}

\* Everything above what is on the agenda has been listed, so that an entry of
\* the directory listed next is new, and so is everything under that directory.
AboveInv ==
    cmd = "tree" => \A v \in ItemsOf(Agenda), p \in PathsOf :
                       Under(v.path, p) => \E u \in ItemsOf(lines) : u.path = p

OrderInv ==
    /\ Pairwise(Different, Agenda)
    /\ cmd = "tree" /\ ask.canonical => Pairwise(Before, Agenda)

SkippedInv == \A p \in skipped : \E u \in ItemsOf(lines) : u.path = p

LeafInv == cmd \in Lists /\ cmd # "tree" => \A v \in ItemsOf(Agenda) : v.node = Leaf

\* Nothing is missing from the agenda, and nothing is on it that should not be.
AgendaInv ==
    /\ cmd \in Lists /\ (pc = "list" \/ (pc = "exited" /\ exit = 0)) =>
          ItemsOf(Agenda) = First \cup UNION {InDirectory(v) : v \in Opened}
    /\ cmd \in Lists /\ pc = "exited" /\ exit = 0 => todo = <<>>

TreeInv == AboveInv /\ OrderInv /\ SkippedInv /\ LeafInv /\ AgendaInv

-----------------------------------------------------------------------------
(* Lemmas.                                                                 *)

\* A remainder is below the modulus, and a number below it is its own.
LEMMA Remainder ==
    ASSUME NEW a \in Nat, NEW m \in Nat, m > 0
    PROVE  a % m \in 0 .. (m - 1) /\ (a < m => a % m = a)
OBVIOUS

\* Where cat stops: within the file, and where the flags say if their sum is a
\* u64.
LEMMA EndIsRight ==
    ASSUME TypeOK, NEW size \in 0 .. MaxSize
    PROVE  /\ End(size) \in 0 .. size
           /\ length = ToEnd => End(size) = size
           /\ length # ToEnd /\ offset + length < W
                => End(size) = Lesser(offset + length, size)
<1>1. offset \in Nat /\ length \in Nat /\ W \in Nat /\ W > 0 /\ MaxSize \in Nat
  BY BoundsAssumption DEF TypeOK
<1>2. (offset + length) % W \in 0 .. (W - 1)
      /\ (offset + length < W => (offset + length) % W = offset + length)
  BY <1>1, Remainder
<1> QED
  BY <1>1, <1>2 DEF End, Lesser

\* When the flags do not wrap.
LEMMA NoWrap == TypeOK => (Wraps <=> ~(length = ToEnd \/ offset + length < W))
<1>1. TypeOK => offset \in Nat /\ length \in Nat /\ W \in Nat
  BY BoundsAssumption DEF TypeOK
<1> QED
  BY <1>1 DEF Wraps

\* A file that is there is a sequence of at most MaxSize bytes.
LEMMA FileIsBytes ==
    ASSUME NEW b, NEW f \in Contents(b)
    PROVE  /\ f \in Seq({b}) /\ Len(f) \in 0 .. MaxSize
           /\ \A i \in 1 .. Len(f) : f[i] = b
           /\ f = Bytes(b, Len(f))
<1>1. PICK n \in 0 .. MaxSize : f = Bytes(b, n)
  BY DEF Contents
<1>2. n \in Nat
  BY BoundsAssumption
<1>3. f \in Seq({b}) /\ Len(f) = n
  BY <1>1, <1>2 DEF Bytes
<1> QED
  BY <1>1, <1>3 DEF Bytes

\* Bytes printed after bytes.
LEMMA Appending ==
    ASSUME NEW S, NEW s \in Seq(S), NEW t \in Seq(S)
    PROVE  s \o t \in Seq(S)
OBVIOUS

\* A function on the first numbers is a sequence.
LEMMA IsSequence ==
    ASSUME NEW S, NEW n \in Nat, NEW t \in [1 .. n -> S]
    PROVE  t \in Seq(S) /\ Len(t) = n
OBVIOUS

\* What is left of a list, and a list with one more line.
LEMMA Shortening ==
    ASSUME NEW S, NEW s \in Seq(S), s # <<>>
    PROVE  Head(s) \in S /\ Tail(s) \in Seq(S)
OBVIOUS

LEMMA PathsLeft ==
    ASSUME NEW S, NEW s \in Seq(S), s # <<>>
    PROVE  {s[i].path : i \in DOMAIN s}
             = {Head(s).path} \cup {Tail(s)[i].path : i \in DOMAIN Tail(s)}
<1> DEFINE t == Tail(s)
<1>1. /\ Head(s) = s[1] /\ 1 \in DOMAIN s
      /\ \A i \in DOMAIN t : i + 1 \in DOMAIN s /\ t[i] = s[i + 1]
  OBVIOUS
<1>2. \A i \in DOMAIN s : i = 1 \/ (i - 1 \in DOMAIN t /\ t[i - 1] = s[i])
  OBVIOUS
<1>3. ASSUME NEW i \in DOMAIN s
      PROVE  s[i].path \in {Head(s).path} \cup {t[j].path : j \in DOMAIN t}
  BY <1>1, <1>2
<1>4. ASSUME NEW i \in DOMAIN t PROVE t[i].path \in {s[j].path : j \in DOMAIN s}
  BY <1>1
<1> QED
  BY <1>1, <1>3, <1>4

LEMMA PathsMore ==
    ASSUME NEW S, NEW s \in Seq(S), NEW e \in S
    PROVE  {Append(s, e)[i].path : i \in DOMAIN Append(s, e)}
             = {s[i].path : i \in DOMAIN s} \cup {e.path}
<1> DEFINE t == Append(s, e)
<1>1. /\ \A i \in DOMAIN s : i \in DOMAIN t /\ t[i] = s[i]
      /\ Len(t) \in DOMAIN t /\ t[Len(t)] = e
      /\ \A i \in DOMAIN t : i = Len(t) \/ i \in DOMAIN s
  OBVIOUS
<1> HIDE DEF t
<1>2. {t[i].path : i \in DOMAIN t} = {s[i].path : i \in DOMAIN s} \cup {e.path}
  BY <1>1
<1> QED
  BY <1>2 DEF t

LEMMA OneMore ==
    ASSUME NEW S, NEW s \in Seq(S), NEW e \in S
    PROVE  Append(s, e) \in Seq(S)
OBVIOUS

\* The names of a directory are finitely many, and an order of names is one of
\* all of them.
LEMMA NamesAreFinite ==
    ASSUME NEW d \in Dirs
    PROVE  IsFiniteSet(Entries(d)) /\ Entries(d) \subseteq Nat /\ DOMAIN Tree[d] \subseteq Nat
           /\ Entries(d) \ Dots = DOMAIN Tree[d] /\ IsFiniteSet(DOMAIN Tree[d])
BY TreeAssumption, FS_Union DEF Entries, Dirs

LEMMA OrdersAre ==
    ASSUME NEW names, IsFiniteSet(names), NEW s \in Orders(names)
    PROVE  /\ Cardinality(names) \in Nat
           /\ s \in [1 .. Cardinality(names) -> names] /\ DOMAIN s = 1 .. Cardinality(names)
           /\ \A n \in names : \E i \in DOMAIN s : s[i] = n
BY FS_CardinalityType DEF Orders

\* What is to be listed of ls and verify-ls.
LEMMA Listed ==
    ASSUME NEW s \in Orders(Entries(Root))
    PROVE  LET t == [i \in DOMAIN s |-> [path |-> <<s[i]>>, node |-> Leaf]]
           IN  /\ t \in Seq(Items) /\ Len(t) = Cardinality(Entries(Root))
               /\ DOMAIN t = DOMAIN s
               /\ {t[i].path : i \in DOMAIN t} = {<<n>> : n \in Entries(Root)}
               /\ \A i \in DOMAIN t : t[i].node = Leaf
<1> DEFINE t == [i \in DOMAIN s |-> [path |-> <<s[i]>>, node |-> Leaf]]
<1>1. /\ Cardinality(Entries(Root)) \in Nat
      /\ s \in [1 .. Cardinality(Entries(Root)) -> Entries(Root)]
      /\ DOMAIN s = 1 .. Cardinality(Entries(Root))
      /\ \A n \in Entries(Root) : \E i \in DOMAIN s : s[i] = n
      /\ Entries(Root) \subseteq Nat
  BY NamesAreFinite, OrdersAre, TreeAssumption
<1>2. \A i \in DOMAIN s : s[i] \in Entries(Root) /\ <<s[i]>> \in PathsOf
  BY <1>1 DEF PathsOf
<1>3. t \in [1 .. Cardinality(Entries(Root)) -> Items]
  BY <1>1, <1>2 DEF Items
<1>4. t \in Seq(Items) /\ Len(t) = Cardinality(Entries(Root))
  BY <1>1, <1>3, IsSequence
<1>5. {t[i].path : i \in DOMAIN t} = {<<n>> : n \in Entries(Root)}
  BY <1>1, <1>2
<1> QED
  BY <1>4, <1>5

\* What is to be listed of a directory of tree.
LEMMA BelowIs ==
    ASSUME NEW item \in Items, item.node # Leaf, NEW below \in Below(item)
    PROVE  below \in Seq(Items)
<1> DEFINE names == DOMAIN Tree[item.node]
<1>1. item.node \in Dirs /\ item.path \in PathsOf
  BY DEF Items
<1>2. IsFiniteSet(names) /\ names \subseteq Nat /\ Entries(item.node) \ Dots = names
  BY <1>1, NamesAreFinite
<1>3. PICK s \in Orders(names) :
         below = [i \in DOMAIN s |->
                    [path |-> Append(item.path, s[i]), node |-> Tree[item.node][s[i]]]]
  BY <1>2 DEF Below
<1>4. /\ Cardinality(names) \in Nat
      /\ s \in [1 .. Cardinality(names) -> names] /\ DOMAIN s = 1 .. Cardinality(names)
  BY <1>2, OrdersAre
<1>5. \A i \in DOMAIN s : Append(item.path, s[i]) \in PathsOf
                        /\ Tree[item.node][s[i]] \in Dirs \cup {Leaf}
  BY <1>1, <1>2, <1>4, OneMore, TreeAssumption DEF PathsOf
<1>6. below \in [1 .. Cardinality(names) -> Items]
  BY <1>3, <1>4, <1>5 DEF Items
<1> QED
  BY <1>4, <1>6

\* What has been printed when n more bytes are.
LEMMA Printing ==
    ASSUME NEW S, NEW s \in Seq(S), NEW p \in Nat, NEW n \in Nat, NEW t,
           t = s \o [i \in 1 .. n |-> p + i - 1]
    PROVE  /\ Len(t) = Len(s) + n
           /\ \A i \in 1 .. Len(t) :
                 t[i] = IF i <= Len(s) THEN s[i] ELSE p + (i - Len(s)) - 1
<1> DEFINE more == [i \in 1 .. n |-> p + i - 1]
<1>1. more \in Seq(Int) /\ Len(more) = n
  OBVIOUS
<1>2. \A i \in 1 .. n : more[i] = p + i - 1
  OBVIOUS
<1> HIDE DEF more
<1>3. t = s \o more
  BY DEF more
<1> QED
  BY <1>1, <1>2, <1>3

\* The empty file.
LEMMA EmptyFile == <<>> = Bytes("new", 0) /\ <<>> \in Contents("new")
<1>1. <<>> = Bytes("new", 0)
  BY DEF Bytes
<1> QED
  BY <1>1, BoundsAssumption DEF Contents

\* Bytes are not the value that stands for no file.
LEMMA BytesAreThere == ASSUME NEW n \in 0 .. MaxSize PROVE Bytes("new", n) # Missing
<1>1. Bytes("new", n) \in [1 .. n -> {"old", "new"}]
  BY DEF Bytes
<1> QED
  BY <1>1, MissingAssumption

LEMMA EmptyIsThere == <<>> # Missing
<1>1. 0 \in 0 .. MaxSize
  BY BoundsAssumption
<1> QED
  BY <1>1, BytesAreThere, EmptyFile

\* What pwrite leaves in an empty file.
LEMMA WrittenToEmpty ==
    ASSUME NEW n \in 0 .. MaxSize
    PROVE  Overwritten(<<>>, n) = Bytes("new", n) /\ Overwritten(<<>>, n) \in Contents("new")
<1>1. n \in Nat
  BY BoundsAssumption
<1>2. Overwritten(<<>>, n) = Bytes("new", n)
  BY <1>1 DEF Overwritten, Bytes
<1> QED
  BY <1>2 DEF Contents

\* A read stays within the range and within the file.
LEMMA ReadBounds ==
    ASSUME TypeOK, CallInv, FileInv, CatInv, pc = "read",
           NEW n \in ReadCounts(pos, Want(pos))
    PROVE  /\ pos \in Nat /\ n \in Nat /\ end \in 0 .. Len(file)
           /\ pos + n <= end /\ n # 0 /\ end <= MaxSize
<1>1. cmd = "cat" /\ file # Missing /\ end = End(Len(file)) /\ pos < end
  BY DEF CallInv, CatInv
<1>2. Len(file) \in 0 .. MaxSize
  BY <1>1, FileIsBytes DEF TypeOK
<1>3. end \in 0 .. Len(file)
  BY <1>1, <1>2, EndIsRight
<1>4. Want(pos) \in Nat /\ Want(pos) <= end - pos
  BY <1>1, <1>2, <1>3, BoundsAssumption DEF Want, Lesser, TypeOK
<1> QED
  BY <1>1, <1>2, <1>3, <1>4, BoundsAssumption DEF ReadCounts, Lesser, TypeOK

-----------------------------------------------------------------------------
(* Lemmas about the listings.                                              *)

LEMMA OrdersAreInjective ==
    ASSUME NEW names, IsFiniteSet(names), NEW s \in Orders(names)
    PROVE  \A i, j \in DOMAIN s : s[i] = s[j] => i = j
<1> DEFINE n == Cardinality(names)
<1>1. /\ n \in Nat /\ s \in [1 .. n -> names] /\ DOMAIN s = 1 .. n
      /\ \A x \in names : \E i \in DOMAIN s : s[i] = x
  BY OrdersAre
<1>2. s \in Surjection(1 .. n, names)
  BY <1>1 DEF Surjection
<1>3. IsFiniteSet(1 .. n) /\ Cardinality(1 .. n) = n
  BY <1>1, FS_Interval
<1>4. s \in Injection(1 .. n, names)
  BY <1>2, <1>3, FS_Surjection
<1> QED
  BY <1>1, <1>4 DEF Injection, IsInjective

\* The head of what is to be listed joins what has been.
LEMMA Moving ==
    ASSUME NEW S, NEW s \in Seq(S), NEW t \in Seq(S), t # <<>>
    PROVE  Append(s, Head(t)) \o Tail(t) = s \o t
OBVIOUS

LEMMA ItemsOfBoth ==
    ASSUME NEW S, NEW s \in Seq(S), NEW t \in Seq(S)
    PROVE  ItemsOf(s \o t) = ItemsOf(s) \cup ItemsOf(t)
<1> DEFINE u == s \o t
<1>1. /\ \A i \in DOMAIN s : i \in DOMAIN u /\ u[i] = s[i]
      /\ \A i \in DOMAIN t : i + Len(s) \in DOMAIN u /\ u[i + Len(s)] = t[i]
      /\ \A i \in DOMAIN u : \/ i \in DOMAIN s /\ u[i] = s[i]
                             \/ i - Len(s) \in DOMAIN t /\ u[i] = t[i - Len(s)]
  OBVIOUS
<1> HIDE DEF u
<1>2. ItemsOf(u) = ItemsOf(s) \cup ItemsOf(t)
  BY <1>1 DEF ItemsOf
<1> QED
  BY <1>2 DEF u

LEMMA ItemsOfMore ==
    ASSUME NEW S, NEW s \in Seq(S), NEW e \in S
    PROVE  ItemsOf(Append(s, e)) = ItemsOf(s) \cup {e}
<1> DEFINE u == Append(s, e)
<1>1. /\ \A i \in DOMAIN s : i \in DOMAIN u /\ u[i] = s[i]
      /\ Len(u) \in DOMAIN u /\ u[Len(u)] = e
      /\ \A i \in DOMAIN u : i = Len(u) \/ (i \in DOMAIN s /\ u[i] = s[i])
  OBVIOUS
<1> HIDE DEF u
<1>2. ItemsOf(u) = ItemsOf(s) \cup {e}
  BY <1>1 DEF ItemsOf
<1> QED
  BY <1>2 DEF u

\* Pairs in a sequence with another inserted.
LEMMA Inserting ==
    ASSUME NEW S, NEW R, NEW a \in Seq(S), NEW b \in Seq(S), NEW c \in Seq(S),
           Pairwise(R, a \o c), Pairwise(R, b),
           \A i \in DOMAIN a, j \in DOMAIN b : <<a[i], b[j]>> \in R,
           \A i \in DOMAIN b, j \in DOMAIN c : <<b[i], c[j]>> \in R
    PROVE  Pairwise(R, a \o (b \o c))
<1> DEFINE t == a \o (b \o c)
           u == a \o c
           la == Len(a)
           lb == Len(b)
<1>1. /\ la \in Nat /\ lb \in Nat
      /\ DOMAIN a = 1 .. la /\ DOMAIN b = 1 .. lb /\ DOMAIN c = 1 .. Len(c)
      /\ Len(c) \in Nat
      /\ DOMAIN t = 1 .. la + lb + Len(c)
      /\ DOMAIN u = 1 .. la + Len(c)
  OBVIOUS
<1>2. /\ \A i \in DOMAIN a : t[i] = a[i] /\ u[i] = a[i]
      /\ \A i \in DOMAIN b : t[i + la] = b[i]
      /\ \A i \in DOMAIN c : t[i + la + lb] = c[i] /\ u[i + la] = c[i]
  <2>1. \A i \in DOMAIN a : t[i] = a[i] /\ u[i] = a[i]
    OBVIOUS
  <2>2. \A i \in DOMAIN b : t[i + la] = b[i]
    OBVIOUS
  <2>3. \A i \in DOMAIN c : t[i + la + lb] = c[i]
    OBVIOUS
  <2>4. \A i \in DOMAIN c : u[i + la] = c[i]
    OBVIOUS
  <2> QED
    BY <2>1, <2>2, <2>3, <2>4
<1>3. \A i, j \in DOMAIN u : i < j => <<u[i], u[j]>> \in R
  BY DEF Pairwise
<1>4. \A i, j \in DOMAIN b : i < j => <<b[i], b[j]>> \in R
  BY DEF Pairwise
<1> HIDE DEF t, u, la, lb
<1>5. ASSUME NEW i \in DOMAIN t, NEW j \in DOMAIN t, i < j
      PROVE  <<t[i], t[j]>> \in R
  <2>1. i \in Int /\ j \in Int
    BY <1>1
  <2>2. \/ i <= la
        \/ i > la /\ i <= la + lb
        \/ i > la + lb
    BY <1>1, <2>1
  <2>3. \/ j <= la
        \/ j > la /\ j <= la + lb
        \/ j > la + lb
    BY <1>1, <2>1
  <2>4. CASE i <= la
    <3>1. i \in DOMAIN a /\ i \in DOMAIN u /\ t[i] = a[i] /\ t[i] = u[i]
      BY <1>1, <1>2, <2>4
    <3>2. CASE j <= la
      <4>1. j \in DOMAIN u /\ t[j] = u[j]
        BY <1>1, <1>2, <3>2
      <4> QED
        BY <1>3, <1>5, <3>1, <4>1
    <3>3. CASE j > la /\ j <= la + lb
      <4>1. j - la \in DOMAIN b /\ t[j] = b[j - la]
        <5>1. j - la \in DOMAIN b /\ (j - la) + la = j
          BY <1>1, <2>1, <3>3
        <5> QED
          BY <1>2, <5>1
      <4> QED
        BY <3>1, <4>1
    <3>4. CASE j > la + lb
      <4>1. j - lb \in DOMAIN u /\ t[j] = u[j - lb] /\ i < j - lb
        <5>1. /\ j - la - lb \in DOMAIN c /\ (j - la - lb) + la + lb = j
              /\ (j - la - lb) + la = j - lb
          BY <1>1, <2>1, <3>4
        <5>2. t[j] = u[j - lb]
          BY <1>2, <5>1
        <5>3. j - lb \in DOMAIN u /\ i < j - lb
          BY <1>1, <2>1, <2>4, <3>4
        <5> QED
          BY <5>2, <5>3
      <4> QED
        BY <1>3, <3>1, <4>1
    <3> QED
      BY <2>3, <3>2, <3>3, <3>4
  <2>5. CASE i > la /\ i <= la + lb
    <3>1. i - la \in DOMAIN b /\ t[i] = b[i - la]
      <4>1. i - la \in DOMAIN b /\ (i - la) + la = i
        BY <1>1, <2>1, <2>5
      <4> QED
        BY <1>2, <4>1
    <3>2. CASE j > la /\ j <= la + lb
      <4>1. j - la \in DOMAIN b /\ (j - la) + la = j /\ i - la < j - la
        BY <1>1, <1>5, <2>1, <3>2
      <4>2. t[j] = b[j - la]
        BY <1>2, <4>1
      <4> QED
        BY <1>4, <3>1, <4>1, <4>2
    <3>3. CASE j > la + lb
      <4>1. j - la - lb \in DOMAIN c /\ (j - la - lb) + la + lb = j
        BY <1>1, <2>1, <3>3
      <4>2. t[j] = c[j - la - lb]
        BY <1>2, <4>1
      <4> QED
        BY <3>1, <4>1, <4>2
    <3> QED
      BY <1>1, <1>5, <2>1, <2>3, <2>5, <3>2, <3>3
  <2>6. CASE i > la + lb
    <3>1. /\ i - la - lb \in DOMAIN c /\ (i - la - lb) + la + lb = i
          /\ (i - la - lb) + la = i - lb
      BY <1>1, <2>1, <2>6
    <3>2. /\ j - la - lb \in DOMAIN c /\ (j - la - lb) + la + lb = j
          /\ (j - la - lb) + la = j - lb
      BY <1>1, <1>5, <2>1, <2>6
    <3>3. t[i] = u[i - lb] /\ t[j] = u[j - lb]
      BY <1>2, <3>1, <3>2
    <3>4. i - lb \in DOMAIN u /\ j - lb \in DOMAIN u /\ i - lb < j - lb
      BY <1>1, <1>5, <2>1, <2>6
    <3> QED
      BY <1>3, <3>3, <3>4
  <2> QED
    BY <2>2, <2>4, <2>5, <2>6
<1>6. Pairwise(R, t)
  BY <1>5 DEF Pairwise
<1> QED
  BY <1>6 DEF t

\* The paths of what a directory holds, against other paths.
LEMMA PathOfEntry ==
    ASSUME NEW p \in PathsOf, NEW n \in Nat
    PROVE  /\ Append(p, n) \in PathsOf
           /\ Len(Append(p, n)) = Len(p) + 1 /\ Len(p) \in Nat
           /\ DOMAIN p = 1 .. Len(p) /\ DOMAIN Append(p, n) = 1 .. Len(p) + 1
           /\ \A i \in DOMAIN p : Append(p, n)[i] = p[i]
           /\ Append(p, n)[Len(p) + 1] = n
BY DEF PathsOf

LEMMA SamePath ==
    ASSUME NEW p \in PathsOf, NEW q \in PathsOf, Len(p) = Len(q),
           \A i \in DOMAIN p : p[i] = q[i]
    PROVE  p = q
<1>1. DOMAIN p = DOMAIN q
  BY DEF PathsOf
<1> QED
  BY <1>1 DEF PathsOf

LEMMA EntryAbove ==
    ASSUME NEW p \in PathsOf, NEW n \in Nat, NEW q \in PathsOf, Under(Append(p, n), q)
    PROVE  q = p \/ Under(p, q)
<1>1. /\ Len(q) \in Nat /\ DOMAIN q = 1 .. Len(q)
      /\ Len(q) < Len(p) + 1 /\ \A i \in DOMAIN q : Append(p, n)[i] = q[i]
  BY PathOfEntry DEF Under, PathsOf
<1>2. \A i \in DOMAIN q : p[i] = q[i]
  BY <1>1, PathOfEntry
<1>3. CASE Len(q) = Len(p)
  BY <1>1, <1>2, <1>3, SamePath, PathOfEntry
<1>4. CASE Len(q) < Len(p)
  BY <1>2, <1>4 DEF Under
<1> QED
  BY <1>1, <1>3, <1>4, PathOfEntry

LEMMA EntryUnder ==
    ASSUME NEW p \in PathsOf, NEW n \in Nat
    PROVE  Under(Append(p, n), p) /\ Precedes(p, Append(p, n))
<1>1. Under(Append(p, n), p)
  <2>1. Len(Append(p, n)) = Len(p) + 1 /\ Len(p) \in Nat
    BY PathOfEntry
  <2>2. \A i \in DOMAIN p : Append(p, n)[i] = p[i]
    BY PathOfEntry
  <2>3. Len(p) < Len(Append(p, n))
    BY <2>1
  <2> QED
    BY <2>2, <2>3, Zenon DEF Under
<1> QED
  BY <1>1 DEF Precedes

LEMMA EntryLater ==
    ASSUME NEW p \in PathsOf, NEW n \in Nat, NEW q \in PathsOf, Precedes(q, p)
    PROVE  Precedes(q, Append(p, n))
<1> DEFINE e == Append(p, n)
<1>0. /\ DOMAIN q = 1 .. Len(q) /\ Len(q) \in Nat
      /\ DOMAIN p = 1 .. Len(p) /\ Len(p) \in Nat
  BY DEF PathsOf
<1>1. /\ Len(e) = Len(p) + 1 /\ DOMAIN e = 1 .. Len(p) + 1
      /\ \A i \in DOMAIN p : e[i] = p[i]
  BY PathOfEntry
<1> HIDE DEF e
<1>2. CASE Under(p, q)
  <2>1. Under(e, q)
    BY <1>0, <1>1, <1>2 DEF Under
  <2> QED
    BY <2>1 DEF Precedes, e
<1>3. CASE ~Under(p, q)
  <2>1. PICK i \in DOMAIN q \cap DOMAIN p : q[i] < p[i] /\ \A j \in 1 .. i - 1 : q[j] = p[j]
    BY <1>3 DEF Precedes
  <2>2. i \in DOMAIN q \cap DOMAIN e /\ q[i] < e[i]
    BY <1>0, <1>1, <2>1
  <2>3. \A j \in 1 .. i - 1 : q[j] = e[j]
    BY <1>0, <1>1, <2>1
  <2> QED
    BY <2>2, <2>3 DEF Precedes, e
<1> QED
  BY <1>2, <1>3

LEMMA EntrySooner ==
    ASSUME NEW p \in PathsOf, NEW n \in Nat, NEW q \in PathsOf, Precedes(p, q), ~Under(q, p)
    PROVE  Precedes(Append(p, n), q)
<1> DEFINE e == Append(p, n)
<1>0. /\ DOMAIN q = 1 .. Len(q) /\ Len(q) \in Nat
      /\ DOMAIN p = 1 .. Len(p) /\ Len(p) \in Nat
  BY DEF PathsOf
<1>1. /\ DOMAIN e = 1 .. Len(p) + 1
      /\ \A i \in DOMAIN p : e[i] = p[i]
  BY PathOfEntry
<1> HIDE DEF e
<1>2. PICK i \in DOMAIN p \cap DOMAIN q : p[i] < q[i] /\ \A j \in 1 .. i - 1 : p[j] = q[j]
  BY DEF Precedes
<1>3. i \in DOMAIN e \cap DOMAIN q /\ e[i] < q[i]
  BY <1>0, <1>1, <1>2
<1>4. \A j \in 1 .. i - 1 : e[j] = q[j]
  BY <1>0, <1>1, <1>2
<1> QED
  BY <1>3, <1>4 DEF Precedes, e

LEMMA EntriesByName ==
    ASSUME NEW p \in PathsOf, NEW m \in Nat, NEW n \in Nat
    PROVE  /\ m < n => Precedes(Append(p, m), Append(p, n))
           /\ m # n => Append(p, m) # Append(p, n)
<1> DEFINE a == Append(p, m)
           b == Append(p, n)
<1>1. /\ Len(p) \in Nat /\ DOMAIN p = 1 .. Len(p)
      /\ DOMAIN a = 1 .. Len(p) + 1 /\ DOMAIN b = 1 .. Len(p) + 1
      /\ \A i \in DOMAIN p : a[i] = p[i] /\ b[i] = p[i]
      /\ a[Len(p) + 1] = m /\ b[Len(p) + 1] = n
  BY PathOfEntry
<1> HIDE DEF a, b
<1>2. ASSUME m < n PROVE Precedes(a, b)
  <2>1. Len(p) + 1 \in DOMAIN a \cap DOMAIN b /\ a[Len(p) + 1] < b[Len(p) + 1]
    BY <1>1, <1>2
  <2>2. \A j \in 1 .. (Len(p) + 1) - 1 : a[j] = b[j]
    BY <1>1
  <2> QED
    BY <2>1, <2>2 DEF Precedes
<1>3. m # n => a # b
  BY <1>1
<1> QED
  BY <1>2, <1>3 DEF a, b

\* What walk lists of a directory: what is in it, each name once, and by their
\* bytes for --canonical.
LEMMA BelowHolds ==
    ASSUME NEW item \in Items, item.node # Leaf, NEW below \in Below(item)
    PROVE  /\ below \in Seq(Items)
           /\ ItemsOf(below) = InDirectory(item)
           /\ \A v \in ItemsOf(below) : \E n \in Nat : v.path = Append(item.path, n)
           /\ Pairwise(Different, below)
           /\ cmd = "tree" /\ ask.canonical => Pairwise(Before, below)
<1> DEFINE names == DOMAIN Tree[item.node]
           Entry(n) == [path |-> Append(item.path, n), node |-> Tree[item.node][n]]
<1>1. item.node \in Dirs /\ item.path \in PathsOf
  BY DEF Items
<1>2. IsFiniteSet(names) /\ names \subseteq Nat /\ Entries(item.node) \ Dots = names
  BY <1>1, NamesAreFinite
<1>3. PICK s \in Orders(names) : below = [i \in DOMAIN s |-> Entry(s[i])]
  BY <1>2 DEF Below
<1>4. /\ s \in [1 .. Cardinality(names) -> names]
      /\ \A n \in names : \E i \in DOMAIN s : s[i] = n
      /\ \A i, j \in DOMAIN s : s[i] = s[j] => i = j
      /\ DOMAIN s = 1 .. Cardinality(names) /\ Cardinality(names) \in Nat
  BY <1>2, OrdersAre, OrdersAreInjective
<1>5. cmd = "tree" /\ ask.canonical => \A i, j \in DOMAIN s : i < j => s[i] < s[j]
  BY DEF Orders
<1>6. below \in Seq(Items)
  BY BelowIs
<1>7. DOMAIN below = DOMAIN s
      /\ \A i \in DOMAIN s : /\ s[i] \in names /\ s[i] \in Nat
                             /\ below[i] = Entry(s[i]) /\ below[i] \in Items
                             /\ below[i].path = Append(item.path, s[i])
  <2>1. DOMAIN below = DOMAIN s /\ \A i \in DOMAIN s : below[i] = Entry(s[i])
    BY <1>3
  <2>2. \A i \in DOMAIN s : s[i] \in names /\ s[i] \in Nat
    BY <1>2, <1>4
  <2>3. \A i \in DOMAIN s : below[i] \in Items
    BY <1>6, <2>1
  <2> QED
    BY <2>1, <2>2, <2>3
<1>8. ItemsOf(below) = InDirectory(item)
  <2>1. ASSUME NEW v \in ItemsOf(below) PROVE v \in InDirectory(item)
    <3>1. PICK i \in DOMAIN below : v = below[i]
      BY <2>1 DEF ItemsOf
    <3> QED
      BY <1>7, <3>1 DEF InDirectory
  <2>2. ASSUME NEW v \in InDirectory(item) PROVE v \in ItemsOf(below)
    <3>1. PICK n \in names : v = Entry(n)
      BY <2>2 DEF InDirectory
    <3>2. PICK i \in DOMAIN s : s[i] = n
      BY <1>4
    <3> QED
      BY <1>7, <3>1, <3>2 DEF ItemsOf
  <2> QED
    BY <2>1, <2>2
<1>9. \A v \in ItemsOf(below) : \E n \in Nat : v.path = Append(item.path, n)
  BY <1>7 DEF ItemsOf
<1>10. Pairwise(Different, below)
  <2>1. ASSUME NEW i \in DOMAIN s, NEW j \in DOMAIN s, i < j
        PROVE  <<below[i], below[j]>> \in Different
    <3>1. s[i] # s[j]
      BY <1>4, <2>1
    <3>2. below[i].path # below[j].path
      BY <1>1, <1>7, <3>1, EntriesByName
    <3> QED
      BY <1>7, <3>2 DEF Different
  <2> QED
    BY <1>7, <2>1 DEF Pairwise
<1>11. ASSUME cmd = "tree", ask.canonical PROVE Pairwise(Before, below)
  <2>1. ASSUME NEW i \in DOMAIN s, NEW j \in DOMAIN s, i < j
        PROVE  <<below[i], below[j]>> \in Before
    <3>1. s[i] < s[j]
      BY <1>5, <1>11, <2>1
    <3>2. s[i] \in Nat /\ s[j] \in Nat
      BY <1>7
    <3>3. Precedes(Append(item.path, s[i]), Append(item.path, s[j]))
      BY <1>1, <3>1, <3>2, EntriesByName
    <3>4. Precedes(below[i].path, below[j].path)
      BY <1>7, <3>3
    <3> QED
      BY <1>7, <3>4 DEF Before
  <2> QED
    BY <1>7, <2>1 DEF Pairwise
<1> QED
  BY <1>6, <1>8, <1>9, <1>10, <1>11

\* What ls and verify-ls have to list: every name once.
LEMMA ListedOnce ==
    ASSUME NEW s \in Orders(Entries(Root)), NEW t,
           t = [i \in DOMAIN s |-> [path |-> <<s[i]>>, node |-> Leaf]]
    PROVE  /\ t \in Seq(Items) /\ Pairwise(Different, t)
           /\ ItemsOf(t) = {[path |-> <<n>>, node |-> Leaf] : n \in Entries(Root)}
<1>1. IsFiniteSet(Entries(Root))
  BY NamesAreFinite, TreeAssumption
<1>2. /\ \A i \in DOMAIN s : s[i] \in Entries(Root)
      /\ \A n \in Entries(Root) : \E i \in DOMAIN s : s[i] = n
      /\ \A i, j \in DOMAIN s : s[i] = s[j] => i = j
  <2>1. /\ s \in [1 .. Cardinality(Entries(Root)) -> Entries(Root)]
        /\ DOMAIN s = 1 .. Cardinality(Entries(Root))
        /\ \A n \in Entries(Root) : \E i \in DOMAIN s : s[i] = n
    BY <1>1, OrdersAre
  <2>2. \A i, j \in DOMAIN s : s[i] = s[j] => i = j
    BY <1>1, OrdersAreInjective
  <2> QED
    BY <2>1, <2>2
<1>3. t \in Seq(Items)
  BY Listed
<1>4. /\ DOMAIN t = DOMAIN s
      /\ \A i \in DOMAIN s : t[i] = [path |-> <<s[i]>>, node |-> Leaf] /\ t[i] \in Items
  BY <1>3
<1>5. ItemsOf(t) = {[path |-> <<n>>, node |-> Leaf] : n \in Entries(Root)}
  BY <1>2, <1>4 DEF ItemsOf
<1>6. ASSUME NEW i \in DOMAIN s, NEW j \in DOMAIN s, i < j
      PROVE  <<t[i], t[j]>> \in Different
  <2>1. i # j /\ s[i] # s[j]
    <3>1. i \in Int
      BY <1>1, OrdersAre
    <3>2. i # j
      BY <1>6, <3>1
    <3> QED
      BY <1>2, <3>2
  <2>2. <<s[i]>> # <<s[j]>>
    BY <2>1
  <2> QED
    BY <1>4, <2>2 DEF Different
<1> QED
  BY <1>3, <1>4, <1>5, <1>6 DEF Pairwise

\* One line: the item moves from what is to be listed to what has been, and what
\* it holds, if it is opened, comes after it.
LEMMA ListMoves ==
    ASSUME TypeOK, List
    PROVE  /\ Head(todo) \in Items /\ Tail(todo) \in Seq(Items) /\ lines \in Seq(Items)
           /\ lines' = Append(lines, Head(todo)) /\ lines' \in Seq(Items)
           /\ todo \in Seq(Items) /\ todo # <<>>
           /\ lines' \o Tail(todo) = Agenda
           /\ ItemsOf(Agenda) = ItemsOf(lines) \cup ItemsOf(todo)
           /\ ItemsOf(lines') = ItemsOf(lines) \cup {Head(todo)}
           /\ ItemsOf(Agenda) = ItemsOf(lines') \cup ItemsOf(Tail(todo))
           /\ Head(todo) \in ItemsOf(Agenda)
<1>1. todo \in Seq(Items) /\ lines \in Seq(Items) /\ todo # <<>>
      /\ lines' = Append(lines, Head(todo))
  BY DEF List, TypeOK
<1>2. Head(todo) \in Items /\ Tail(todo) \in Seq(Items)
  BY <1>1, Shortening
<1>3. lines' \in Seq(Items)
  BY <1>1, <1>2, OneMore
<1>4. lines' \o Tail(todo) = Agenda
  BY <1>1, Moving DEF Agenda
<1>5. ItemsOf(Agenda) = ItemsOf(lines) \cup ItemsOf(todo)
  BY <1>1, ItemsOfBoth DEF Agenda
<1>6. ItemsOf(lines') = ItemsOf(lines) \cup {Head(todo)}
  BY <1>1, <1>2, ItemsOfMore
<1>7. ItemsOf(Agenda) = ItemsOf(lines') \cup ItemsOf(Tail(todo))
  BY <1>2, <1>3, <1>4, ItemsOfBoth
<1> QED
  BY <1>1, <1>2, <1>3, <1>4, <1>5, <1>6, <1>7

\* Paths in a pairwise different agenda: the next item is not among the lines,
\* and everything behind it has another path, and comes later.
LEMMA HeadIsNew ==
    ASSUME TypeOK, OrderInv, todo # <<>>
    PROVE  /\ \A v \in ItemsOf(lines) : v.path # Head(todo).path
           /\ cmd = "tree" /\ ask.canonical =>
                 /\ \A v \in ItemsOf(lines) : Precedes(v.path, Head(todo).path)
                 /\ \A v \in ItemsOf(Tail(todo)) : Precedes(Head(todo).path, v.path)
<1> DEFINE a == Agenda
           k == Len(lines) + 1
<1>1. todo \in Seq(Items) /\ lines \in Seq(Items)
  BY DEF TypeOK
<1>2. /\ k \in DOMAIN a /\ a[k] = Head(todo)
      /\ \A i \in DOMAIN lines : i \in DOMAIN a /\ i < k /\ a[i] = lines[i]
      /\ \A i \in DOMAIN Tail(todo) : i + k \in DOMAIN a /\ k < i + k /\ a[i + k] = Tail(todo)[i]
  <2>1. Len(lines) \in Nat /\ Len(todo) \in Nat /\ Len(todo) # 0
        /\ DOMAIN a = 1 .. Len(lines) + Len(todo)
    BY <1>1 DEF Agenda
  <2>2. k \in DOMAIN a /\ a[k] = Head(todo)
    BY <1>1, <2>1 DEF Agenda
  <2>3. \A i \in DOMAIN lines : i \in DOMAIN a /\ i < k /\ a[i] = lines[i]
    BY <1>1, <2>1 DEF Agenda
  <2>4. \A i \in DOMAIN Tail(todo) : /\ i \in Nat /\ i > 0 /\ i + 1 \in DOMAIN todo
                                     /\ Tail(todo)[i] = todo[i + 1]
    BY <1>1, <2>1
  <2>5. ASSUME NEW i \in DOMAIN Tail(todo)
        PROVE  i + k \in DOMAIN a /\ k < i + k /\ a[i + k] = Tail(todo)[i]
    <3>1. i + 1 \in 1 .. Len(todo) /\ i \in Nat /\ i > 0
      BY <1>1, <2>4
    <3>2. a[Len(lines) + (i + 1)] = todo[i + 1]
      BY <1>1, <2>1, <3>1 DEF Agenda
    <3>3. Len(lines) + (i + 1) = i + k
      BY <2>1, <3>1
    <3>4. i + k \in DOMAIN a /\ k < i + k
      BY <2>1, <3>1
    <3> QED
      BY <2>4, <3>2, <3>3, <3>4
  <2> QED
    BY <2>2, <2>3, <2>5
<1> HIDE DEF k
<1>3. \A i, j \in DOMAIN a : i < j => a[i].path # a[j].path
  BY DEF OrderInv, Pairwise, Different
<1>4. cmd = "tree" /\ ask.canonical =>
         \A i, j \in DOMAIN a : i < j => Precedes(a[i].path, a[j].path)
  BY DEF OrderInv, Pairwise, Before
<1> HIDE DEF a
<1>5. \A v \in ItemsOf(lines) : v.path # Head(todo).path
  BY <1>2, <1>3 DEF ItemsOf
<1>6. ASSUME cmd = "tree", ask.canonical, NEW v \in ItemsOf(lines)
      PROVE  Precedes(v.path, Head(todo).path)
  <2>1. PICK i \in DOMAIN lines : v = lines[i]
    BY DEF ItemsOf
  <2> QED
    BY <1>2, <1>4, <1>6, <2>1
<1>7. ASSUME cmd = "tree", ask.canonical, NEW v \in ItemsOf(Tail(todo))
      PROVE  Precedes(Head(todo).path, v.path)
  <2>1. PICK i \in DOMAIN Tail(todo) : v = Tail(todo)[i]
    BY DEF ItemsOf
  <2> QED
    BY <1>2, <1>4, <1>7, <2>1
<1> QED
  BY <1>5, <1>6, <1>7

\* A line of what is not opened: the agenda stays.
LEMMA ListLeaves ==
    ASSUME TypeOK, TreeInv, List, todo' = Tail(todo),
           \/ ~Opens(Head(todo)) /\ skipped' = skipped
           \/ skipped' = skipped \cup {Head(todo).path}
    PROVE  TreeInv'
<1> DEFINE item == Head(todo)
<1>1. /\ cmd' = cmd /\ ask' = ask /\ pc' = pc /\ exit' = exit
      /\ pc = "list"
  BY DEF List, At, args
<1>2. Agenda' = Agenda
  BY ListMoves DEF Agenda
<1>3. ItemsOf(lines') = ItemsOf(lines) \cup {item}
  BY ListMoves
<1>4. AboveInv'
  BY <1>1, <1>2, <1>3 DEF TreeInv, AboveInv
<1>5. OrderInv'
  BY <1>1, <1>2 DEF TreeInv, OrderInv, Before, Different, Precedes, Under
<1>6. SkippedInv'
  BY <1>3 DEF TreeInv, SkippedInv
<1>7. LeafInv'
  BY <1>1, <1>2 DEF TreeInv, LeafInv
<1>8. AgendaInv'
  <2>1. Opened' = Opened
    <3>1. \A v \in ItemsOf(lines) : v.path # item.path
      BY HeadIsNew, ListMoves DEF TreeInv
    <3> QED
      BY <1>1, <1>3, <3>1 DEF Opened, Wanted, Opens
  <2>2. First' = First
    BY <1>1 DEF First
  <2> QED
    BY <1>1, <1>2, <2>1, <2>2 DEF TreeInv, AgendaInv
<1> QED
  BY <1>4, <1>5, <1>6, <1>7, <1>8 DEF TreeInv

\* A line of a directory that is opened: what it holds comes next.
LEMMA ListOpens ==
    ASSUME TypeOK, CallInv, TreeInv, List, Opens(Head(todo)), skipped' = skipped,
           NEW below \in Below(Head(todo)), todo' = below \o Tail(todo)
    PROVE  TreeInv'
<1> DEFINE item == Head(todo)
<1>1. /\ cmd' = cmd /\ ask' = ask /\ pc' = pc /\ exit' = exit
      /\ pc = "list" /\ cmd \in Lists
  BY DEF List, At, args, CallInv
<1>2. /\ item \in Items /\ Tail(todo) \in Seq(Items) /\ lines \in Seq(Items)
      /\ lines' \in Seq(Items) /\ todo # <<>>
      /\ lines' \o Tail(todo) = Agenda
      /\ ItemsOf(lines') = ItemsOf(lines) \cup {item}
      /\ ItemsOf(Agenda) = ItemsOf(lines') \cup ItemsOf(Tail(todo))
      /\ item \in ItemsOf(Agenda)
      /\ item.node # Leaf /\ item.path \in PathsOf /\ Len(item.path) < ask.depth
  BY ListMoves DEF Opens, Items
<1>3. cmd = "tree"
  BY <1>1, <1>2 DEF TreeInv, LeafInv
<1>4. /\ below \in Seq(Items)
      /\ ItemsOf(below) = InDirectory(item)
      /\ \A v \in ItemsOf(below) : \E n \in Nat : v.path = Append(item.path, n)
      /\ Pairwise(Different, below)
      /\ ask.canonical => Pairwise(Before, below)
  BY <1>2, <1>3, BelowHolds
<1>5. /\ \A v \in ItemsOf(lines) : v.path # item.path
      /\ ask.canonical =>
            /\ \A v \in ItemsOf(lines) : Precedes(v.path, item.path)
            /\ \A v \in ItemsOf(Tail(todo)) : Precedes(item.path, v.path)
  BY <1>2, <1>3, HeadIsNew DEF TreeInv
<1>6. \A v \in ItemsOf(Agenda), p \in PathsOf :
         Under(v.path, p) => \E u \in ItemsOf(lines) : u.path = p
  BY <1>3 DEF TreeInv, AboveInv
<1>7. \A v \in ItemsOf(Agenda) : v \in Items /\ v.path \in PathsOf
  <2>1. \A v \in ItemsOf(lines') : v \in Items
    BY <1>2 DEF ItemsOf
  <2>2. \A v \in ItemsOf(Tail(todo)) : v \in Items
    BY <1>2 DEF ItemsOf
  <2> QED
    BY <1>2, <2>1, <2>2 DEF Items
<1> HIDE DEF item
<1>8. Agenda' = lines' \o (below \o Tail(todo))
  BY DEF Agenda
<1>9. ItemsOf(Agenda') = ItemsOf(Agenda) \cup InDirectory(item)
  <2>0. /\ below \in Seq(Items) /\ Tail(todo) \in Seq(Items)
        /\ lines' \in Seq(Items)
    BY <1>2, <1>4
  <2>1. below \o Tail(todo) \in Seq(Items)
    BY <1>2, <1>4, Appending
  <2>2. ItemsOf(below \o Tail(todo)) = ItemsOf(below) \cup ItemsOf(Tail(todo))
    BY <2>0, ItemsOfBoth
  <2>3. ItemsOf(Agenda') = ItemsOf(lines') \cup ItemsOf(below \o Tail(todo))
    <3> DEFINE rest == below \o Tail(todo)
    <3>1. rest \in Seq(Items)
      BY <2>1
    <3>2. Agenda' = lines' \o rest
      BY <1>8
    <3> HIDE DEF rest
    <3>3. ItemsOf(lines' \o rest) = ItemsOf(lines') \cup ItemsOf(rest)
      BY ONLY <2>0, <3>1, ItemsOfBoth
    <3>4. ItemsOf(Agenda') = ItemsOf(lines' \o rest)
      BY ONLY <3>2
    <3> QED
      BY ONLY <3>3, <3>4 DEF rest
  <2> QED
    BY <1>2, <1>4, <2>2, <2>3
<1>10. AboveInv'
  <2>1. ASSUME NEW v \in ItemsOf(Agenda'), NEW p \in PathsOf, Under(v.path, p)
        PROVE  \E u \in ItemsOf(lines') : u.path = p
    <3>1. CASE v \in ItemsOf(Agenda)
      BY <1>2, <1>6, <2>1, <3>1
    <3>2. CASE v \in ItemsOf(below)
      <4>1. PICK n \in Nat : v.path = Append(item.path, n)
        BY <1>4, <3>2
      <4>2. p = item.path \/ Under(item.path, p)
        BY <1>2, <2>1, <4>1, EntryAbove
      <4> QED
        BY <1>2, <1>6, <4>2
    <3> QED
      BY <1>4, <1>9, <2>1, <3>1, <3>2
  <2> QED
    BY <1>9, <2>1 DEF AboveInv
<1>11. OrderInv'
  <2>1. \A v \in ItemsOf(below), u \in ItemsOf(Agenda) : u.path # v.path
    <3>1. ASSUME NEW v \in ItemsOf(below), NEW u \in ItemsOf(Agenda), u.path = v.path
          PROVE  FALSE
      <4>1. PICK n \in Nat : v.path = Append(item.path, n)
        BY <1>4
      <4>2. Under(u.path, item.path)
        BY <1>2, <3>1, <4>1, EntryUnder
      <4> QED
        BY <1>2, <1>5, <1>6, <4>2
    <3> QED
      BY <3>1
  <2>2. /\ \A i \in DOMAIN lines' : lines'[i] \in ItemsOf(lines') /\ lines'[i] \in Items
        /\ \A i \in DOMAIN below : below[i] \in ItemsOf(below) /\ below[i] \in Items
        /\ \A i \in DOMAIN Tail(todo) :
              Tail(todo)[i] \in ItemsOf(Tail(todo)) /\ Tail(todo)[i] \in Items
    BY <1>2, <1>4 DEF ItemsOf
  <2>3. Pairwise(Different, Agenda')
    <3>1. Pairwise(Different, lines' \o Tail(todo))
      BY <1>2 DEF TreeInv, OrderInv
    <3>2. \A i \in DOMAIN lines', j \in DOMAIN below : <<lines'[i], below[j]>> \in Different
      BY <1>2, <2>1, <2>2 DEF Different
    <3>3. \A i \in DOMAIN below, j \in DOMAIN Tail(todo) :
             <<below[i], Tail(todo)[j]>> \in Different
      BY <1>2, <2>1, <2>2 DEF Different
    <3>4. Pairwise(Different, lines' \o (below \o Tail(todo)))
      BY <1>2, <1>4, <3>1, <3>2, <3>3, Inserting
    <3> QED
      BY <1>8, <3>4
  <2>4. ASSUME ask.canonical PROVE Pairwise(Before, Agenda')
    <3>1. Pairwise(Before, lines' \o Tail(todo))
      BY <1>2, <1>3, <2>4 DEF TreeInv, OrderInv
    <3>2. ASSUME NEW u \in ItemsOf(lines'), NEW v \in ItemsOf(below)
          PROVE  Precedes(u.path, v.path)
      <4>1. PICK n \in Nat : v.path = Append(item.path, n)
        BY <1>4
      <4>2. CASE u = item
        BY <1>2, <4>1, <4>2, EntryUnder
      <4>3. CASE u \in ItemsOf(lines)
        <5>1. Precedes(u.path, item.path) /\ u.path \in PathsOf
          BY <1>2, <1>5, <1>7, <2>4, <4>3
        <5> QED
          BY <1>2, <4>1, <5>1, EntryLater
      <4> QED
        BY <1>2, <4>2, <4>3
    <3>3. ASSUME NEW v \in ItemsOf(below), NEW u \in ItemsOf(Tail(todo))
          PROVE  Precedes(v.path, u.path)
      <4>1. PICK n \in Nat : v.path = Append(item.path, n)
        BY <1>4
      <4>2. Precedes(item.path, u.path) /\ u.path \in PathsOf
        BY <1>2, <1>5, <1>7, <2>4
      <4>3. ~Under(u.path, item.path)
        BY <1>2, <1>5, <1>6
      <4> QED
        BY <1>2, <4>1, <4>2, <4>3, EntrySooner
    <3>4. \A i \in DOMAIN lines', j \in DOMAIN below : <<lines'[i], below[j]>> \in Before
      BY <2>2, <3>2 DEF Before
    <3>5. \A i \in DOMAIN below, j \in DOMAIN Tail(todo) :
             <<below[i], Tail(todo)[j]>> \in Before
      BY <2>2, <3>3 DEF Before
    <3>6. Pairwise(Before, lines' \o (below \o Tail(todo)))
      BY <1>2, <1>4, <2>4, <3>1, <3>4, <3>5, Inserting
    <3> QED
      BY <1>8, <3>6
  <2> QED
    BY <1>1, <2>3, <2>4 DEF OrderInv, Before, Different, Precedes, Under
<1>12. SkippedInv'
  BY <1>2 DEF TreeInv, SkippedInv
<1>13. LeafInv'
  BY <1>1, <1>3 DEF LeafInv
<1>14. AgendaInv'
  <2>1. item.path \notin skipped
    BY <1>5 DEF TreeInv, SkippedInv
  <2>2. Opened' = Opened \cup {item}
    BY <1>1, <1>2, <2>1 DEF Opened, Wanted
  <2>3. First' = First
    BY <1>1 DEF First
  <2>4. ItemsOf(Agenda) = First \cup UNION {InDirectory(v) : v \in Opened}
    BY <1>1 DEF TreeInv, AgendaInv
  <2>5. UNION {InDirectory(v) : v \in Opened'}
          = (UNION {InDirectory(v) : v \in Opened}) \cup InDirectory(item)
    BY <2>2
  <2> QED
    BY <1>1, <1>9, <2>3, <2>4, <2>5 DEF AgendaInv
<1> QED
  BY <1>10, <1>11, <1>12, <1>13, <1>14 DEF TreeInv

-----------------------------------------------------------------------------
(* The invariant.                                                          *)

LEMMA InitInv == Init => IInv
<1> SUFFICES ASSUME Init PROVE IInv
  OBVIOUS
<1>1. TypeOK
  <2>1. 0 \in 0 .. MaxSize /\ 0 \in 0 .. W - 1 /\ 0 \in 0 .. W
    BY BoundsAssumption
  <2>2. input \in 0 .. MaxSize /\ offset \in 0 .. W - 1 /\ length \in 0 .. W
    BY <2>1 DEF Init
  <2>3. printed \in Seq(0 .. MaxSize - 1)
    BY DEF Init
  <2>4. ask \in Asked
    BY AskedAssumption DEF Init
  <2>5. todo \in Seq(Items) /\ lines \in Seq(Items) /\ skipped \subseteq PathsOf
    BY DEF Init
  <2> QED
    BY <2>1, <2>2, <2>3, <2>4, <2>5 DEF Init, TypeOK
<1>2. CallInv /\ FileInv /\ CatInv
  BY DEF Init, CallInv, FileInv, CatInv
<1>5. ListInv
  BY DEF Init, ListInv
<1>3. OldOrNew
  BY DEF Init, OldOrNew
<1>4. CatIsExact
  <2>1. printed = <<>> /\ pc = "open"
    BY DEF Init
  <2>2. before # Missing => Len(before) \in Nat
    BY FileIsBytes, BoundsAssumption, <1>1 DEF TypeOK
  <2> QED
    BY <2>1, <2>2, <1>1, BoundsAssumption DEF CatIsExact, Count, Wraps, Lesser, TypeOK, ToEnd
<1> QED
  BY <1>1, <1>2, <1>3, <1>4, <1>5 DEF IInv

\* Every command begins with one of these.
LEMMA FirstCallIs ==
    ASSUME TypeOK PROVE FirstCall(cmd) \in {"call", "probe", "fetch", "stdin", "stat", "resolve", "opendir"}
BY CommandsAssumption DEF FirstCall, TypeOK, AllCommands, OneCall, Reads, TwoReads

\* No argument ever changes.
LEMMA ArgsStay == Next => UNCHANGED args
BY DEF Next, Open, Call, Probe, Fetch, ReadStdin, Stat, Create, Truncate, Pwrite,
       Resolve, Size, Read, OpenDir, List, ListEnds, Kill, At

LEMMA StepType == IInv /\ [Next]_vars => TypeOK'
<1> SUFFICES ASSUME IInv, [Next]_vars PROVE TypeOK'
  OBVIOUS
<1> USE DEF At, Goto, Exit, args, loop, list
<1>0. TypeOK /\ CallInv /\ FileInv /\ CatInv
  BY DEF IInv
<1>1. ASSUME Open PROVE TypeOK'
  BY <1>0, <1>1, FirstCallIs DEF Open, TypeOK
<1>2. ASSUME Call \/ Probe \/ Fetch PROVE TypeOK'
  BY <1>0, <1>2 DEF Call, Probe, Fetch, TypeOK
<1>3. ASSUME ReadStdin \/ Stat \/ Resolve \/ Kill PROVE TypeOK'
  BY <1>0, <1>3 DEF ReadStdin, Stat, Resolve, Kill, TypeOK
<1>4. ASSUME Create \/ Truncate PROVE TypeOK'
  BY <1>0, <1>4, EmptyFile DEF Create, Truncate, Truncated, TypeOK
<1>5. ASSUME Pwrite PROVE TypeOK'
  <2>1. file = <<>> /\ input \in 0 .. MaxSize
    BY <1>0, <1>5 DEF Pwrite, FileInv, TypeOK
  <2>2. \A n \in 0 .. input : Overwritten(file, n) \in Contents("new")
    BY <2>1, WrittenToEmpty, BoundsAssumption
  <2> QED
    BY <1>0, <1>5, <2>2 DEF Pwrite, TypeOK
<1>6. ASSUME Size PROVE TypeOK'
  <2>1. Len(file) \in 0 .. MaxSize
    BY <1>0, <1>6, FileIsBytes DEF Size, CallInv, CatInv, TypeOK
  <2>2. End(Len(file)) \in 0 .. MaxSize
    BY <1>0, <2>1, EndIsRight, BoundsAssumption
  <2>3. pos' \in 0 .. MaxSize /\ end' \in 0 .. MaxSize
    BY <1>0, <1>6, <2>2, BoundsAssumption DEF Size, TypeOK
  <2>4. pc' \in {"exited", "read"} /\ served' \in BOOLEAN /\ exit' \in {0, 1}
    BY <1>0, <1>6 DEF Size, TypeOK
  <2> QED
    BY <1>0, <1>6, <2>3, <2>4 DEF Size, TypeOK
<1>7. ASSUME Read PROVE TypeOK'
  <2>1. CASE UNCHANGED <<pos, printed>>
    BY <1>0, <1>7, <2>1 DEF Read, TypeOK
  <2>2. CASE \E n \in ReadCounts(pos, Want(pos)) :
               printed' = printed \o [i \in 1 .. n |-> pos + i - 1] /\ pos' = pos + n
    <3>1. PICK n \in ReadCounts(pos, Want(pos)) :
             printed' = printed \o [i \in 1 .. n |-> pos + i - 1] /\ pos' = pos + n
      BY <2>2
    <3>2. n \in Nat /\ pos + n <= MaxSize /\ pos \in Nat /\ MaxSize \in Nat
      BY <1>0, <1>7, <3>1, ReadBounds, BoundsAssumption DEF Read, IInv
    <3>3. [i \in 1 .. n |-> pos + i - 1] \in Seq(0 .. MaxSize - 1)
      BY <3>2
    <3>4. printed' \in Seq(0 .. MaxSize - 1)
      BY <1>0, <3>1, <3>3, Appending DEF TypeOK
    <3>5. pc' \in {"exited", "read"} /\ served' \in BOOLEAN /\ exit' \in {0, 1}
      BY <1>0, <1>7 DEF Read, TypeOK
    <3> QED
      BY <1>0, <1>7, <3>1, <3>2, <3>4, <3>5 DEF Read, TypeOK
  <2> QED
    BY <1>7, <2>1, <2>2 DEF Read
<1>8. CASE UNCHANGED vars
  BY <1>0, <1>8 DEF vars, TypeOK
<1>9. ASSUME OpenDir PROVE TypeOK'
  <2>1. [path |-> <<>>, node |-> Root] \in Items
    BY TreeAssumption DEF Items, PathsOf
  <2>2. <<[path |-> <<>>, node |-> Root]>> \in Seq(Items)
    BY <2>1
  <2>3. todo' \in Seq(Items)
    BY <1>0, <1>9, <2>2, Listed DEF OpenDir, TypeOK
  <2>4. pc' \in {"exited", "list"} /\ exit' \in {0, 1}
    BY <1>0, <1>9 DEF OpenDir, TypeOK
  <2> QED
    BY <1>0, <1>9, <2>3, <2>4 DEF OpenDir, TypeOK
<1>10. ASSUME List PROVE TypeOK'
  <2>1. Head(todo) \in Items /\ Tail(todo) \in Seq(Items)
    BY <1>0, <1>10, Shortening DEF List, TypeOK
  <2>2. Head(todo).path \in PathsOf
    BY <2>1 DEF Items
  <2>3. lines' \in Seq(Items) /\ skipped' \subseteq PathsOf
    BY <1>0, <1>10, <2>1, <2>2, OneMore DEF List, TypeOK
  <2>4. todo' \in Seq(Items)
    <3>1. CASE todo' = Tail(todo)
      BY <2>1, <3>1
    <3>2. CASE \E below \in Below(Head(todo)) : Opens(Head(todo)) /\ todo' = below \o Tail(todo)
      BY <2>1, <3>2, BelowIs, Appending DEF Opens
    <3> QED
      BY <1>10, <3>1, <3>2 DEF List
  <2> QED
    BY <1>0, <1>10, <2>3, <2>4 DEF List, TypeOK
<1>11. ASSUME ListEnds PROVE TypeOK'
  BY <1>0, <1>11 DEF ListEnds, TypeOK
<1> QED
  BY <1>1, <1>2, <1>3, <1>4, <1>5, <1>6, <1>7, <1>8, <1>9, <1>10, <1>11 DEF Next

LEMMA StepCall == IInv /\ [Next]_vars => CallInv'
<1> SUFFICES ASSUME IInv, [Next]_vars PROVE CallInv'
  OBVIOUS
<1> USE DEF At, Goto, Exit, args, loop, list
<1>0. TypeOK /\ CallInv
  BY DEF IInv
<1>1. ASSUME Open PROVE CallInv'
  <2>1. CASE cmd \in OneCall
    <3>1. cmd \notin Reads /\ cmd \notin {"write", "touch", "cat"} /\ cmd \notin Lists
      BY <2>1 DEF OneCall, NewInode, StatusCode, Reads, TwoReads, Lists
    <3>2. FirstCall(cmd) = "call"
      BY <2>1, <3>1 DEF FirstCall, Reads
    <3> QED
      BY <1>0, <1>1, <2>1, <3>2 DEF Open, CallInv
  <2>2. CASE cmd \notin OneCall
    BY <1>0, <1>1, <2>2, CommandsAssumption
       DEF Open, CallInv, FirstCall, TypeOK, AllCommands, OneCall, NewInode, StatusCode,
           Reads, TwoReads, Lists
  <2> QED
    BY <2>1, <2>2
<1>2. ASSUME Call \/ Fetch PROVE CallInv'
  <2>1. pc' = "exited"
    BY <1>2 DEF Call, Fetch
  <2> QED
    BY <2>1 DEF CallInv
<1>3. ASSUME Probe PROVE CallInv'
  BY <1>0, <1>3 DEF Probe, CallInv
<1>6. ASSUME ReadStdin \/ Stat PROVE CallInv'
  <2>1. cmd' = cmd /\ cmd \in {"write", "touch"} /\ ~served
    BY <1>0, <1>6 DEF ReadStdin, Stat, CallInv
  <2>2. CASE pc' = "exited"
    BY <2>2 DEF CallInv
  <2>3. ASSUME ReadStdin, pc' # "exited" PROVE CallInv'
    BY <1>0, <2>3 DEF ReadStdin, CallInv
  <2>4. ASSUME Stat, pc' # "exited" PROVE CallInv'
    <3>1. PICK exists \in {file # Missing, FALSE} :
             /\ IF ~exists THEN Goto("create")
                ELSE IF cmd = "touch" THEN Exit(0) ELSE Goto("truncate")
             /\ UNCHANGED served
      BY <2>4, Zenon DEF Stat
    <3>2. CASE ~exists
      BY <2>1, <3>1, <3>2 DEF CallInv
    <3>3. CASE exists
      BY <2>1, <2>4, <3>1, <3>3 DEF CallInv
    <3> QED
      BY <3>2, <3>3
  <2> QED
    BY <1>6, <2>2, <2>3, <2>4
<1>7. ASSUME Create \/ Truncate \/ Pwrite PROVE CallInv'
  <2>1. cmd' = cmd /\ cmd \in {"write", "touch"}
    BY <1>0, <1>7 DEF Create, Truncate, Pwrite, CallInv
  <2>2. \/ pc' = "exited"
        \/ pc' = "truncate" /\ cmd = "write" /\ ~served'
        \/ pc' = "pwrite" /\ cmd = "write" /\ ~served'
    BY <1>0, <1>7, <2>1 DEF Create, Truncate, Pwrite, CallInv
  <2> QED
    BY <2>1, <2>2 DEF CallInv
<1>4. ASSUME Resolve \/ Size \/ Read \/ Kill PROVE CallInv'
  BY <1>0, <1>4 DEF Resolve, Size, Read, Kill, CallInv
<1>5. CASE UNCHANGED vars
  BY <1>0, <1>5 DEF vars, CallInv
<1>8. ASSUME OpenDir \/ List PROVE CallInv'
  BY <1>0, <1>8 DEF OpenDir, List, CallInv
<1>9. ASSUME ListEnds PROVE CallInv'
  BY <1>9 DEF ListEnds, CallInv
<1> QED
  BY <1>1, <1>2, <1>3, <1>4, <1>5, <1>6, <1>7, <1>8, <1>9 DEF Next

LEMMA StepFile == IInv /\ [Next]_vars => FileInv' /\ OldOrNew'
<1> SUFFICES ASSUME IInv, [Next]_vars PROVE FileInv' /\ OldOrNew'
  OBVIOUS
<1> USE DEF At, Goto, Exit, args, loop, list
<1>0. TypeOK /\ CallInv /\ FileInv /\ OldOrNew
  BY DEF IInv
<1>1. ASSUME Open \/ Call \/ Probe \/ Fetch \/ ReadStdin \/ Stat \/ Resolve \/ Size \/ Read \/ Kill
      PROVE  FileInv' /\ OldOrNew'
  <2>1. UNCHANGED <<cmd, before, input, file>>
    BY <1>1 DEF Open, Call, Probe, Fetch, ReadStdin, Stat, Resolve, Size, Read, Kill
  <2>2. FileInv'
    <3>1. CASE cmd = "cat"
      BY <1>0, <1>1, <2>1, <3>1, FirstCallIs
         DEF Open, Call, Probe, Fetch, ReadStdin, Stat, Resolve, Size, Read, Kill,
             FileInv, CallInv
    <3>2. CASE pc' \in {"exited", "killed"} /\ cmd # "cat"
      BY <2>1, <3>2 DEF FileInv
    <3>3. CASE pc' \notin {"exited", "killed"} /\ cmd # "cat"
      <4>1. pc \in {"open", "probe", "stdin", "stat"} /\ pc' # "pwrite"
            /\ (pc' = "truncate" => file # Missing)
        BY <1>0, <1>1, <3>3, FirstCallIs
           DEF Open, Call, Probe, Fetch, ReadStdin, Stat, Resolve, Size, Read, Kill,
               CallInv
      <4> QED
        BY <1>0, <2>1, <3>3, <4>1 DEF FileInv
    <3> QED
      BY <3>1, <3>2, <3>3
  <2>3. cmd = "write" => ~(pc' = "exited" /\ exit' = 0)
    <3>1. ASSUME cmd = "write", Open \/ ReadStdin \/ Stat \/ Kill
          PROVE  ~(pc' = "exited" /\ exit' = 0)
      BY <1>0, <3>1, FirstCallIs DEF Open, ReadStdin, Stat, Kill
    <3>2. ASSUME cmd = "write" PROVE ~(Call \/ Probe \/ Fetch \/ Resolve \/ Size \/ Read)
      BY <1>0, <3>2 DEF Call, Probe, Fetch, Resolve, Size, Read, CallInv,
                        OneCall, NewInode, StatusCode, Reads, TwoReads, Lists
    <3> QED
      BY <1>1, <3>1, <3>2
  <2>4. OldOrNew'
    BY <1>0, <2>1, <2>3 DEF OldOrNew
  <2> QED
    BY <2>2, <2>4
<1>2. ASSUME Create PROVE FileInv' /\ OldOrNew'
  <2>1. <<>> # Missing
    BY EmptyIsThere
  <2> QED
    BY <1>0, <1>2, <2>1 DEF Create, FileInv, OldOrNew, CallInv
<1>3. ASSUME Truncate PROVE FileInv' /\ OldOrNew'
  <2>1. <<>> # Missing /\ <<>> = Bytes("new", 0)
    BY EmptyIsThere, EmptyFile
  <2> QED
    BY <1>0, <1>3, <2>1 DEF Truncate, Truncated, FileInv, OldOrNew, CallInv
<1>4. ASSUME Pwrite PROVE FileInv' /\ OldOrNew'
  <2>1. cmd = "write" /\ file = <<>> /\ input \in 0 .. MaxSize
    BY <1>0, <1>4 DEF Pwrite, CallInv, FileInv, TypeOK
  <2>2. PICK n \in 0 .. input : /\ file' = Overwritten(file, n)
                                /\ pc' = "exited" /\ (exit' = 0 => n = input)
    BY <1>4, <2>1, BoundsAssumption DEF Pwrite, WroteAll
  <2>3. n \in 0 .. MaxSize
    BY <2>1, BoundsAssumption
  <2>4. file' = Bytes("new", n) /\ file' \in Contents("new")
    BY <2>1, <2>2, <2>3, WrittenToEmpty
  <2>5. file' # Missing /\ \A i \in 1 .. Len(file') : file'[i] = "new"
    BY <2>4, <2>3, FileIsBytes, BytesAreThere
  <2> QED
    BY <1>4, <2>1, <2>2, <2>4, <2>5 DEF Pwrite, FileInv, OldOrNew
<1>5. CASE UNCHANGED vars
  BY <1>0, <1>5 DEF vars, FileInv, OldOrNew
<1>6. ASSUME OpenDir \/ List \/ ListEnds PROVE FileInv' /\ OldOrNew'
  <2>1. cmd \in Lists /\ UNCHANGED <<cmd, before, input, file>>
        /\ pc \in {"opendir", "list"} /\ pc' \in {"exited", "list"}
    BY <1>0, <1>6 DEF OpenDir, List, ListEnds, CallInv
  <2>2. cmd \notin {"write", "touch", "cat"}
    BY <2>1 DEF Lists
  <2> QED
    BY <1>0, <2>1, <2>2 DEF FileInv, OldOrNew
<1> QED
  BY <1>1, <1>2, <1>3, <1>4, <1>5, <1>6 DEF Next

LEMMA StepCat == IInv /\ [Next]_vars => CatInv' /\ CatIsExact'
<1> SUFFICES ASSUME IInv, [Next]_vars, cmd = "cat" PROVE CatInv' /\ CatIsExact'
  BY ArgsStay DEF CatInv, CatIsExact, Count, Wraps, vars, args
<1> USE DEF At, Goto, Exit, args, loop, list
<1>0. TypeOK /\ CallInv /\ FileInv /\ CatInv /\ CatIsExact
  BY DEF IInv
<1>1. ASSUME Open \/ Resolve \/ Kill PROVE CatInv' /\ CatIsExact'
  <2>1. UNCHANGED <<args, printed, file>> /\ pc' # "read"
        /\ ~(pc' = "exited" /\ exit' = 0)
    BY <1>1 DEF Open, Resolve, Kill, FirstCall, OneCall, NewInode, StatusCode, Reads, TwoReads
  <2>2. CatInv'
    BY <1>0, <1>1, <2>1 DEF Open, Resolve, Kill, FirstCall, OneCall, NewInode, StatusCode,
                            Reads, TwoReads, CatInv
  <2>3. CatIsExact'
    BY <1>0, <2>1 DEF CatIsExact, Count, Wraps, ToEnd
  <2> QED
    BY <2>2, <2>3
<1>2. ASSUME Size PROVE CatInv' /\ CatIsExact'
  <2>1. /\ file # Missing /\ file = before /\ printed = <<>> /\ UNCHANGED <<args, file, printed>>
        /\ file' # Missing /\ pc' \in {"exited", "read"}
    BY <1>0, <1>2 DEF Size, CatInv, FileInv
  <2>2. Len(file) \in 0 .. MaxSize
    BY <1>0, <2>1, FileIsBytes DEF TypeOK
  <2>3. CatInv'
    BY <1>0, <1>2, <2>1, <2>2, EndIsRight, BoundsAssumption
       DEF Size, CatInv, End, ToEnd, TypeOK
  <2>4. exit' = 0 /\ pc' = "exited" => offset >= End(Len(file))
    BY <1>2 DEF Size
  <2>5. CatIsExact'
    BY <1>0, <2>1, <2>2, <2>4, EndIsRight, BoundsAssumption
       DEF CatIsExact, Count, Wraps, Lesser, ToEnd, TypeOK
  <2> QED
    BY <2>3, <2>5
<1>3. ASSUME Read PROVE CatInv' /\ CatIsExact'
  <2>1. /\ file # Missing /\ file = before /\ UNCHANGED <<args, file, end>>
        /\ end = End(Len(file)) /\ pos < end /\ pos = offset + Len(printed)
        /\ file' # Missing /\ pc' \in {"exited", "read"}
    BY <1>0, <1>3 DEF Read, CatInv, FileInv
  <2>2. Len(file) \in 0 .. MaxSize /\ printed \in Seq(0 .. MaxSize - 1)
    BY <1>0, <2>1, FileIsBytes DEF TypeOK
  <2>3. CASE pc' = "exited" /\ exit' = 1 /\ UNCHANGED printed
    BY <1>0, <2>1, <2>3 DEF CatInv, CatIsExact, Count, Wraps, ToEnd
  <2>4. CASE ~(pc' = "exited" /\ exit' = 1 /\ UNCHANGED printed)
    <3>1. PICK n \in ReadCounts(pos, Want(pos)) :
             /\ printed' = printed \o [i \in 1 .. n |-> pos + i - 1]
             /\ pos' = pos + n
             /\ IF n = 0 \/ pos' >= end THEN Exit(0) ELSE Goto("read")
      BY <1>3, <2>4 DEF Read
    <3>2. /\ pos \in Nat /\ n \in Nat /\ end \in 0 .. Len(file)
          /\ pos + n <= end /\ n # 0
      BY <1>0, <1>3, ReadBounds DEF Read
    <3>3. /\ Len(printed') = Len(printed) + n
          /\ \A i \in 1 .. Len(printed') :
                printed'[i] = IF i <= Len(printed) THEN printed[i] ELSE pos + (i - Len(printed)) - 1
      BY <2>2, <3>1, <3>2, Printing
    <3>4. pc' = "read" => pos' < end
      BY <3>1, <3>2
    <3>5. pc' = "exited" => pos' = end
      BY <3>1, <3>2
    <3>6. CatInv'
      BY <1>0, <2>1, <2>2, <3>1, <3>2, <3>3, <3>4, BoundsAssumption
         DEF CatInv, End, ToEnd, TypeOK
    <3>7. CatIsExact'
      <4> SUFFICES ASSUME length = ToEnd \/ offset + length < W PROVE CatIsExact'
        <5>1. Wraps' <=> Wraps
          BY <2>1 DEF Wraps, ToEnd
        <5> QED
          BY <1>0, <5>1, NoWrap DEF CatIsExact
      <4>0. ~Wraps
        BY <1>0, NoWrap
      <4>1. end = IF length = ToEnd THEN Len(file) ELSE Lesser(offset + length, Len(file))
        BY <1>0, <2>1, <2>2, EndIsRight
      <4>2. Len(printed') <= end - offset /\ (pc' = "exited" => Len(printed') = end - offset)
        BY <1>0, <2>1, <2>2, <3>1, <3>2, <3>3, <3>5, BoundsAssumption DEF TypeOK
      <4>3. \A i \in 1 .. Len(printed') : printed'[i] = offset + i - 1
        <5>1. \A i \in 1 .. Len(printed) : printed[i] = offset + i - 1
          BY <1>0, <4>0 DEF CatIsExact
        <5>2. Len(printed) \in Nat /\ Len(printed') \in Nat /\ offset \in Nat
          BY <1>0, <2>2, <3>2, <3>3, BoundsAssumption DEF TypeOK
        <5>3. ASSUME NEW i \in 1 .. Len(printed') PROVE printed'[i] = offset + i - 1
          <6>1. CASE i <= Len(printed)
            BY <3>3, <5>1, <5>2, <6>1
          <6>2. CASE i > Len(printed)
            BY <2>1, <3>3, <5>2, <6>2
          <6> QED
            BY <5>2, <6>1, <6>2
        <5> QED
          BY <5>3
      <4>4. end > offset
        BY <1>0, <2>1, <2>2, BoundsAssumption DEF TypeOK
      <4> QED
        BY <1>0, <2>1, <2>2, <3>2, <4>1, <4>2, <4>3, <4>4 DEF CatIsExact, Count, Wraps, ToEnd, TypeOK
    <3> QED
      BY <3>6, <3>7
  <2> QED
    BY <2>3, <2>4
<1>4. ASSUME \/ Call \/ Probe \/ Fetch \/ ReadStdin \/ Stat \/ Create \/ Truncate \/ Pwrite
             \/ OpenDir \/ List \/ ListEnds
      PROVE  FALSE
  BY <1>0, <1>4 DEF Call, Probe, Fetch, ReadStdin, Stat, Create, Truncate, Pwrite, OpenDir, List,
                    ListEnds, CallInv, OneCall, NewInode, StatusCode, Reads, TwoReads, Lists
<1>5. CASE UNCHANGED vars
  <2>1. CatInv'
    BY <1>0, <1>5 DEF vars, CatInv, End, ToEnd
  <2>2. CatIsExact'
    BY <1>0, <1>5 DEF vars, CatIsExact, Count, Wraps, ToEnd
  <2> QED
    BY <2>1, <2>2
<1> QED
  BY <1>1, <1>2, <1>3, <1>4, <1>5 DEF Next

LEMMA StepList == IInv /\ [Next]_vars => ListInv'
<1> SUFFICES ASSUME IInv, [Next]_vars PROVE ListInv'
  OBVIOUS
<1> USE DEF At, Goto, Exit, args, loop, list
<1>0. TypeOK /\ CallInv /\ ListInv
  BY DEF IInv
<1>1. ASSUME OpenDir PROVE ListInv'
  <2>1. cmd' = cmd /\ lines = <<>> /\ lines' = <<>> /\ pc' # "opendir" /\ pc' # "open"
    BY <1>0, <1>1 DEF OpenDir, ListInv
  <2>2. ASSUME cmd = "verify-ls", pc' = "list" PROVE ListInv'
    <3>1. PICK s \in Orders(Entries(Root)) :
             todo' = [i \in DOMAIN s |-> [path |-> <<s[i]>>, node |-> Leaf]]
      BY <1>1, <2>2 DEF OpenDir
    <3>2. /\ todo' \in Seq(Items) /\ Len(todo') = Cardinality(Entries(Root))
          /\ {todo'[i].path : i \in DOMAIN todo'} = {<<n>> : n \in Entries(Root)}
          /\ \A i \in DOMAIN todo' : todo'[i].node = Leaf
      BY <3>1, Listed
    <3>3. {lines'[i].path : i \in DOMAIN lines'} = {} /\ Len(lines') = 0
      BY <2>1
    <3>4. Len(lines') + Len(todo') = Cardinality(Entries(Root))
      BY <3>2, <3>3
    <3> QED
      BY <2>1, <2>2, <3>2, <3>3, <3>4 DEF ListInv
  <2> QED
    BY <2>1, <2>2 DEF ListInv
<1>2. ASSUME List PROVE ListInv'
  <2>1. cmd' = cmd /\ pc = "list" /\ pc' = "list" /\ todo # <<>>
    BY <1>2 DEF List
  <2>2. ASSUME cmd = "verify-ls" PROVE ListInv'
    <3> DEFINE item == Head(todo)
    <3>1. todo \in Seq(Items) /\ lines \in Seq(Items) /\ item.node = Leaf
      <4>1. todo \in Seq(Items) /\ lines \in Seq(Items)
        BY <1>0 DEF TypeOK
      <4>2. item = todo[1] /\ 1 \in DOMAIN todo
        BY <2>1, <4>1
      <4> QED
        BY <1>0, <2>1, <2>2, <4>1, <4>2 DEF ListInv
    <3>2. todo' = Tail(todo) /\ lines' = Append(lines, item)
      BY <1>2, <3>1 DEF List, Opens
    <3>3. Len(lines') + Len(todo') = Len(lines) + Len(todo)
      BY <2>1, <3>1, <3>2
    <3>4. {lines'[i].path : i \in DOMAIN lines'} = {lines[i].path : i \in DOMAIN lines} \cup {item.path}
      <4>1. item \in Items
        BY <2>1, <3>1, Shortening
      <4> HIDE DEF item
      <4> QED
        BY <3>1, <3>2, <4>1, PathsMore
    <3>5. {todo[i].path : i \in DOMAIN todo} = {item.path} \cup {todo'[i].path : i \in DOMAIN todo'}
      <4>1. {todo[i].path : i \in DOMAIN todo}
              = {Head(todo).path} \cup {Tail(todo)[i].path : i \in DOMAIN Tail(todo)}
        BY <2>1, <3>1, PathsLeft, Zenon
      <4> QED
        BY <3>2, <4>1, Zenon
    <3>6. \A i \in DOMAIN todo' : todo'[i].node = Leaf
      <4>1. \A i \in DOMAIN todo' : i + 1 \in DOMAIN todo /\ todo'[i] = todo[i + 1]
        BY <2>1, <3>1, <3>2
      <4> QED
        BY <1>0, <2>1, <2>2, <4>1 DEF ListInv
    <3> QED
      BY <1>0, <2>1, <2>2, <3>3, <3>4, <3>5, <3>6 DEF ListInv
  <2> QED
    BY <2>1, <2>2 DEF ListInv
<1>3. ASSUME Open PROVE ListInv'
  BY <1>0, <1>3, FirstCallIs DEF Open, ListInv
<1>4. ASSUME \/ Call \/ Probe \/ Fetch \/ ReadStdin \/ Stat \/ Create \/ Truncate \/ Pwrite
             \/ Resolve \/ Size \/ Read \/ ListEnds \/ Kill
      PROVE  ListInv'
  <2>1. pc' \notin {"open", "opendir", "list"}
    BY <1>4 DEF Call, Probe, Fetch, ReadStdin, Stat, Create, Truncate, Pwrite, Resolve, Size,
                Read, ListEnds, Kill
  <2> QED
    BY <2>1 DEF ListInv
<1>5. CASE UNCHANGED vars
  BY <1>0, <1>5 DEF vars, ListInv
<1> QED
  BY <1>1, <1>2, <1>3, <1>4, <1>5 DEF Next

LEMMA InitTree == Init => TreeInv
<1> SUFFICES ASSUME Init PROVE TreeInv
  OBVIOUS
<1>1. lines = <<>> /\ todo = <<>> /\ skipped = {} /\ pc = "open"
  BY DEF Init
<1>2. Agenda = <<>> /\ DOMAIN Agenda = {}
  BY <1>1 DEF Agenda
<1>3. ItemsOf(Agenda) = {} /\ Pairwise(Different, Agenda) /\ Pairwise(Before, Agenda)
  BY <1>2 DEF ItemsOf, Pairwise
<1> QED
  BY <1>1, <1>3 DEF TreeInv, AboveInv, OrderInv, SkippedInv, LeafInv, AgendaInv

\* A listing begins with the names of a directory, or with the root.
LEMMA StepOpenDir == IInv /\ TreeInv /\ OpenDir => TreeInv'
<1> SUFFICES ASSUME IInv, TreeInv, OpenDir PROVE TreeInv'
  OBVIOUS
<1>1. /\ cmd' = cmd /\ ask' = ask /\ lines' = lines /\ skipped' = skipped
      /\ pc = "opendir" /\ cmd \in Lists /\ lines = <<>>
  BY DEF OpenDir, At, args, IInv, CallInv, ListInv
<1>2. skipped = {} /\ ItemsOf(lines) = {}
  <2>1. ItemsOf(lines) = {}
    BY <1>1 DEF ItemsOf
  <2> QED
    BY <2>1 DEF TreeInv, SkippedInv
<1>3. SkippedInv' /\ Opened' = {}
  BY <1>1, <1>2 DEF SkippedInv, Opened, Wanted
<1>4. ASSUME pc' = "exited", exit' = 1, todo' = todo PROVE TreeInv'
  <2>1. Agenda' = Agenda
    BY <1>1, <1>4 DEF Agenda
  <2> QED
    BY <1>1, <1>3, <1>4, <2>1
       DEF TreeInv, AboveInv, OrderInv, Before, Different, Precedes, Under, LeafInv, AgendaInv
<1>5. ASSUME todo' \in Seq(Items), pc' = "list",
             Pairwise(Different, todo'), cmd = "tree" => Pairwise(Before, todo'),
             ItemsOf(todo') = First, cmd # "tree" => \A v \in First : v.node = Leaf,
             cmd = "tree" => \A v \in First : v.path = <<>>
      PROVE  TreeInv'
  <2>1. Agenda' = todo' /\ First' = First
    BY <1>1, <1>5 DEF Agenda, First
  <2>2. AboveInv'
    <3>1. ASSUME NEW v, v.path = <<>>, NEW p \in PathsOf PROVE ~Under(v.path, p)
      BY <3>1 DEF Under, PathsOf
    <3> QED
      BY <1>1, <1>5, <2>1, <3>1 DEF AboveInv
  <2>3. OrderInv' /\ LeafInv'
    BY <1>1, <1>5, <2>1 DEF OrderInv, LeafInv, Different, Before, Precedes, Under
  <2>4. AgendaInv'
    <3>1. UNION {InDirectory(v) : v \in Opened'} = {}
      BY <1>3
    <3> QED
      BY <1>1, <1>5, <2>1, <3>1 DEF AgendaInv
  <2> QED
    BY <1>3, <2>2, <2>3, <2>4 DEF TreeInv
<1>6. ASSUME cmd # "tree", pc' = "list", NEW s \in Orders(Entries(Root)),
             todo' = [i \in DOMAIN s |-> [path |-> <<s[i]>>, node |-> Leaf]]
      PROVE  TreeInv'
  <2>1. /\ todo' \in Seq(Items) /\ Pairwise(Different, todo')
        /\ ItemsOf(todo') = First
    BY <1>6, ListedOnce DEF First
  <2>2. \A v \in First : v.node = Leaf
    BY <1>6 DEF First
  <2> QED
    BY <1>5, <1>6, <2>1, <2>2
<1>7. ASSUME cmd = "tree", pc' = "list", todo' = <<[path |-> <<>>, node |-> Root]>>
      PROVE  TreeInv'
  <2> DEFINE start == [path |-> <<>>, node |-> Root]
  <2>1. start \in Items /\ start.path = <<>>
    BY TreeAssumption DEF Items, PathsOf
  <2>2. First = {start}
    BY <1>7 DEF First
  <2>3. todo' = <<start>>
    BY <1>7
  <2> HIDE DEF start
  <2>4. /\ todo' \in Seq(Items) /\ DOMAIN todo' = {1} /\ todo'[1] = start
    BY <2>1, <2>3
  <2>5. Pairwise(Different, todo') /\ Pairwise(Before, todo')
    BY <2>4 DEF Pairwise
  <2>6. ItemsOf(todo') = First
    BY <2>2, <2>4 DEF ItemsOf
  <2> QED
    BY <1>5, <1>7, <2>1, <2>2, <2>4, <2>5, <2>6
<1> QED
  BY <1>4, <1>6, <1>7 DEF OpenDir, Exit, Goto

LEMMA StepTree == IInv /\ TreeInv /\ [Next]_vars => TreeInv'
<1> SUFFICES ASSUME IInv, TreeInv, [Next]_vars PROVE TreeInv'
  OBVIOUS
<1>0. TypeOK /\ CallInv
  BY DEF IInv
<1>1. CASE OpenDir
  BY <1>1, StepOpenDir
<1>2. CASE List
  <2>1. CASE ~Opens(Head(todo)) /\ todo' = Tail(todo) /\ UNCHANGED skipped
    BY <1>0, <1>2, <2>1, ListLeaves
  <2>2. CASE /\ Opens(Head(todo)) /\ UNCHANGED skipped
             /\ \E below \in Below(Head(todo)) : todo' = below \o Tail(todo)
    BY <1>0, <1>2, <2>2, ListOpens
  <2>3. CASE /\ Opens(Head(todo)) /\ todo' = Tail(todo)
             /\ skipped' = skipped \cup {Head(todo).path}
    BY <1>0, <1>2, <2>3, ListLeaves
  <2> QED
    BY <1>2, <2>1, <2>2, <2>3 DEF List
<1>3. ASSUME UNCHANGED <<cmd, ask, todo, lines, skipped>>,
             cmd \in Lists => /\ pc' = "list" => pc = "list"
                              /\ pc' = "exited" /\ exit' = 0 =>
                                    todo = <<>> /\ (pc = "list" \/ (pc = "exited" /\ exit = 0))
      PROVE  TreeInv'
  <2>1. Agenda' = Agenda /\ Opened' = Opened /\ First' = First
    BY <1>3 DEF Agenda, Opened, Wanted, First
  <2>2. AboveInv' /\ SkippedInv' /\ LeafInv'
    BY <1>3, <2>1 DEF TreeInv, AboveInv, SkippedInv, LeafInv
  <2>3. OrderInv'
    BY <1>3, <2>1 DEF TreeInv, OrderInv, Before, Different, Precedes, Under
  <2>4. AgendaInv'
    BY <1>3, <2>1 DEF TreeInv, AgendaInv
  <2> QED
    BY <2>2, <2>3, <2>4 DEF TreeInv
<1>4. CASE UNCHANGED vars
  <2>1. UNCHANGED <<cmd, ask, todo, lines, skipped, pc, exit>>
    BY <1>4 DEF vars, args, list
  <2> QED
    BY <1>3, <2>1 DEF TreeInv, AgendaInv
<1>5. CASE ListEnds
  BY <1>3, <1>5 DEF ListEnds, At, Exit, args, list
<1>6. CASE Open
  <2>1. \/ pc' = FirstCall(cmd) /\ pc' # "list" /\ pc' # "exited"
        \/ pc' = "exited" /\ exit' = 1
    BY <1>0, <1>6, FirstCallIs DEF Open, Goto, Exit
  <2>2. UNCHANGED <<cmd, ask, todo, lines, skipped>>
    BY <1>6 DEF Open, At, args, list
  <2> QED
    BY <1>3, <2>1, <2>2
<1>7. CASE Kill
  BY <1>3, <1>7 DEF Kill, Goto, args, list
<1>8. CASE \/ Call \/ Probe \/ Fetch \/ ReadStdin \/ Stat \/ Create \/ Truncate \/ Pwrite
           \/ Resolve \/ Size \/ Read
  <2>1. UNCHANGED <<cmd, ask, todo, lines, skipped>>
    BY <1>8 DEF Call, Probe, Fetch, ReadStdin, Stat, Create, Truncate, Pwrite,
                Resolve, Size, Read, At, args, list
  <2>2. cmd \notin Lists
    BY <1>0, <1>8 DEF Call, Probe, Fetch, ReadStdin, Stat, Create, Truncate, Pwrite,
                Resolve, Size, Read, At, CallInv, OneCall, NewInode, StatusCode, Reads,
                TwoReads, Lists
  <2> QED
    BY <1>3, <2>1, <2>2
<1> QED
  BY <1>1, <1>2, <1>4, <1>5, <1>6, <1>7, <1>8 DEF Next

-----------------------------------------------------------------------------
(* Results.                                                                *)

\* IInv is an invariant.
THEOREM Invariance == Spec => []IInv
<1>1. IInv /\ [Next]_vars => IInv'
  BY StepType, StepCall, StepFile, StepCat, StepList DEF IInv
<1> QED
  BY InitInv, <1>1, PTL DEF Spec

\* Every variable has its type; cat's position and its end are in the file's
\* range whatever --offset and --length are.
THEOREM Typing == Spec => []TypeOK
<1>1. IInv => TypeOK
  BY DEF IInv
<1> QED
  BY Invariance, <1>1, PTL

\* write leaves the old bytes or new ones, never both, at whatever call it
\* stops; touch leaves an existing file alone.
THEOREM Writes == Spec => []OldOrNew
<1>1. IInv => OldOrNew
  BY DEF IInv
<1> QED
  BY Invariance, <1>1, PTL

\* cat prints the range, for every buffer size and every split into reads.
THEOREM Cats == Spec => []CatIsExact
<1>1. IInv => CatIsExact
  BY DEF IInv
<1> QED
  BY Invariance, <1>1, PTL

\* And so is what the listings rest on.
LEMMA Agendas == Spec => []TreeInv
<1>1. IInv /\ TreeInv /\ [Next]_vars => TreeInv'
  BY StepTree
<1> QED
  BY Invariance, InitTree, <1>1, PTL DEF Spec

\* ls and tree list what they begin with and all that is in the directories they
\* open, each entry once, for every tree of directories, every order on disk and
\* whichever directories cannot be opened; --canonical puts the paths in
\* dictionary order.
THEOREM Listings == Spec => []ListsTheTree
<1>1. IInv /\ TreeInv => ListsTheTree
  <2> SUFFICES ASSUME IInv, TreeInv, cmd \in Lists PROVE ListsTheTree
    BY DEF ListsTheTree
  <2>1. lines \in Seq(Items) /\ todo \in Seq(Items)
    BY DEF IInv, TypeOK
  <2>2. \A i \in DOMAIN lines : i \in DOMAIN Agenda /\ Agenda[i] = lines[i]
    BY <2>1 DEF Agenda
  <2>3. \A i, j \in DOMAIN lines : i < j => lines[i].path # lines[j].path
    <3>1. \A i, j \in DOMAIN Agenda : i < j => Agenda[i].path # Agenda[j].path
      BY DEF TreeInv, OrderInv, Pairwise, Different
    <3> QED
      BY <2>2, <3>1
  <2>4. cmd = "tree" /\ ask.canonical =>
           \A i, j \in DOMAIN lines : i < j => Precedes(lines[i].path, lines[j].path)
    BY <2>2 DEF TreeInv, OrderInv, Pairwise, Before
  <2>5. ASSUME pc = "exited", exit = 0
        PROVE  ItemsOf(lines) = First \cup UNION {InDirectory(v) : v \in Opened}
    <3>1. todo = <<>>
      BY <2>5 DEF TreeInv, AgendaInv
    <3>2. Agenda = lines
      BY <2>1, <3>1 DEF Agenda
    <3> QED
      BY <2>5, <3>2 DEF TreeInv, AgendaInv
  <2> QED
    BY <2>3, <2>4, <2>5 DEF ListsTheTree
<1> QED
  BY Invariance, Agendas, <1>1, PTL

\* What has been listed is on the agenda.
LEMMA LinesAreOn == TypeOK => ItemsOf(lines) \subseteq ItemsOf(Agenda)
<1> SUFFICES ASSUME TypeOK PROVE ItemsOf(lines) \subseteq ItemsOf(Agenda)
  OBVIOUS
<1>1. lines \in Seq(Items) /\ todo \in Seq(Items)
  BY DEF TypeOK
<1>2. \A i \in DOMAIN lines : i \in DOMAIN Agenda /\ Agenda[i] = lines[i]
  BY <1>1 DEF Agenda
<1> QED
  BY <1>2 DEF ItemsOf

\* How a command has exited: what the calls that decide its exit code have done.
ExitInv ==
    pc = "exited" =>
        /\ cmd \in OneCall \cup Reads => (exit = 0 <=> served)
        /\ cmd = "write" /\ exit = 1 /\ input # 0 => file # Bytes("new", input)
        /\ cmd = "touch" => IF exit = 0 THEN file # Missing ELSE file = before
        /\ cmd = "cat" => IF exit = 0 THEN file # Missing ELSE Count = 0 \/ Len(printed) # Count
        /\ cmd \in Lists /\ exit = 1 => lines = <<>> \/ (cmd = "verify-ls" /\ ~AsExpected)
        /\ cmd = "verify-ls" /\ exit = 0 => AsExpected

\* Old bytes are no new ones.
LEMMA OldIsNotNew ==
    ASSUME NEW f \in Contents("old") \cup {Missing, <<>>}, NEW n \in 0 .. MaxSize, n # 0
    PROVE  f # Bytes("new", n)
<1>1. n \in Nat /\ Bytes("new", n) # Missing /\ Len(Bytes("new", n)) = n
      /\ Bytes("new", n)[1] = "new"
  <2>1. n \in Nat /\ 1 \in 1 .. n
    BY BoundsAssumption
  <2>2. Len(Bytes("new", n)) = n /\ Bytes("new", n)[1] = "new"
    BY <2>1 DEF Bytes
  <2> QED
    BY <2>1, <2>2, BytesAreThere
<1>2. CASE f \in Contents("old")
  <2>1. \A i \in 1 .. Len(f) : f[i] = "old"
    BY <1>2, FileIsBytes
  <2>2. ASSUME f = Bytes("new", n) PROVE FALSE
    <3>1. 1 \in 1 .. Len(f) /\ f[1] = "new"
      BY <1>1, <2>2
    <3> QED
      BY <2>1, <3>1
  <2> QED
    BY <2>2
<1>3. CASE f = <<>>
  BY <1>1, <1>3
<1> QED
  BY <1>1, <1>2, <1>3

\* A command that stops before its last call has done nothing that it is for.
LEMMA StopsEarly ==
    ASSUME IInv, UNCHANGED <<args, served, printed, lines>>,
           pc # "exited", pc' = "exited" => exit' = 1,
           file' = before \/ (cmd = "write" /\ file' = <<>>),
           cmd = "cat" => printed = <<>>, cmd \in Lists => lines = <<>>
    PROVE  ExitInv'
<1> SUFFICES ASSUME pc' = "exited" PROVE ExitInv'
  BY DEF ExitInv
<1>0. TypeOK /\ CallInv
  BY DEF IInv
<1>1. ~served' /\ exit' = 1
  BY <1>0 DEF CallInv
<1>2. UNCHANGED <<cmd, input, before, offset, length>> /\ Count' = Count
  BY DEF args, Count, ToEnd
<1>3. cmd = "write" /\ input # 0 => file' # Bytes("new", input)
  BY <1>0, OldIsNotNew DEF TypeOK
<1>4. cmd = "cat" => Count' = 0 \/ Len(printed') # Count'
  <2>1. cmd = "cat" => Len(printed) = 0
    OBVIOUS
  <2> QED
    BY <1>2, <2>1
<1>5. cmd = "touch" => file' = before
  OBVIOUS
<1>6. exit' # 0
  BY <1>1
<1> QED
  BY <1>1, <1>2, <1>3, <1>4, <1>5, <1>6 DEF ExitInv

\* verify-ls, at the end of its list, complains exactly of a directory that is not
\* as expected.
LEMMA DriftIsReal ==
    ASSUME IInv, pc = "list", cmd = "verify-ls", todo = <<>>
    PROVE  Drift <=> ~AsExpected
<1>1. Len(lines) = Cardinality(Entries(Root))
      /\ {lines[i].path : i \in DOMAIN lines} = {<<n>> : n \in Entries(Root)}
  <2>1. Len(todo) = 0 /\ {todo[i].path : i \in DOMAIN todo} = {} /\ Len(lines) \in Nat
    BY DEF IInv, TypeOK
  <2> QED
    BY <2>1 DEF ListInv, IInv
<1>2. {<<n>> : n \in Entries(Root)} = {<<n>> : n \in ask.names} <=> Entries(Root) = ask.names
  <2>1. ASSUME {<<n>> : n \in Entries(Root)} = {<<n>> : n \in ask.names}, NEW n
        PROVE  n \in Entries(Root) <=> n \in ask.names
    <3>1. n \in Entries(Root) => <<n>> \in {<<m>> : m \in ask.names}
      BY <2>1
    <3>2. n \in ask.names => <<n>> \in {<<m>> : m \in Entries(Root)}
      BY <2>1
    <3> QED
      BY <3>1, <3>2
  <2> QED
    BY <2>1
<1> QED
  BY <1>1, <1>2 DEF Drift, AsExpected

LEMMA StepExit ==
    ASSUME "mkdir" \notin Commands
    PROVE  IInv /\ ExitInv /\ [Next]_vars => ExitInv'
<1> SUFFICES ASSUME IInv, ExitInv, [Next]_vars PROVE ExitInv'
  OBVIOUS
<1> USE DEF At, Goto, Exit
<1>0. TypeOK /\ CallInv /\ FileInv /\ CatInv /\ ListInv
  BY DEF IInv
<1>1. CASE Open \/ ReadStdin \/ Resolve \/ Kill
  <2>1. CASE Kill
    BY <2>1 DEF Kill, ExitInv
  <2>2. CASE Open \/ ReadStdin \/ Resolve
    <3>1. /\ UNCHANGED <<args, served, printed, lines, file>> /\ pc # "exited"
          /\ pc' = "exited" => exit' = 1
      BY <1>0, <2>2, FirstCallIs DEF Open, ReadStdin, Resolve, loop, list
    <3>2. /\ file = before
          /\ cmd = "cat" => printed = <<>>
          /\ cmd \in Lists => lines = <<>>
      BY <1>0, <2>2 DEF Open, ReadStdin, Resolve, FileInv, CatInv, ListInv, CallInv, Lists
    <3> QED
      BY <3>1, <3>2, StopsEarly
  <2> QED
    BY <1>1, <2>1, <2>2
<1>2. CASE Call
  <2>1. cmd \in OneCall /\ cmd # "mkdir" /\ cmd' = cmd
    BY <1>0, <1>2 DEF Call, CallInv, TypeOK, args
  <2>2. PICK ok \in {rw, FALSE} :
           served' = ok /\ pc' = "exited" /\ exit' = IF Bails(cmd, Result(cmd, ok)) THEN 1 ELSE 0
    BY <1>2, Zenon DEF Call
  <2>3. ok \in BOOLEAN
    BY <1>0 DEF TypeOK
  <2>4. exit' = 0 <=> served'
    BY <2>1, <2>2, <2>3 DEF Bails, Result, NewInode
  <2> QED
    BY <2>1, <2>4 DEF ExitInv, OneCall, NewInode, StatusCode, Lists
<1>3. CASE Probe \/ Fetch
  <2>1. cmd \in Reads /\ cmd' = cmd /\ pc # "exited" /\ ~served
    BY <1>0, <1>3 DEF Probe, Fetch, CallInv, args
  <2>2. pc' = "exited" => (exit' = 0 <=> served')
    <3>1. CASE Probe
      BY <2>1, <3>1 DEF Probe
    <3>2. CASE Fetch
      <4>1. PICK ok \in BOOLEAN : served' = ok /\ exit' = IF ok THEN 0 ELSE 1
        BY <3>2, Zenon DEF Fetch
      <4> QED
        BY <4>1
    <3> QED
      BY <1>3, <3>1, <3>2
  <2> QED
    BY <2>1, <2>2 DEF ExitInv, Reads, TwoReads, Lists
<1>4. CASE Stat \/ Create
  <2>1. cmd \in {"write", "touch"} /\ file = before /\ UNCHANGED <<cmd, before, input>>
    BY <1>0, <1>4 DEF Stat, Create, CallInv, FileInv, args
  <2>2. CASE pc' = "exited" /\ exit' = 0
    <3>1. CASE Stat
      <4>1. PICK exists \in {file # Missing, FALSE} :
               /\ IF ~exists THEN Goto("create")
                  ELSE IF cmd = "touch" THEN Exit(0) ELSE Goto("truncate")
               /\ UNCHANGED file
        BY <3>1, Zenon DEF Stat
      <4>2. exists
        BY <2>2, <4>1
      <4>3. file # Missing
        BY <4>1, <4>2, Zenon
      <4>4. cmd = "touch"
        BY <2>2, <4>1, <4>2
      <4> QED
        BY <2>1, <2>2, <4>1, <4>3, <4>4
           DEF ExitInv, OneCall, NewInode, StatusCode, Reads, TwoReads, Lists
    <3>2. CASE Create
      <4>1. cmd = "touch" /\ file' # Missing
        BY <2>1, <2>2, <3>2, EmptyIsThere DEF Create
      <4> QED
        BY <2>1, <2>2, <4>1 DEF ExitInv, OneCall, NewInode, StatusCode, Reads, TwoReads, Lists
    <3> QED
      BY <1>4, <3>1, <3>2
  <2>3. CASE pc' = "exited" /\ exit' # 0
    <3>1. Create /\ UNCHANGED <<args, served, printed, lines, file>> /\ exit' = 1
      BY <1>4, <2>1, <2>3 DEF Stat, Create, loop, list
    <3> QED
      BY <2>1, <3>1, StopsEarly DEF Create, Lists
  <2> QED
    BY <2>2, <2>3 DEF ExitInv
<1>5. CASE Truncate
  <2>1. cmd = "write" /\ UNCHANGED <<args, served, printed, lines>> /\ pc # "exited"
        /\ (file = before \/ file = <<>>)
    BY <1>0, <1>5 DEF Truncate, CallInv, FileInv, loop, list
  <2>2. CASE pc' = "exited" /\ exit' = 0
    BY <2>1, <2>2 DEF ExitInv, args, OneCall, NewInode, StatusCode, Reads, TwoReads, Lists
  <2>3. CASE pc' = "exited" /\ exit' # 0
    <3>1. exit' = 1 /\ file' = file
      BY <1>5, <2>3 DEF Truncate
    <3> QED
      BY <2>1, <3>1, StopsEarly DEF Lists
  <2> QED
    BY <2>2, <2>3 DEF ExitInv
<1>6. CASE Pwrite
  <2>1. cmd = "write" /\ file = <<>> /\ input \in 0 .. MaxSize /\ UNCHANGED <<cmd, input>>
    BY <1>0, <1>6 DEF Pwrite, CallInv, FileInv, TypeOK, args
  <2>2. PICK n \in 0 .. input, failed \in BOOLEAN :
           /\ failed => n < input
           /\ file' = Overwritten(file, n)
           /\ exit' = IF ~failed /\ WroteAll(n) THEN 0 ELSE 1
    BY <1>6 DEF Pwrite
  <2>3. input \in Nat /\ n \in 0 .. MaxSize
    BY <2>1, BoundsAssumption
  <2>4. exit' = 1 => n # input
    BY <2>2, <2>3 DEF WroteAll
  <2>5. file' = Bytes("new", n)
    BY <2>1, <2>2, <2>3, WrittenToEmpty
  <2>6. n # input => Bytes("new", n) # Bytes("new", input)
    <3>1. Len(Bytes("new", n)) = n /\ Len(Bytes("new", input)) = input
      BY <2>3 DEF Bytes
    <3> QED
      BY <3>1
  <2> QED
    BY <2>1, <2>4, <2>5, <2>6
       DEF ExitInv, OneCall, NewInode, StatusCode, Reads, TwoReads, Lists
<1>7. CASE Size \/ Read
  <2>1. cmd = "cat" /\ file # Missing /\ file = before /\ UNCHANGED <<args, file>>
    BY <1>0, <1>7 DEF Size, Read, CallInv, CatInv, FileInv
  <2>2. cmd' = "cat" /\ file' # Missing /\ Count' = Count
    BY <2>1 DEF args, Count, ToEnd
  <2>3. pc' = "exited" /\ exit' # 0 => Count = 0 \/ Len(printed') # Count
    <3>1. CASE Size
      BY <1>0, <3>1 DEF Size, CatInv, CallInv
    <3>2. CASE Read
      <4> SUFFICES ASSUME pc' = "exited", exit' # 0 PROVE Len(printed') # Count
        OBVIOUS
      <4>1. printed' = printed
        BY <3>2 DEF Read
      <4>2. end = End(Len(file)) /\ pos < end /\ pos = offset + Len(printed)
        BY <1>0, <2>1, <3>2 DEF Read, CatInv
      <4>3. Len(file) \in 0 .. MaxSize /\ printed \in Seq(0 .. MaxSize - 1)
        BY <1>0, <2>1, FileIsBytes DEF TypeOK
      <4>4. Len(printed) < end - offset /\ end > offset
        BY <1>0, <4>2, <4>3, BoundsAssumption DEF TypeOK
      <4>5. end - offset <= Count
        <5>0. end \in Nat
          BY <1>0, BoundsAssumption DEF TypeOK
        <5>1. CASE ~Wraps
          <6>1. end = IF length = ToEnd THEN Len(file) ELSE Lesser(offset + length, Len(file))
            BY <1>0, <4>2, <4>3, <5>1, EndIsRight, NoWrap
          <6>2. Count = IF end > offset THEN end - offset ELSE 0
            BY <2>1, <6>1 DEF Count
          <6> QED
            BY <4>4, <6>2
        <5>2. CASE Wraps
          <6>1. offset \in Nat /\ length \in Nat /\ W \in Nat /\ length < W /\ offset < W
                /\ length # ToEnd /\ offset + length >= W
            BY <1>0, <5>2, BoundsAssumption DEF Wraps, TypeOK, ToEnd
          <6>2. (offset + length) % W = offset + length - W
            BY <6>1
          <6>3. end = Lesser(offset + length - W, Len(file))
            BY <4>2, <6>1, <6>2 DEF End
          <6>4. end <= offset + length - W
            BY <4>3, <6>1, <6>3 DEF Lesser
          <6> QED
            BY <4>4, <5>0, <6>1, <6>4
        <5> QED
          BY <5>1, <5>2
      <4>6. Count \in Nat
        BY <1>0, <2>1, <4>3, BoundsAssumption DEF Count, Lesser, TypeOK
      <4> QED
        BY <1>0, <4>1, <4>3, <4>4, <4>5, <4>6, BoundsAssumption DEF TypeOK
    <3> QED
      BY <1>7, <3>1, <3>2
  <2> QED
    BY <2>1, <2>2, <2>3
       DEF ExitInv, OneCall, NewInode, StatusCode, Reads, TwoReads, Lists
<1>8. CASE OpenDir \/ List
  <2>1. cmd \in Lists /\ UNCHANGED <<args, served, file, printed>> /\ pc # "exited"
        /\ file = before /\ (pc' = "exited" => exit' = 1 /\ lines' = lines /\ lines = <<>>)
    BY <1>0, <1>8 DEF OpenDir, List, CallInv, FileInv, ListInv, loop
  <2>2. CASE pc' = "exited"
    BY <2>1, <2>2, StopsEarly DEF Lists
  <2> QED
    BY <2>2 DEF ExitInv
<1>9. CASE ListEnds
  <2>1. cmd \in Lists /\ UNCHANGED <<cmd, ask>> /\ pc = "list" /\ todo = <<>>
        /\ exit' = IF cmd = "verify-ls" /\ Drift THEN 1 ELSE 0
    BY <1>0, <1>9 DEF ListEnds, CallInv, args
  <2>2. cmd = "verify-ls" => (Drift <=> ~AsExpected)
    BY <2>1, DriftIsReal
  <2>3. AsExpected' <=> AsExpected
    BY <2>1 DEF AsExpected
  <2> QED
    BY <2>1, <2>2, <2>3 DEF ExitInv, OneCall, NewInode, StatusCode, Reads, TwoReads, Lists
<1>10. CASE UNCHANGED vars
  BY <1>10 DEF vars, args, list, loop, ExitInv, Count, ToEnd, AsExpected
<1> QED
  BY <1>1, <1>2, <1>3, <1>4, <1>5, <1>6, <1>7, <1>8, <1>9, <1>10 DEF Next

\* But for mkdir, the exit code says whether what the command is for has come
\* about, on the volume and on stdout; where it does not (a cat whose flags wrap, a
\* tree with a directory that cannot be opened), the code exits with 0.
THEOREM Exits == ASSUME "mkdir" \notin Commands PROVE Spec => []ExitMeansDone
<1>1. Init => ExitInv
  BY DEF Init, ExitInv
<1>2. IInv /\ TreeInv /\ ListsTheTree /\ ExitInv => ExitMeansDone
  <2> SUFFICES ASSUME IInv, TreeInv, ListsTheTree, ExitInv, pc = "exited" PROVE ExitMeansDone
    BY DEF ExitMeansDone
  <2>0. TypeOK /\ OldOrNew /\ CatIsExact /\ cmd \in AllCommands /\ exit \in {0, 1}
    BY CommandsAssumption DEF IInv, TypeOK
  <2> USE DEF ExitInv, ExitMeansDone, Achieved, NothingToDo
  <2>1. CASE cmd \in OneCall \cup Reads
    BY <2>0, <2>1 DEF OneCall, NewInode, StatusCode, Reads, TwoReads, Lists
  <2>2. CASE cmd = "write"
    BY <2>0, <2>2 DEF OldOrNew, OneCall, NewInode, StatusCode, Reads, TwoReads, Lists
  <2>3. CASE cmd = "touch"
    BY <2>0, <2>3 DEF OneCall, NewInode, StatusCode, Reads, TwoReads, Lists
  <2>4. CASE cmd = "cat"
    BY <2>0, <2>4 DEF CatIsExact, OneCall, NewInode, StatusCode, Reads, TwoReads, Lists
  <2>5. CASE cmd \in Lists
    <3>1. cmd \notin OneCall \cup Reads /\ cmd \notin {"write", "touch", "cat"}
      BY <2>5 DEF OneCall, NewInode, StatusCode, Reads, TwoReads, Lists
    <3>2. CASE exit = 0
      <4>1. cmd # "tree" => Wanted = {} /\ Opened = {}
        <5>1. \A v \in ItemsOf(lines) : v \in ItemsOf(Agenda)
          BY <2>0, LinesAreOn
        <5> QED
          BY <2>5, <5>1 DEF TreeInv, LeafInv, Wanted, Opened
      <4>2. skipped = {} => Opened = Wanted
        BY DEF Opened
      <4>3. ItemsOf(lines) = First \cup UNION {InDirectory(v) : v \in Opened}
        BY <2>5, <3>2 DEF ListsTheTree
      <4>4. (cmd = "tree" /\ skipped # {}) \/ Opened = Wanted
        BY <4>1, <4>2
      <4>5. cmd = "verify-ls" => AsExpected
        BY <2>5, <3>2
      <4> QED
        BY <2>5, <3>1, <3>2, <4>3, <4>4, <4>5
    <3>3. CASE exit = 1
      <4>1. First # {}
        BY TreeAssumption DEF First, Entries
      <4>2. lines = <<>> => ItemsOf(lines) = {}
        BY DEF ItemsOf
      <4>3. lines = <<>> \/ (cmd = "verify-ls" /\ ~AsExpected)
        BY <2>5, <3>3
      <4> QED
        BY <2>5, <3>3, <4>1, <4>2, <4>3
    <3> QED
      BY <2>0, <3>2, <3>3
  <2> QED
    BY <2>0, <2>1, <2>2, <2>3, <2>4, <2>5 DEF AllCommands
<1> QED
  BY Invariance, Agendas, Listings, StepExit, <1>1, <1>2, PTL DEF Spec
=============================================================================
