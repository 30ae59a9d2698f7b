------------------------- MODULE SymlinkWalkProofs -------------------------
(***************************************************************************)
(* The symlink walk agrees with reachability, for every volume and every   *)
(* bound on its hops.  Reached(p) is the least closed set with p in it, so *)
(* that what holds of all of Reached(p) is proved by choosing a closed set.*)
(***************************************************************************)
EXTENDS SymlinkWalk, TLAPS, FiniteSetTheorems

-----------------------------------------------------------------------------
(* Reachability.                                                           *)

\* A symlink with a target leads to one path, which the loop goes on with.
LEMMA LeadsToTarget ==
    ASSUME NEW q, NEW r
    PROVE  LeadsTo(q, r) <=> Named(q) \in {"absolute", "relative"} /\ r = Target(q)
BY DEF LeadsTo, Target

LEMMA ReachedIn ==
    ASSUME NEW p, NEW q, q \in Reached(p), NEW S \in SUBSET Paths, p \in S, Closed(S)
    PROVE  q \in S
BY DEF Reached

LEMMA ReachedClosed ==
    ASSUME NEW p \in Paths
    PROVE  Reached(p) \in SUBSET Paths /\ p \in Reached(p) /\ Closed(Reached(p))
<1>1. Reached(p) \in SUBSET Paths /\ p \in Reached(p)
  BY DEF Reached
<1>2. ASSUME NEW q \in Reached(p), NEW r \in Paths, LeadsTo(q, r)
      PROVE  r \in Reached(p)
  <2>1. ASSUME NEW S \in SUBSET Paths, p \in S, Closed(S) PROVE r \in S
    BY <2>1, <1>2, ReachedIn DEF Closed
  <2> QED
    BY <2>1 DEF Reached
<1> QED
  BY <1>1, <1>2 DEF Closed

\* What no symlink leads on from is reached alone.
LEMMA ReachedAlone ==
    ASSUME NEW q \in Paths, \A r \in Paths : ~LeadsTo(q, r)
    PROVE  Reached(q) = {q}
<1>1. Closed({q})
  BY DEF Closed
<1>2. Reached(q) \subseteq {q}
  BY <1>1, ReachedIn
<1> QED
  BY <1>2, ReachedClosed

\* A symlink reaches itself and what its target reaches.
LEMMA ReachedNext ==
    ASSUME NEW q \in Paths, NEW r \in Paths, LeadsTo(q, r)
    PROVE  Reached(q) = {q} \cup Reached(r)
<1> DEFINE both == {q} \cup Reached(r)
<1>1. both \in SUBSET Paths /\ q \in both
  BY ReachedClosed
<1>2. Closed(both)
  <2>1. ASSUME NEW x \in both, NEW y \in Paths, LeadsTo(x, y) PROVE y \in both
    <3>1. CASE x = q
      BY <2>1, <3>1, LeadsToTarget, ReachedClosed
    <3>2. CASE x \in Reached(r)
      BY <2>1, <3>2, ReachedClosed DEF Closed
    <3> QED
      BY <3>1, <3>2
  <2> QED
    BY <2>1 DEF Closed
<1>3. Reached(q) \subseteq both
  <2> HIDE DEF both
  <2> QED
    BY <1>1, <1>2, ReachedIn
<1>4. r \in Reached(q)
  BY ReachedClosed DEF Closed
<1>5. Reached(r) \subseteq Reached(q)
  BY <1>4, ReachedClosed, ReachedIn
<1> QED
  BY <1>3, <1>5, ReachedClosed

\* A path reached from the target of a symlink that is in a loop is in that
\* loop, so it is a symlink.
LEMMA LoopHasNoEnd ==
    ASSUME NEW q \in Paths, NEW r \in Paths, LeadsTo(q, r), q \in Reached(r),
           NEW x \in Reached(q)
    PROVE  IsSymlink(x)
<1> DEFINE loop == {y \in Reached(q) : q \in Reached(y)}
<1>1. loop \in SUBSET Paths /\ q \in loop
  BY ReachedClosed
<1>2. Closed(loop)
  <2>1. ASSUME NEW y \in loop, NEW z \in Paths, LeadsTo(y, z) PROVE z \in loop
    <3>1. y \in Paths /\ z \in Reached(q)
      BY <2>1, ReachedClosed DEF Closed
    <3>2. q \in Reached(z)
      <4>1. CASE y = q
        BY <2>1, <4>1, LeadsToTarget
      <4>2. CASE y # q
        BY <2>1, <3>1, <4>2, ReachedNext
      <4> QED
        BY <4>1, <4>2
    <3> QED
      BY <3>1, <3>2
  <2> QED
    BY <2>1 DEF Closed
<1>3. q \in Reached(x) /\ x \in Paths
  <2>1. x \in loop
    <3> HIDE DEF loop
    <3> QED
      BY <1>1, <1>2, ReachedIn
  <2> QED
    BY <2>1, <1>1
<1>4. IsSymlink(q)
  BY LeadsToTarget DEF IsSymlink
<1>5. CASE \A y \in Paths : ~LeadsTo(x, y)
  BY <1>3, <1>4, <1>5, ReachedAlone
<1>6. CASE \E y \in Paths : LeadsTo(x, y)
  BY <1>6, LeadsToTarget DEF IsSymlink
<1> QED
  BY <1>5, <1>6

-----------------------------------------------------------------------------
(* How far a path is from the end of its chain.                            *)

Chain(p) == Links(Reached(p))
End(p) == Reached(p) \ Chain(p)

LEMMA ChainFinite ==
    ASSUME NEW p \in Paths
    PROVE  IsFiniteSet(Chain(p)) /\ Cardinality(Chain(p)) \in Nat
<1>1. IsFiniteSet(Dirs \X Names)
  BY FiniteAssumption, FS_Product
<1>2. IsFiniteSet(Files)
  <2> DEFINE file == [dn \in Dirs \X Names |-> [dir |-> dn[1], name |-> dn[2]]]
  <2>1. \A f \in Files : f.dir \in Dirs /\ f.name \in Names /\ file[<<f.dir, f.name>>] = f
    BY DEF Files
  <2>2. file \in [Dirs \X Names -> Files]
    BY DEF Files
  <2> HIDE DEF file
  <2>3. \A f \in Files : \E dn \in Dirs \X Names : file[dn] = f
    BY <2>1
  <2>4. file \in Surjection(Dirs \X Names, Files)
    BY <2>2, <2>3 DEF Surjection
  <2> QED
    BY <1>1, <2>4, FS_Surjection
<1>3. Chain(p) \subseteq Files
  BY ReachedClosed DEF Chain, Links, IsSymlink, Named, Paths
<1> QED
  BY <1>2, <1>3, FS_Subset, FS_CardinalityType

\* Where the walk stops without a symlink, the chain has no link left.
LEMMA ChainEnds ==
    ASSUME NEW p \in Paths, ~IsSymlink(p)
    PROVE  End(p) = {p} /\ Chain(p) = {} /\ Cardinality(Chain(p)) = 0
<1>1. Reached(p) = {p}
  BY LeadsToTarget, ReachedAlone DEF IsSymlink
<1>2. End(p) = {p} /\ Chain(p) = {}
  BY <1>1 DEF End, Chain, Links
<1> QED
  BY <1>2, FS_EmptySet

\* An unreadable symlink is the last one, and has no end.
LEMMA ChainBreaks ==
    ASSUME NEW p \in Paths, Named(p) = "unreadable"
    PROVE  End(p) = {}
<1>1. Reached(p) = {p}
  BY LeadsToTarget, ReachedAlone
<1> QED
  BY <1>1 DEF End, Chain, Links, IsSymlink

\* Any other has the end of its target and, if there is one, one link more.
LEMMA ChainGoesOn ==
    ASSUME NEW p \in Paths, NEW r \in Paths, LeadsTo(p, r)
    PROVE  /\ End(p) = End(r)
           /\ End(p) # {} => Cardinality(Chain(p)) = 1 + Cardinality(Chain(r))
<1>1. IsSymlink(p)
  BY LeadsToTarget DEF IsSymlink
<1>2. Reached(p) = {p} \cup Reached(r)
  BY ReachedNext
<1>3. End(p) = End(r)
  BY <1>1, <1>2 DEF End, Chain, Links
<1>4. ASSUME End(p) # {} PROVE p \notin Reached(r)
  <2>1. SUFFICES ASSUME p \in Reached(r) PROVE FALSE
    OBVIOUS
  <2>2. \A x \in Reached(p) : IsSymlink(x)
    BY <2>1, LoopHasNoEnd
  <2> QED
    BY <1>4, <2>2 DEF End, Chain, Links
<1>5. ASSUME End(p) # {} PROVE Cardinality(Chain(p)) = 1 + Cardinality(Chain(r))
  <2>1. Chain(p) = Chain(r) \cup {p} /\ p \notin Chain(r)
    BY <1>1, <1>2, <1>4, <1>5 DEF Chain, Links
  <2>2. Cardinality(Chain(r) \cup {p}) = Cardinality(Chain(r)) + 1
    BY <2>1, ChainFinite, FS_AddElement
  <2> QED
    BY <2>1, <2>2, ChainFinite
<1> QED
  BY <1>3, <1>5

-----------------------------------------------------------------------------
(* The walk.                                                               *)

TypeInv ==
    /\ tree \in [Files -> Contents]
    /\ start \in Paths /\ current \in Paths
    /\ hops \in 0 .. MaxHops
    /\ pc \in {"stat", "readlink", "done"}
    /\ pc = "readlink" => IsSymlink(current) /\ hops < MaxHops

\* While the walk goes on through targets that decode, it is on the chain it
\* started at; both paths have the same end, and the links between them are those
\* counted.
Progress ==
    Decodable =>
        /\ current \in Reached(start)
        /\ End(start) = End(current)
        /\ End(start) # {} => Cardinality(Chain(start)) = hops + Cardinality(Chain(current))

WalkInv == TypeInv /\ Progress /\ WalkIsCorrect

\* The path the loop goes on with is one.
LEMMA TargetIsPath ==
    ASSUME TypeInv, IsSymlink(current), Named(current) # "unreadable"
    PROVE  /\ Target(current) \in Paths
           /\ Named(current) # "garbled" => LeadsTo(current, Target(current))
<1>1. current \in Files /\ tree[current] \in Contents /\ Named(current) = tree[current].kind
  BY DEF TypeInv, IsSymlink, Named, Paths
<1>2. tree[current] \in Link
  BY <1>1 DEF Contents, IsSymlink
<1>3. Named(current) \in {"absolute", "relative", "garbled"}
  BY <1>1, <1>2 DEF Link
<1>4. Named(current) # "garbled" => LeadsTo(current, Target(current))
  BY <1>3, LeadsToTarget
<1>5. current.dir \in Dirs
  BY <1>1 DEF Files
<1>6. CASE Named(current) = "absolute"
  BY <1>1, <1>2, <1>4, <1>6 DEF Link, LeadsTo
<1>7. CASE Named(current) = "relative"
  <2>1. tree[current].to \in Names
    BY <1>1, <1>2, <1>7 DEF Link
  <2>2. Target(current) = [dir |-> current.dir, name |-> tree[current].to]
    BY <1>4, <1>7 DEF LeadsTo
  <2> QED
    BY <1>4, <1>5, <2>1, <2>2 DEF Files, Paths
<1>8. CASE Named(current) = "garbled"
  BY <1>5, <1>8 DEF Target, DirPaths, Paths
<1> QED
  BY <1>3, <1>4, <1>6, <1>7, <1>8

\* Reachability is of the volume, which no step changes.
LEMMA SameVolume ==
    ASSUME tree' = tree
    PROVE  /\ \A p : Named(p)' = Named(p) /\ (IsSymlink(p)' <=> IsSymlink(p))
           /\ \A p : Reached(p)' = Reached(p) /\ Chain(p)' = Chain(p) /\ End(p)' = End(p)
           /\ start' = start => (Decodable' <=> Decodable)
<1>1. ASSUME NEW p PROVE Named(p)' = Named(p) /\ (IsSymlink(p)' <=> IsSymlink(p))
  BY DEF Named, IsSymlink
<1>2. ASSUME NEW q, NEW r PROVE LeadsTo(q, r)' <=> LeadsTo(q, r)
  BY <1>1 DEF LeadsTo
<1>3. ASSUME NEW S PROVE Closed(S)' <=> Closed(S)
  BY <1>2 DEF Closed
<1>4. ASSUME NEW p PROVE Reached(p)' = Reached(p)
  BY <1>3 DEF Reached
<1>5. ASSUME NEW p PROVE Chain(p)' = Chain(p) /\ End(p)' = End(p)
  BY <1>1, <1>4 DEF Chain, End, Links
<1>6. ASSUME start' = start PROVE Decodable' <=> Decodable
  BY <1>1, <1>4, <1>6 DEF Decodable, Links
<1> QED
  BY <1>1, <1>4, <1>5, <1>6

\* What a finished walk has to report.
Reports(r) ==
    Decodable =>
        IF End(start) = {} \/ Cardinality(Chain(start)) > MaxHops
          THEN r = ENOENT
          ELSE \/ \A q \in End(start) :
                    /\ Named(q) = "file" => r = q
                    /\ Named(q) = "missing" => r = ENOENT
                    /\ Named(q) = "failing" => r = OtherError
               \/ Cardinality(Chain(start)) = MaxHops /\ r = ENOENT

LEMMA CorrectIsReports == WalkIsCorrect <=> (pc = "done" => Reports(result))
BY DEF WalkIsCorrect, Reports, End, Chain, Shows

LEMMA FinishStep ==
    ASSUME WalkInv, NEW r, Finish(r), Reports(r)
    PROVE  WalkInv'
<1>1. /\ tree' = tree /\ start' = start /\ current' = current /\ hops' = hops
      /\ pc' = "done" /\ result' = r
  BY DEF Finish
<1>2. TypeInv'
  BY <1>1 DEF WalkInv, TypeInv
<1>3. Progress'
  BY <1>1, SameVolume DEF WalkInv, Progress
<1>4. Reports(result)'
  BY <1>1, SameVolume DEF Reports
<1>5. WalkIsCorrect'
  <2>1. WalkIsCorrect' <=> (pc' = "done" => Reports(result)')
    BY <1>1, SameVolume DEF WalkIsCorrect, Reports, End, Chain, Shows
  <2> QED
    BY <1>4, <2>1
<1> QED
  BY <1>2, <1>3, <1>5 DEF WalkInv

LEMMA WalkStep == WalkInv /\ [Next]_vars => WalkInv'
<1> SUFFICES ASSUME WalkInv, [Next]_vars PROVE WalkInv'
  OBVIOUS
<1>t. TypeInv /\ Progress
  BY DEF WalkInv
<1>h. hops \in Nat /\ MaxHops \in Nat /\ hops <= MaxHops
  BY <1>t, HopsAssumption DEF TypeInv
<1>c. Cardinality(Chain(start)) \in Nat /\ Cardinality(Chain(current)) \in Nat
  BY <1>t, ChainFinite DEF TypeInv
<1>1. CASE GiveUp
  <2>1. Decodable => End(start) = {} \/ Cardinality(Chain(start)) >= MaxHops
    BY <1>1, <1>t, <1>h, <1>c DEF GiveUp, Progress
  <2>2. Reports(ENOENT)
    BY <2>1, <1>c, <1>h DEF Reports
  <2> QED
    BY <1>1, <2>2, FinishStep DEF GiveUp
<1>2. CASE Stat
  <2>1. CASE IsSymlink(current)
    <3>1. UNCHANGED <<tree, start, current, hops, result>> /\ pc' = "readlink"
      BY <1>2, <2>1 DEF Stat, IsSymlink
    <3>2. TypeInv'
      BY <3>1, <2>1, <1>2, <1>t, SameVolume DEF TypeInv, Stat
    <3>3. Progress'
      BY <3>1, <1>t, SameVolume DEF Progress
    <3> QED
      BY <3>1, <3>2, <3>3 DEF WalkInv, WalkIsCorrect
  <2>2. CASE ~IsSymlink(current)
    <3>1. Decodable => End(start) = {current} /\ ~ (Cardinality(Chain(start)) > MaxHops)
      BY <1>2, <2>2, <1>t, <1>h, <1>c, ChainEnds DEF Stat, Progress, TypeInv
    <3>2. ASSUME NEW r,
                 /\ Named(current) = "file" => r = current
                 /\ Named(current) = "missing" => r = ENOENT
                 /\ Named(current) = "failing" => r = OtherError
          PROVE  Reports(r)
      BY <3>1, <3>2 DEF Reports
    <3>3. \/ Named(current) = "missing" /\ Finish(ENOENT)
          \/ Named(current) = "failing" /\ Finish(OtherError)
          \/ Named(current) = "file" /\ Finish(current)
      BY <1>2, <2>2 DEF Stat
    <3> QED
      BY <3>2, <3>3, FinishStep
  <2> QED
    BY <2>1, <2>2
<1>3. CASE Readlink
  <2> DEFINE r == Target(current)
  <2>1. UNCHANGED <<tree, start, result>> /\ current' = r /\ hops' = hops + 1 /\ pc' = "stat"
    BY <1>3 DEF Readlink
  <2>2. /\ r \in Paths /\ hops < MaxHops
        /\ Named(current) # "garbled" => LeadsTo(current, r)
    BY <1>3, <1>t, TargetIsPath DEF Readlink, TypeInv
  <2> HIDE DEF r
  <2>3. TypeInv'
    BY <2>1, <2>2, <1>t, <1>h DEF TypeInv
  <2>4. Progress'
    <3>1. SUFFICES ASSUME Decodable
          PROVE  /\ r \in Reached(start)
                 /\ End(start) = End(r)
                 /\ End(start) # {} =>
                      Cardinality(Chain(start)) = (hops + 1) + Cardinality(Chain(r))
      BY <2>1, SameVolume DEF Progress
    <3>2. current \in Chain(start)
      BY <3>1, <1>3, <1>t DEF Progress, Readlink, TypeInv, Chain, Links
    <3>3. LeadsTo(current, r)
      BY <3>1, <3>2, <2>2 DEF Decodable, Chain
    <3>4. r \in Reached(start)
      BY <3>1, <3>3, <2>2, <1>t, ReachedClosed DEF Progress, TypeInv, Closed
    <3>5. /\ End(current) = End(r)
          /\ End(current) # {} => Cardinality(Chain(current)) = 1 + Cardinality(Chain(r))
      BY <3>3, <2>2, <1>t, ChainGoesOn DEF TypeInv
    <3>6. Cardinality(Chain(r)) \in Nat
      BY <2>2, ChainFinite
    <3> QED
      BY <3>1, <3>4, <3>5, <3>6, <1>t, <1>h DEF Progress
  <2> QED
    BY <2>1, <2>3, <2>4 DEF WalkInv, WalkIsCorrect
<1>4. CASE ReadlinkFails
  <2>1. Decodable => End(start) = {}
    BY <1>4, <1>t, ChainBreaks DEF ReadlinkFails, Progress, TypeInv
  <2>2. Reports(ENOENT)
    BY <2>1 DEF Reports
  <2> QED
    BY <1>4, <2>2, FinishStep DEF ReadlinkFails
<1>5. CASE UNCHANGED vars
  <2>1. /\ UNCHANGED <<tree, start, current, hops, pc, result>>
    BY <1>5 DEF vars
  <2>2. TypeInv' /\ Progress'
    BY <2>1, <1>t, SameVolume DEF TypeInv, Progress
  <2>3. WalkIsCorrect'
    <3>1. WalkIsCorrect' <=> (pc' = "done" => Reports(result)')
      BY <2>1, SameVolume DEF WalkIsCorrect, Reports, End, Chain, Shows
    <3>2. Reports(result)' <=> Reports(result)
      BY <2>1, SameVolume DEF Reports
    <3> QED
      BY <2>1, <3>1, <3>2, CorrectIsReports DEF WalkInv
  <2> QED
    BY <2>2, <2>3 DEF WalkInv
<1> QED
  BY <1>1, <1>2, <1>3, <1>4, <1>5 DEF Next

LEMMA WalkInit == Init => WalkInv
<1> SUFFICES ASSUME Init PROVE WalkInv
  OBVIOUS
<1>1. TypeInv
  BY TreesAssumption, HopsAssumption DEF Init, TypeInv
<1>2. Cardinality(Chain(start)) \in Nat
  BY <1>1, ChainFinite DEF TypeInv
<1>3. Progress
  BY <1>1, <1>2, ReachedClosed DEF Init, Progress, TypeInv
<1> QED
  BY <1>1, <1>3 DEF Init, WalkInv, WalkIsCorrect

\* stat_resolved and resolve_symlink report what reachability says, on every
\* volume and for every bound on the hops, of a chain whose targets decode: what
\* is at its end, or ENOENT for a loop, an unreadable symlink or more than
\* MAX_SYMLINK_HOPS symlinks; of exactly MAX_SYMLINK_HOPS, one or the other.
THEOREM WalkCorrect == Spec => []WalkIsCorrect
<1>1. WalkInv => WalkIsCorrect
  BY DEF WalkInv
<1> QED
  BY <1>1, WalkInit, WalkStep, PTL DEF Spec

\* The steps a walk can still take: a stat and a readlink for each iteration it
\* has left, and the last step.
StepsLeft == IF pc = "done" THEN 0
             ELSE 2 * (MaxHops - hops) + IF pc = "stat" THEN 1 ELSE 0

\* Every step of a walk is one less to come, into whatever loop of symlinks it
\* has got and whatever targets it read: a walk takes at most two steps for each
\* hop, and one.
THEOREM WalkDescends == Spec => [](StepsLeft \in Nat) /\ [][StepsLeft' < StepsLeft]_vars
<1>1. ASSUME WalkInv PROVE StepsLeft \in Nat
  <2>1. hops \in 0 .. MaxHops /\ MaxHops \in Nat /\ (pc = "readlink" => hops < MaxHops)
    BY <1>1, HopsAssumption DEF WalkInv, TypeInv
  <2> QED
    BY <2>1 DEF StepsLeft
<1>2. ASSUME WalkInv, Next PROVE StepsLeft' < StepsLeft
  <2>1. hops \in 0 .. MaxHops /\ MaxHops \in Nat /\ (pc = "readlink" => hops < MaxHops)
    BY <1>2, HopsAssumption DEF WalkInv, TypeInv
  <2>2. \/ pc = "stat" /\ pc' \in {"readlink", "done"} /\ hops' = hops
           /\ (pc' = "readlink" => hops < MaxHops)
        \/ pc = "readlink" /\ pc' = "stat" /\ hops' = hops + 1
        \/ pc = "readlink" /\ pc' = "done"
    BY <1>2 DEF Next, GiveUp, Stat, Readlink, ReadlinkFails, Finish
  <2> QED
    BY <2>1, <2>2 DEF StepsLeft
<1>3. WalkInv /\ [Next]_vars => [StepsLeft' < StepsLeft]_vars
  BY <1>2
<1> QED
  BY <1>1, <1>3, WalkInit, WalkStep, PTL DEF Spec
=============================================================================
