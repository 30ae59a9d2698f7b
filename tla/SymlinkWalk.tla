---------------------------- MODULE SymlinkWalk ----------------------------
(***************************************************************************)
(* The symlink walk: stat_resolved of the mount and resolve_symlink of the *)
(* `cat` command are the same loop.  One iteration stats the current path; *)
(* when that is a symlink it reads the target and rewrites the path, an    *)
(* absolute target replacing it and a relative one taken from the link's   *)
(* own directory.  The loop counts its iterations, that is its stats.      *)
(*                                                                         *)
(* The volume does not change during a walk: every caller holds WinFsp's   *)
(* namespace guard, and the command line is alone on the image.            *)
(***************************************************************************)
EXTENDS Naturals, FiniteSets

CONSTANTS
    Dirs,       \* directories, none of them behind a symlink
    Names,      \* entry names
    Trees,      \* the volumes considered: what every path names
    MaxHops     \* MAX_SYMLINK_HOPS, 8

\* A path is a directory itself, or a name in a directory.
DirPath(d) == [dir |-> d, name |-> "."]
DirPaths == {DirPath(d) : d \in Dirs}
Files == [dir : Dirs, name : Names]
Paths == DirPaths \cup Files

\* What a path names: nothing, something whose stat fails for another reason,
\* a file or a directory, or a symlink: one whose target is absolute,
\* relative, or not UTF-8 ("garbled"), or one that readlink fails for.
Link == [kind : {"absolute"}, to : Paths]
        \cup [kind : {"relative"}, to : Names]
        \cup [kind : {"garbled", "unreadable"}]
Contents == [kind : {"missing", "failing", "file"}] \cup Link

ASSUME TreesAssumption == Trees \subseteq [Files -> Contents]
ASSUME HopsAssumption == MaxHops \in Nat \ {0}
\* A volume has finitely many directories and names.
ASSUME FiniteAssumption == IsFiniteSet(Dirs) /\ IsFiniteSet(Names)

VARIABLES tree, start, current, hops, pc, result

vars == <<tree, start, current, hops, pc, result>>

\* The errors a walk can return; "other" is any errno of a failing stat.
ENOENT == [dir |-> "none", name |-> "ENOENT"]
OtherError == [dir |-> "none", name |-> "other"]

\* fs_ext4_stat never follows the last component.
Named(p) == IF p \in DirPaths THEN "file" ELSE tree[p].kind
IsSymlink(p) == Named(p) \notin {"missing", "failing", "file"}

\* Mutant: a relative target is taken from the directory the walk started in.
FromStart(p) ==
    CASE Named(p) = "absolute" -> tree[p].to
      [] Named(p) = "relative" -> [dir |-> start.dir, name |-> tree[p].to]
      [] Named(p) = "garbled" -> DirPath(p.dir)

\* The path the loop goes on with.  A target that is not UTF-8 is taken for
\* the empty string, so that the path becomes the link's directory.
Target(p) ==
    CASE Named(p) = "absolute" -> tree[p].to
      [] Named(p) = "relative" -> [dir |-> p.dir, name |-> tree[p].to]
      [] Named(p) = "garbled" -> DirPath(p.dir)

Init ==
    /\ tree \in Trees
    /\ start \in Paths
    /\ current = start
    /\ hops = 0
    /\ pc = "stat"
    /\ result = ENOENT

Finish(r) == pc' = "done" /\ result' = r /\ UNCHANGED <<tree, start, current, hops>>

\* The loop runs MaxHops times and then falls out with ENOENT.
GiveUp ==
    /\ pc = "stat"
    /\ hops = MaxHops
    /\ Finish(ENOENT)

Stat ==
    /\ pc = "stat"
    /\ hops < MaxHops
    /\ \/ Named(current) = "missing" /\ Finish(ENOENT)
       \/ Named(current) = "failing" /\ Finish(OtherError)
       \/ Named(current) = "file" /\ Finish(current)
       \/ /\ IsSymlink(current)
          /\ pc' = "readlink"
          /\ UNCHANGED <<tree, start, current, hops, result>>

Readlink ==
    /\ pc = "readlink" /\ Named(current) # "unreadable"
    /\ current' = Target(current)
    /\ hops' = hops + 1
    /\ pc' = "stat"
    /\ UNCHANGED <<tree, start, result>>

ReadlinkFails ==
    /\ pc = "readlink" /\ Named(current) = "unreadable"
    /\ Finish(ENOENT)

Next == GiveUp \/ Stat \/ Readlink \/ ReadlinkFails

Spec == Init /\ [][Next]_vars

----------------------------------------------------------------------------
(***************************************************************************)
(* Properties                                                              *)
(***************************************************************************)

\* What a symlink at q means, as a relation: its target, seen from where the
\* link is.  One whose target cannot be read leads nowhere.
LeadsTo(q, r) ==
    \/ Named(q) = "absolute" /\ r = tree[q].to
    \/ Named(q) = "relative" /\ r = [dir |-> q.dir, name |-> tree[q].to]

\* No symlink leads out of S.
Closed(S) == \A q \in S : \A r \in Paths : LeadsTo(q, r) => r \in S

\* The paths reached by following symlinks from p, however many: those that no
\* closed set with p in it leaves out.
Reached(p) == Paths \ UNION {Paths \ S : S \in {T \in SUBSET Paths : p \in T /\ Closed(T)}}

Links(S) == {q \in S : IsSymlink(q)}

\* No symlink on the way has a target that is not UTF-8.
Decodable == \A q \in Links(Reached(start)) : Named(q) # "garbled"

\* What there is at the end of the chain: the path, its absence, or the error of
\* its stat.
Shows(q) ==
    /\ Named(q) = "file" => result = q
    /\ Named(q) = "missing" => result = ENOENT
    /\ Named(q) = "failing" => result = OtherError

\* The walk agrees with reachability on the whole graph of symlinks: it reports
\* what is at the end of a chain of fewer than MaxHops symlinks, and ENOENT for a
\* loop wherever it is entered, for an unreadable symlink, and for a chain of
\* more than MaxHops ("up to 8 levels deep", "depth > 8").  Of a chain of exactly
\* MaxHops only that nothing else comes of it: the docs promise its end and the
\* loop, which counts stats, answers ENOENT.  Nothing is said of a chain with a
\* target that is not UTF-8, whose link's directory the loop takes for it.
WalkIsCorrect ==
    pc = "done" /\ Decodable =>
        LET reached == Reached(start)
            links == Cardinality(Links(reached))
            ends == reached \ Links(reached)
        IN  IF ends = {} \/ links > MaxHops
              THEN result = ENOENT
              ELSE \/ \A q \in ends : Shows(q)
                   \/ links = MaxHops /\ result = ENOENT
=============================================================================
