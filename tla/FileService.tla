----------------------------- MODULE FileService -----------------------------
(***************************************************************************)
(* What Windows may rely on of the open files of a mounted volume          *)
(* (src/mount.rs), without paths: an open is an open of one file, a        *)
(* request works on the file of its open from beginning to end, and the    *)
(* name of a file changes in one step for the directory and every open.    *)
(* A handle that is cleaned up lingers until it is closed, and still       *)
(* works on its file until that file is removed or somebody else changes   *)
(* its name; nothing is promised of it after that.                         *)
(* FileHandles implements it with paths alone.                             *)
(***************************************************************************)
CONSTANTS Names, Files, Handles, Threads, Nil

VARIABLES
    writable,   \* is the volume mounted read-write?
    dir,        \* the file each name leads to, or Nil
    unborn,     \* the files not created yet
    open,       \* the file and the name of each open handle, or Nil
    lingering,  \* the handles cleaned up and not closed
    marked,     \* the names marked for deletion
    serving     \* the handle and the file each thread works on, or Nil

vars == <<writable, dir, unborn, open, lingering, marked, serving>>

Init ==
    /\ writable \in BOOLEAN
    /\ dir \in [Names -> Files \cup {Nil}]
    /\ unborn = {f \in Files : \A n \in Names : dir[n] # f}
    /\ open = [h \in Handles |-> Nil]
    /\ lingering = {}
    /\ marked = {}
    /\ serving = [t \in Threads |-> Nil]

\* Who knows the file of the name: those that have it open, and those that
\* linger.
Knows(h, n) == open[h] # Nil /\ open[h].name = n

Opens(n) == {h \in Handles \ lingering : Knows(h, n)}

Served(h) == \E t \in Threads : serving[t] # Nil /\ serving[t].handle = h

Lost == [file |-> Nil, name |-> Nil]

\* A file that is there is opened, perhaps for deletion when it is closed.
OpenFile(h, n) ==
    /\ open[h] = Nil /\ dir[n] # Nil /\ n \notin marked
    /\ open' = [open EXCEPT ![h] = [file |-> dir[n], name |-> n]]
    /\ marked' \in {marked, marked \cup {n}}
    /\ UNCHANGED <<writable, dir, unborn, lingering, serving>>

\* A new file is made, and opened unless something fails after that.
CreateFile(h, n) ==
    /\ writable
    /\ open[h] = Nil /\ dir[n] = Nil /\ n \notin marked
    /\ \E f \in unborn :
        /\ dir' = [dir EXCEPT ![n] = f]
        /\ unborn' = unborn \ {f}
        /\ open' \in {open, [open EXCEPT ![h] = [file |-> f, name |-> n]]}
    /\ UNCHANGED <<writable, lingering, marked, serving>>

\* The only open of a name marks it for deletion, or takes the mark away.
Mark(h) ==
    /\ writable
    /\ open[h] # Nil /\ h \notin lingering
    /\ ~Served(h) /\ Opens(open[h].name) = {h}
    /\ marked' \in {marked \cup {open[h].name}, marked \ {open[h].name}}
    /\ UNCHANGED <<writable, dir, unborn, open, lingering, serving>>

\* A handle that is not the last one of a marked name just lingers.
Cleanup(h) ==
    /\ open[h] # Nil /\ h \notin lingering /\ ~Served(h)
    /\ open[h].name \notin marked \/ Opens(open[h].name) # {h}
    /\ lingering' = lingering \cup {h}
    /\ UNCHANGED <<writable, dir, unborn, open, marked, serving>>

\* The last one takes its own file along, or fails to; whatever lingers on the
\* name has lost it.
CleanupMarked(h) ==
    /\ open[h] # Nil /\ h \notin lingering
    /\ LET n == open[h].name
       IN  /\ n \in marked /\ Opens(n) = {h}
           /\ \A g \in Handles : Knows(g, n) => ~Served(g)
           /\ \/ UNCHANGED dir
              \/ writable /\ dir[n] = open[h].file /\ dir' = [dir EXCEPT ![n] = Nil]
           /\ marked' = marked \ {n}
           /\ open' = [g \in Handles |-> IF Knows(g, n) THEN Lost ELSE open[g]]
    /\ lingering' = lingering \cup {h}
    /\ UNCHANGED <<writable, unborn, serving>>

Close(h) ==
    /\ h \in lingering /\ ~Served(h)
    /\ open' = [open EXCEPT ![h] = Nil]
    /\ lingering' = lingering \ {h}
    /\ UNCHANGED <<writable, dir, unborn, marked, serving>>

\* The file of h, open nowhere else, gets a name nobody has open: directory,
\* open and mark in one step.  What lingers on either name has lost it, and
\* so have the requests that still run through it.
Rename(h, dst) ==
    /\ writable
    /\ open[h] # Nil /\ h \notin lingering /\ ~Served(h)
    /\ LET src == open[h].name
           Loses(g) == g \in lingering /\ (Knows(g, src) \/ Knows(g, dst))
       IN  /\ Opens(src) = {h} /\ Opens(dst) = {} /\ dst # src
           /\ dir[src] = open[h].file
           /\ dir' = [dir EXCEPT ![dst] = dir[src], ![src] = Nil]
           /\ marked' = IF src \in marked THEN (marked \ {src}) \cup {dst}
                                          ELSE marked
           /\ open' = [g \in Handles |-> IF g = h THEN [file |-> dir[src], name |-> dst]
                                         ELSE IF Loses(g) THEN Lost ELSE open[g]]
           /\ serving' = [t \in Threads |->
                            IF serving[t] # Nil /\ Loses(serving[t].handle)
                              THEN [serving[t] EXCEPT !.file = Nil] ELSE serving[t]]
    /\ UNCHANGED <<writable, unborn, lingering>>

\* A request on a handle works on the file that handle was opened on ...
Begin(t, h) ==
    /\ serving[t] = Nil /\ open[h] # Nil
    /\ serving' = [serving EXCEPT ![t] = [handle |-> h, file |-> open[h].file]]
    /\ UNCHANGED <<writable, dir, unborn, open, lingering, marked>>

\* ... until it ends.
End(t) ==
    /\ serving[t] # Nil
    /\ serving' = [serving EXCEPT ![t] = Nil]
    /\ UNCHANGED <<writable, dir, unborn, open, lingering, marked>>

Next ==
    \/ \E h \in Handles, n \in Names : OpenFile(h, n) \/ CreateFile(h, n) \/ Rename(h, n)
    \/ \E h \in Handles : Mark(h) \/ Cleanup(h) \/ CleanupMarked(h) \/ Close(h)
    \/ \E t \in Threads, h \in Handles : Begin(t, h)
    \/ \E t \in Threads : End(t)

Spec == Init /\ [][Next]_vars
=============================================================================
