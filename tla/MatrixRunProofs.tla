-------------------------- MODULE MatrixRunProofs --------------------------
(***************************************************************************)
(* What MatrixRun promises, for any number of invocations and filters.     *)
(***************************************************************************)
EXTENDS MatrixRun, TLAPS

USE FiltersAssumption, NamesAssumption DEF args, locking, disk, builder

\* What FindBuilder does to the invocation's idea of the VM: nothing, or it
\* takes the one server.env names, without owning it.
LEMMA Found ==
  ASSUME NEW r \in Runs, FindBuilder(r)
  PROVE  \/ vm' = vm /\ owned' = owned
         \/ vm' = [vm EXCEPT ![r] = env] /\ owned' = [owned EXCEPT ![r] = FALSE]
<1>1. CASE ~prebuilt /\ env \in alive
  BY <1>1 DEF FindBuilder, Reuses
<1>2. CASE prebuilt \/ env \notin alive
  BY <1>2 DEF FindBuilder
<1> QED
  BY <1>1, <1>2

\* The variables keep their types in every step of the invocations.
THEOREM Typing == Spec => []TypeOK
<1>1. Init => TypeOK
  BY DEF Init, TypeOK, Dirs, VMs, Trapped, CleaningUp, Ended
<1>2. TypeOK /\ [Next]_vars => TypeOK'
  <2> SUFFICES ASSUME TypeOK, [Next]_vars PROVE TypeOK'
    OBVIOUS
  <2> USE DEF TypeOK, Dirs, VMs, Trapped, CleaningUp, Ended, Go
  <2>1. ASSUME NEW r \in Runs, Lock(r) \/ SetTraps(r) \/ Snapshot(r) PROVE TypeOK'
    BY <2>1 DEF Lock, TakeLock, SetTraps, Snapshot
  <2>2. ASSUME NEW r \in Runs, FindBuilder(r) PROVE TypeOK'
    <3>1. /\ UNCHANGED <<filter, keep, prebuilt, session, locks, bared, images, seen, doomed>>
          /\ UNCHANGED <<mux, env, alive, lost>>
      BY <2>2 DEF FindBuilder
    <3>2. pc' \in [Runs -> {"start", "locked"} \cup Trapped \cup CleaningUp \cup Ended]
      BY <2>2 DEF FindBuilder
    <3>3. \/ vm' = vm /\ owned' = owned
          \/ vm' = [vm EXCEPT ![r] = env] /\ owned' = [owned EXCEPT ![r] = FALSE]
      BY <2>2, Found
    <3>4. /\ vm' \in [Runs -> VMs \cup {Nil}] /\ owned' \in [Runs -> BOOLEAN]
          /\ \A q \in Runs : owned'[q] => vm'[q] \in VMs
      <4>1. CASE vm' = vm /\ owned' = owned
        BY <4>1
      <4>2. CASE vm' = [vm EXCEPT ![r] = env] /\ owned' = [owned EXCEPT ![r] = FALSE]
        BY <4>2
      <4> QED
        BY <3>3, <4>1, <4>2
    <3> QED
      BY <3>1, <3>2, <3>4
  <2>3. ASSUME NEW r \in Runs, RemoveStale(r) \/ BootBuilder(r) PROVE TypeOK'
    BY <2>3 DEF RemoveStale, BootBuilder
  <2>4. ASSUME NEW r \in Runs, AdoptBuilder(r) \/ StartMux(r) PROVE TypeOK'
    <3>1. CASE StartMux(r)
      BY <3>1 DEF StartMux
    <3>2. CASE AdoptBuilder(r) /\ env = Nil
      BY <3>2 DEF AdoptBuilder
    <3>3. CASE AdoptBuilder(r) /\ env # Nil
      <4>1. /\ vm' = [vm EXCEPT ![r] = env] /\ owned' = [owned EXCEPT ![r] = TRUE]
            /\ UNCHANGED <<filter, keep, prebuilt, session, locks, bared, images, seen>>
            /\ UNCHANGED <<doomed, mux, env, alive, lost>>
            /\ pc' = [pc EXCEPT ![r] = "mux"]
        BY <3>3 DEF AdoptBuilder
      <4>2. /\ vm' \in [Runs -> VMs \cup {Nil}] /\ owned' \in [Runs -> BOOLEAN]
            /\ \A q \in Runs : owned'[q] => vm'[q] \in VMs
        BY <3>3, <4>1
      <4> QED
        BY <4>1, <4>2
    <3> QED
      BY <2>4, <3>1, <3>2, <3>3
  <2>5. ASSUME NEW r \in Runs, StartSession(r) \/ EndSession(r) PROVE TypeOK'
    BY <2>5 DEF StartSession, EndSession
  <2>6. ASSUME NEW r \in Runs, ListDirs(r) \/ RemoveDir(r) \/ DirsRemoved(r)
        PROVE  TypeOK'
    BY <2>6 DEF ListDirs, RemoveDir, DirsRemoved
  <2>7. ASSUME NEW r \in Runs, StopBuilder(r) \/ StopMux(r) \/ Unlock(r)
        PROVE  TypeOK'
    BY <2>7 DEF StopBuilder, StopMux, MuxStopped, Unlock
  <2>8. ASSUME NEW r \in Runs, Interrupt(r) \/ Die(r) PROVE TypeOK'
    BY <2>8 DEF Interrupt, Die
  <2>9. CASE RemoveLocks \/ BuilderDies
    BY <2>9 DEF RemoveLocks, BuilderDies
  <2>10. CASE UNCHANGED vars
    BY <2>10 DEF vars
  <2> QED
    BY <2>1, <2>2, <2>3, <2>4, <2>5, <2>6, <2>7, <2>8, <2>9, <2>10 DEF Next, Step
<1> QED
  BY <1>1, <1>2, PTL DEF Spec

-----------------------------------------------------------------------------
(* The lock.                                                               *)

\* An active invocation's lock directory exists, so that no other can make it.
LockInv ==
    /\ OneRunPerFilter
    /\ \A r \in Runs : Active(r) /\ filter[r] \notin bared => filter[r] \in locks

\* Every stage of an invocation between its lock and its unlock is one of
\* Active, the stages in order.
LEMMA Stages ==
  ASSUME NEW r \in Runs, TypeOK
  PROVE  Active(r) <=> pc[r] \notin {"start"} \cup Ended
BY DEF Active, TypeOK, Trapped, CleaningUp, Ended

\* The steps other than Lock, Unlock, Die and RemoveLocks leave the locks,
\* the filters, and who is active as they are.
LEMMA Inside ==
  ASSUME NEW r \in Runs, TypeOK, Step(r) \/ Interrupt(r), ~Lock(r), ~Unlock(r)
  PROVE  /\ UNCHANGED <<filter, locks, bared>>
         /\ \A q \in Runs : Active(q) <=> Active(q)'
<1> USE DEF Go, Active, TypeOK, Trapped, CleaningUp, Ended
<1>1. CASE SetTraps(r) \/ Snapshot(r)
  BY <1>1 DEF SetTraps, Snapshot
<1>2. CASE FindBuilder(r)
  BY <1>2 DEF FindBuilder
<1>3. CASE RemoveStale(r) \/ BootBuilder(r) \/ AdoptBuilder(r)
  BY <1>3 DEF RemoveStale, BootBuilder, AdoptBuilder
<1>4. CASE StartMux(r) \/ StartSession(r) \/ EndSession(r)
  BY <1>4 DEF StartMux, StartSession, EndSession
<1>5. CASE ListDirs(r) \/ RemoveDir(r) \/ DirsRemoved(r)
  BY <1>5 DEF ListDirs, RemoveDir, DirsRemoved
<1>6. CASE StopBuilder(r) \/ StopMux(r)
  BY <1>6 DEF StopBuilder, StopMux
<1>7. CASE Interrupt(r)
  BY <1>7 DEF Interrupt
<1> QED
  BY <1>1, <1>2, <1>3, <1>4, <1>5, <1>6, <1>7 DEF Step

\* LockInv is inductive.
LEMMA LockStep == TypeOK /\ LockInv /\ [Next]_vars => LockInv'
<1> SUFFICES ASSUME TypeOK, LockInv, [Next]_vars PROVE LockInv'
  OBVIOUS
<1> USE DEF LockInv, OneRunPerFilter
<1>1. ASSUME NEW r \in Runs, Lock(r) PROVE LockInv'
  BY <1>1, Stages DEF Lock, TakeLock, Go, Active, TypeOK, Trapped, CleaningUp, Ended
<1>2. ASSUME NEW r \in Runs, Unlock(r) PROVE LockInv'
  <2>1. /\ Active(r) /\ ~Active(r)'
        /\ UNCHANGED <<filter, bared>> /\ locks' = locks \ {filter[r]}
    BY <1>2 DEF Unlock, Go, Active, TypeOK, Trapped, CleaningUp
  <2>2. \A q \in Runs : Active(q)' => Active(q) /\ q # r
    BY <1>2, <2>1 DEF Unlock, Go, Active, TypeOK
  <2> QED
    BY <2>1, <2>2
<1>3. ASSUME NEW r \in Runs, Die(r) PROVE LockInv'
  BY <1>3 DEF Die, Active, TypeOK, Trapped, CleaningUp
<1>4. CASE RemoveLocks \/ BuilderDies
  <2>1. UNCHANGED <<filter, pc>> /\ bared \subseteq bared'
    BY <1>4 DEF RemoveLocks, BuilderDies
  <2>2. \A q \in Runs : Active(q) <=> Active(q)'
    BY <2>1 DEF Active
  <2>3. ASSUME NEW r \in Runs, Active(r), filter[r] \notin bared', filter[r] \in locks
        PROVE  filter[r] \in locks'
    BY <1>4, <2>3 DEF RemoveLocks, BuilderDies
  <2> QED
    BY <2>1, <2>2, <2>3
<1>5. ASSUME NEW r \in Runs, Step(r) \/ Interrupt(r), ~Lock(r), ~Unlock(r)
      PROVE  LockInv'
  BY <1>5, Inside
<1>6. CASE UNCHANGED vars
  BY <1>6 DEF vars, Active
<1> QED
  BY <1>1, <1>2, <1>3, <1>4, <1>5, <1>6 DEF Next

\* Two invocations with one filter are never active together: mkdir decides
\* between them, and the lock is there as long as one is.
THEOREM OneRun == Spec => []OneRunPerFilter
<1>1. Init => LockInv
  BY DEF Init, LockInv, OneRunPerFilter, Active, Trapped, CleaningUp
<1>2. LockInv => OneRunPerFilter
  BY DEF LockInv
<1> QED
  BY <1>1, <1>2, LockStep, Typing, PTL DEF Spec

\* The images of a session that runs are removed by no invocation with the
\* same filter: the clean-up is over before the lock is given back.
THEOREM ImagesUnderLock == Spec => SameFilterKeepsImages
<1>1. TypeOK /\ OneRunPerFilter /\ [Next]_vars =>
        \A r \in Runs, d \in Dirs :
          RemoveDir(r) /\ d \in images \ images' /\ pc[d[1]] = "running"
              => filter[d[1]] # filter[r] \/ filter[r] \in bared
  <2> SUFFICES ASSUME OneRunPerFilter, NEW r \in Runs, NEW d \in Dirs,
                      RemoveDir(r), pc[d[1]] = "running"
               PROVE  filter[d[1]] # filter[r] \/ filter[r] \in bared
    OBVIOUS
  <2>1. d[1] \in Runs /\ pc[r] = "removing" /\ d[1] # r
    BY DEF Dirs, RemoveDir
  <2>2. Active(r) /\ Active(d[1])
    BY <2>1 DEF Active, Trapped, CleaningUp
  <2> QED
    BY <2>1, <2>2 DEF OneRunPerFilter
<1> QED
  BY <1>1, Typing, OneRun, PTL DEF Spec, SameFilterKeepsImages

-----------------------------------------------------------------------------
(* The builder VM.                                                         *)

\* The stages before an invocation has a VM.
BeforeVm == {"start", "locked", "snapshot", "builder", "stale", "boot", "booted"}

\* Those after its clean-up has stopped one.
AfterVm == {"stopmux", "unlock", "done", "dead"}

\* The VM an invocation has started is the one it records, as long as it runs;
\* only one has the port, and one that does not run has been stopped by its
\* invocation or is lost.
BuilderInv ==
    /\ \A v, w \in alive : v = w
    /\ \A r \in Runs :
        /\ r \in alive => pc[r] \notin BeforeVm \ {"booted"}
        /\ pc[r] = "booted" /\ r \in alive => env \in {Nil, r}
        /\ pc[r] = "booted" => r \in alive \cup lost
        /\ owned[r] => pc[r] \notin BeforeVm
        /\ owned[r] /\ r \in alive => vm[r] = r
        /\ owned[r] /\ r \notin alive \cup lost => pc[r] \in AfterVm

\* BuilderInv is inductive.
LEMMA BuilderStep == TypeOK /\ BuilderInv /\ [Next]_vars => BuilderInv'
<1> SUFFICES ASSUME TypeOK, BuilderInv, [Next]_vars PROVE BuilderInv'
  OBVIOUS
<1> USE DEF BuilderInv, BeforeVm, AfterVm, TypeOK, Go
<1>1. ASSUME NEW r \in Runs, Lock(r) \/ SetTraps(r) \/ Snapshot(r) PROVE BuilderInv'
  BY <1>1 DEF Lock, TakeLock, SetTraps, Snapshot
<1>2. ASSUME NEW r \in Runs, FindBuilder(r) PROVE BuilderInv'
  <2>1. \/ owned' = [owned EXCEPT ![r] = FALSE]
        \/ owned' = owned /\ vm' = vm
    BY <1>2, Found
  <2>2. pc[r] = "builder" /\ env' = env /\ alive' = alive /\ lost' = lost
    BY <1>2 DEF FindBuilder
  <2>3. \E p \in {"mux", "boot", "stale"} : pc' = [pc EXCEPT ![r] = p]
    BY <1>2 DEF FindBuilder
  <2>4. \A q \in Runs \ {r} : vm'[q] = vm[q]
    BY <1>2 DEF FindBuilder
  <2> QED
    BY <2>1, <2>2, <2>3, <2>4
<1>3. ASSUME NEW r \in Runs, RemoveStale(r) PROVE BuilderInv'
  BY <1>3 DEF RemoveStale
<1>4. ASSUME NEW r \in Runs, BootBuilder(r) PROVE BuilderInv'
  <2>1. CASE UNCHANGED builder
    BY <1>4, <2>1 DEF BootBuilder
  <2>2. CASE alive = {} /\ Go(r, "boot", "booted") /\ env' = r /\ alive' = {r}
             /\ UNCHANGED <<vm, owned, lost>>
    BY <2>2
  <2> QED
    BY <1>4, <2>1, <2>2 DEF BootBuilder
<1>5. ASSUME NEW r \in Runs, AdoptBuilder(r) PROVE BuilderInv'
  <2>1. CASE env = Nil
    BY <1>5, <2>1 DEF AdoptBuilder
  <2>2. CASE env # Nil
    <3>1. /\ pc[r] = "booted" /\ pc' = [pc EXCEPT ![r] = "mux"]
          /\ vm' = [vm EXCEPT ![r] = env] /\ owned' = [owned EXCEPT ![r] = TRUE]
          /\ UNCHANGED <<env, alive, lost>>
      BY <1>5, <2>2 DEF AdoptBuilder
    <3>2. r \in alive => env = r
      BY <2>2, <3>1
    <3> QED
      BY <3>1, <3>2
  <2> QED
    BY <2>1, <2>2
<1>6. ASSUME NEW r \in Runs, StartMux(r) \/ StartSession(r) \/ EndSession(r)
      PROVE  BuilderInv'
  BY <1>6 DEF StartMux, StartSession, EndSession
<1>7. ASSUME NEW r \in Runs, ListDirs(r) \/ RemoveDir(r) \/ DirsRemoved(r)
      PROVE  BuilderInv'
  BY <1>7 DEF ListDirs, RemoveDir, DirsRemoved
<1>8. ASSUME NEW r \in Runs, StopBuilder(r) PROVE BuilderInv'
  <2>1. /\ pc[r] = "stopvm" /\ pc' = [pc EXCEPT ![r] = "stopmux"]
        /\ UNCHANGED <<env, vm, owned>> /\ alive' \subseteq alive
        /\ lost' = lost \cup ((alive \ alive') \ {r})
    BY <1>8 DEF StopBuilder
  <2>2. \A q \in Runs \ {r} : pc'[q] = pc[q]
    BY <2>1
  <2>3. \A q \in Runs \ {r} : q \in alive \cup lost <=> q \in alive' \cup lost'
    BY <2>1
  <2> QED
    BY <2>1, <2>2, <2>3
<1>9. ASSUME NEW r \in Runs, StopMux(r) \/ Unlock(r) PROVE BuilderInv'
  BY <1>9 DEF StopMux, Unlock
<1>10. ASSUME NEW r \in Runs, Interrupt(r) \/ Die(r) PROVE BuilderInv'
  <2>1. /\ UNCHANGED builder
        /\ \E p \in {"cleaning", "dead"} : pc' = [pc EXCEPT ![r] = p]
    BY <1>10 DEF Interrupt, Die
  <2>2. pc'[r] = "cleaning" => pc[r] \in Trapped
    BY <1>10 DEF Interrupt, Die
  <2> QED
    BY <2>1, <2>2 DEF Trapped
<1>11. CASE RemoveLocks \/ BuilderDies
  BY <1>11 DEF RemoveLocks, BuilderDies
<1>12. CASE UNCHANGED vars
  BY <1>12 DEF vars
<1> QED
  BY <1>1, <1>2, <1>3, <1>4, <1>5, <1>6, <1>7, <1>8, <1>9, <1>10, <1>11, <1>12
  DEF Next, Step

\* An invocation stops the VM it started and no other, however the invocations
\* race for server.env, unless its own went down behind its back: then the
\* poweroff reaches whoever has the port.
THEOREM OwnBuilder == Spec => StopsOnlyItsOwn
<1>1. Init => BuilderInv
  BY DEF Init, BuilderInv, BeforeVm, VMs
<1>2. TypeOK /\ BuilderInv /\ [Next]_vars =>
        \A r \in Runs, v \in alive \ alive' :
            pc[r] = "stopvm" /\ pc'[r] = "stopmux" => v = r \/ r \in lost
  <2> SUFFICES ASSUME TypeOK, BuilderInv, [Next]_vars,
                      NEW r \in Runs, NEW v \in alive \ alive',
                      pc[r] = "stopvm", pc'[r] = "stopmux"
               PROVE  v = r \/ r \in lost
    OBVIOUS
  <2>1. StopBuilder(r)
    <3>1. ASSUME NEW q \in Runs, q # r, Step(q) \/ Interrupt(q) \/ Die(q)
          PROVE  pc'[r] = pc[r]
      BY <3>1 DEF TypeOK, Go, Step, Lock, TakeLock, SetTraps, Snapshot, FindBuilder,
         RemoveStale, BootBuilder, AdoptBuilder, StartMux, StartSession, EndSession,
         ListDirs, RemoveDir, DirsRemoved, StopBuilder, StopMux, Unlock, Interrupt, Die
    <3>2. ~(RemoveLocks \/ BuilderDies \/ UNCHANGED vars)
      BY DEF RemoveLocks, BuilderDies, vars
    <3>3. Step(r) \/ Interrupt(r) \/ Die(r)
      BY <3>1, <3>2 DEF Next
    <3>4. ~Interrupt(r) /\ ~Die(r)
      BY DEF Interrupt, Die, TypeOK
    <3> QED
      BY <3>3, <3>4 DEF Go, Step, Lock, TakeLock, SetTraps, Snapshot, FindBuilder,
         RemoveStale, BootBuilder, AdoptBuilder, StartMux, StartSession, EndSession,
         ListDirs, RemoveDir, DirsRemoved, StopMux, Unlock
  <2>2. owned[r]
    BY <2>1 DEF StopBuilder
  <2>3. r \in alive \cup lost
    BY <2>2 DEF BuilderInv, AfterVm
  <2> QED
    BY <2>3 DEF BuilderInv
<1> QED
  BY <1>1, <1>2, BuilderStep, Typing, PTL DEF Spec, StopsOnlyItsOwn

-----------------------------------------------------------------------------
(* What a clean-up leaves.                                                 *)

\* The stages before an invocation makes images.
BeforeImages == BeforeVm \cup {"mux", "refused"}

NoImages(r) == \A d \in images : d[1] # r

\* An invocation has made no image when it takes its snapshot, so that every one
\* it makes is doomed; from then on it makes no more.
ImagesInv ==
    \A r \in Runs :
        /\ pc[r] \in BeforeImages => NoImages(r)
        /\ \A d \in seen[r] : d[1] # r
        /\ ~keep[r] =>
             /\ pc[r] = "removing" => \A d \in images : d[1] = r => d \in doomed[r]
             /\ pc[r] \in {"stopvm", "stopmux", "unlock", "done"} => NoImages(r)

\* An owned VM is started, and stopped, once; so is the ssh master.
HelpersInv ==
    \A r \in Runs :
        /\ pc[r] \in {"stopmux", "unlock", "done"} /\ owned[r] => r \notin alive
        /\ pc[r] \in {"unlock", "done"} => r \notin mux

\* A lock belongs to somebody.
OwnedLocks ==
    \A f \in locks : \E r \in Runs :
        filter[r] = f /\ (Active(r) \/ pc[r] = "dead")

\* The steps that make or list no images leave them, and what is noted of them.
LEMMA ImagesKept ==
  ASSUME NEW r \in Runs, TypeOK, Step(r) \/ Interrupt(r) \/ Die(r),
         ~Snapshot(r), ~StartSession(r), ~ListDirs(r), ~RemoveDir(r)
  PROVE  /\ UNCHANGED <<keep, images, seen, doomed>>
         /\ \A q \in Runs \ {r} : pc'[q] = pc[q]
         /\ pc'[r] \in BeforeImages => pc[r] \in BeforeImages
         /\ pc'[r] # "removing"
         /\ pc'[r] \in {"stopmux", "unlock", "done"} => pc[r] \in {"stopvm", "stopmux", "unlock"}
         /\ pc'[r] = "stopvm" => DirsRemoved(r)
<1> USE DEF Go, TypeOK, BeforeVm, BeforeImages, Trapped, CleaningUp
<1>1. CASE Lock(r) \/ SetTraps(r)
  BY <1>1 DEF Lock, TakeLock, SetTraps
<1>2. CASE FindBuilder(r)
  <2>1. UNCHANGED <<keep, images, seen, doomed>>
    BY <1>2 DEF FindBuilder
  <2>2. \E to \in {"mux", "boot", "stale"} : Go(r, "builder", to)
    BY <1>2 DEF FindBuilder
  <2> QED BY <2>1, <2>2
<1>3. CASE RemoveStale(r) \/ BootBuilder(r)
  BY <1>3 DEF RemoveStale, BootBuilder
<1>4. CASE AdoptBuilder(r)
  <2>1. UNCHANGED <<keep, images, seen, doomed>>
    BY <1>4 DEF AdoptBuilder
  <2>2. \E to \in {"mux", "cleaning"} : Go(r, "booted", to)
    BY <1>4 DEF AdoptBuilder
  <2> QED BY <2>1, <2>2
<1>5. CASE StartMux(r) \/ EndSession(r)
  BY <1>5 DEF StartMux, EndSession
<1>6. CASE DirsRemoved(r)
  BY <1>6 DEF DirsRemoved
<1>7. CASE StopBuilder(r) \/ StopMux(r) \/ Unlock(r)
  BY <1>7 DEF StopBuilder, StopMux, Unlock
<1>8. CASE Interrupt(r)
  BY <1>8 DEF Interrupt
<1>9. CASE Die(r)
  BY <1>9 DEF Die, Active
<1> QED
  BY <1>1, <1>2, <1>3, <1>4, <1>5, <1>6, <1>7, <1>8, <1>9 DEF Step

\* ImagesInv is inductive.
LEMMA ImagesStep == TypeOK /\ ImagesInv /\ [Next]_vars => ImagesInv'
<1> SUFFICES ASSUME TypeOK, ImagesInv, [Next]_vars PROVE ImagesInv'
  OBVIOUS
<1> USE DEF ImagesInv, NoImages, TypeOK
<1>1. ASSUME NEW r \in Runs, Snapshot(r) PROVE ImagesInv'
  <2>1. /\ UNCHANGED <<keep, images, doomed>>
        /\ pc[r] = "snapshot" /\ pc' = [pc EXCEPT ![r] = "builder"]
        /\ seen' = [seen EXCEPT ![r] = images]
    BY <1>1 DEF Snapshot, Go
  <2> QED BY <2>1 DEF BeforeImages, BeforeVm
<1>2. ASSUME NEW r \in Runs, StartSession(r) PROVE ImagesInv'
  <2>1. /\ UNCHANGED <<keep, seen, doomed>>
        /\ pc' = [pc EXCEPT ![r] = "running"]
        /\ images' = images \cup {<<r, session[r]>>}
    BY <1>2 DEF StartSession, Go
  <2> QED BY <2>1 DEF BeforeImages, BeforeVm
<1>3. ASSUME NEW r \in Runs, ListDirs(r) PROVE ImagesInv'
  <2>1. /\ UNCHANGED <<keep, images, seen>>
        /\ pc[r] = "cleaning" /\ pc' = [pc EXCEPT ![r] = "removing"]
        /\ doomed' = [doomed EXCEPT ![r] = IF keep[r] THEN {} ELSE images \ seen[r]]
    BY <1>3 DEF ListDirs, Go
  <2> QED BY <2>1 DEF BeforeImages, BeforeVm
<1>4. ASSUME NEW r \in Runs, RemoveDir(r) PROVE ImagesInv'
  <2>1. PICK d \in doomed[r] : /\ doomed' = [doomed EXCEPT ![r] = doomed[r] \ {d}]
                               /\ images' = images \ {d} /\ UNCHANGED <<keep, pc, seen>>
    BY <1>4 DEF RemoveDir
  <2> QED BY <2>1
<1>5. ASSUME NEW r \in Runs, Step(r) \/ Interrupt(r) \/ Die(r),
             ~Snapshot(r), ~StartSession(r), ~ListDirs(r), ~RemoveDir(r)
      PROVE  ImagesInv'
  <2>1. DirsRemoved(r) => doomed[r] = {} /\ pc[r] = "removing"
    BY DEF DirsRemoved, Go
  <2> QED BY <1>5, <2>1, ImagesKept
<1>6. CASE RemoveLocks \/ BuilderDies
  BY <1>6 DEF RemoveLocks, BuilderDies
<1>7. CASE UNCHANGED vars
  BY <1>7 DEF vars
<1> QED
  BY <1>1, <1>2, <1>3, <1>4, <1>5, <1>6, <1>7 DEF Next, Step

\* HelpersInv is inductive: a VM is named after the invocation that starts it.
LEMMA HelpersStep == TypeOK /\ BuilderInv /\ HelpersInv /\ [Next]_vars => HelpersInv'
<1> SUFFICES ASSUME TypeOK, BuilderInv, HelpersInv, [Next]_vars PROVE HelpersInv'
  OBVIOUS
<1> USE DEF HelpersInv, TypeOK, Go
<1>1. ASSUME NEW r \in Runs, Lock(r) \/ SetTraps(r) \/ Snapshot(r) PROVE HelpersInv'
  BY <1>1 DEF Lock, TakeLock, SetTraps, Snapshot
<1>2. ASSUME NEW r \in Runs, FindBuilder(r) PROVE HelpersInv'
  <2>1. UNCHANGED <<alive, mux>>
    BY <1>2 DEF FindBuilder
  <2>2. \E to \in {"mux", "boot", "stale"} : pc' = [pc EXCEPT ![r] = to]
    BY <1>2 DEF FindBuilder
  <2>3. \A q \in Runs \ {r} : vm'[q] = vm[q] /\ owned'[q] = owned[q]
    BY <1>2, Found
  <2> QED BY <2>1, <2>2, <2>3
<1>3. ASSUME NEW r \in Runs, RemoveStale(r) PROVE HelpersInv'
  BY <1>3 DEF RemoveStale
<1>4. ASSUME NEW r \in Runs, BootBuilder(r) PROVE HelpersInv'
  <2>1. pc[r] = "boot" /\ UNCHANGED <<vm, owned, mux>> /\ alive' \subseteq alive \cup {r}
    BY <1>4 DEF BootBuilder
  <2>2. \E to \in {"mux", "cleaning", "booted"} : pc' = [pc EXCEPT ![r] = to]
    BY <1>4 DEF BootBuilder
  <2> QED BY <2>1, <2>2
<1>5. ASSUME NEW r \in Runs, AdoptBuilder(r) PROVE HelpersInv'
  <2>1. UNCHANGED <<alive, mux>>
    BY <1>5 DEF AdoptBuilder
  <2>2. \E to \in {"mux", "cleaning"} : pc' = [pc EXCEPT ![r] = to]
    BY <1>5 DEF AdoptBuilder
  <2>3. \A q \in Runs \ {r} : vm'[q] = vm[q] /\ owned'[q] = owned[q]
    BY <1>5 DEF AdoptBuilder
  <2> QED BY <2>1, <2>2, <2>3
<1>6. ASSUME NEW r \in Runs, StartMux(r) PROVE HelpersInv'
  BY <1>6 DEF StartMux
<1>7. ASSUME NEW r \in Runs, StartSession(r) \/ EndSession(r) PROVE HelpersInv'
  BY <1>7 DEF StartSession, EndSession
<1>8. ASSUME NEW r \in Runs, ListDirs(r) \/ RemoveDir(r) \/ DirsRemoved(r)
      PROVE  HelpersInv'
  BY <1>8 DEF ListDirs, RemoveDir, DirsRemoved
<1>9. ASSUME NEW r \in Runs, StopBuilder(r) PROVE HelpersInv'
  BY <1>9 DEF StopBuilder, BuilderInv
<1>10. ASSUME NEW r \in Runs, StopMux(r) \/ Unlock(r) PROVE HelpersInv'
  BY <1>10 DEF StopMux, MuxStopped, Unlock
<1>11. ASSUME NEW r \in Runs, Interrupt(r) \/ Die(r) PROVE HelpersInv'
  BY <1>11 DEF Interrupt, Die
<1>12. CASE RemoveLocks \/ BuilderDies
  BY <1>12 DEF RemoveLocks, BuilderDies
<1>13. CASE UNCHANGED vars
  BY <1>13 DEF vars
<1> QED
  BY <1>1, <1>2, <1>3, <1>4, <1>5, <1>6, <1>7, <1>8, <1>9, <1>10, <1>11, <1>12, <1>13
  DEF Next, Step

\* OwnedLocks is inductive.
LEMMA OwnedLocksStep == TypeOK /\ OwnedLocks /\ [Next]_vars => OwnedLocks'
<1> SUFFICES ASSUME TypeOK, OwnedLocks, [Next]_vars PROVE OwnedLocks'
  OBVIOUS
<1> USE DEF OwnedLocks
<1>1. ASSUME NEW r \in Runs, Lock(r) PROVE OwnedLocks'
  <2>1. UNCHANGED filter /\ \A q \in Runs \ {r} : pc'[q] = pc[q]
    BY <1>1 DEF Lock, TakeLock, Go, TypeOK
  <2>2. pc[r] = "start" /\ ~Active(r) /\ locks' \subseteq locks \cup {filter[r]}
    BY <1>1 DEF Lock, TakeLock, Go, Active, Trapped, CleaningUp
  <2>3. locks' # locks => pc'[r] = "locked"
    BY <1>1 DEF Lock, TakeLock, Go, TypeOK
  <2>4. \A q \in Runs \ {r} : Active(q)' <=> Active(q)
    BY <2>1 DEF Active
  <2>5. locks' # locks => Active(r)'
    BY <2>3 DEF Active
  <2> QED BY <2>1, <2>2, <2>4, <2>5
<1>2. ASSUME NEW r \in Runs, Unlock(r) PROVE OwnedLocks'
  <2>1. UNCHANGED filter /\ locks' = locks \ {filter[r]} /\ \A q \in Runs \ {r} : pc'[q] = pc[q]
    BY <1>2 DEF Unlock, Go, TypeOK
  <2>2. \A q \in Runs \ {r} : Active(q)' <=> Active(q)
    BY <2>1 DEF Active
  <2> QED BY <2>1, <2>2
<1>3. ASSUME NEW r \in Runs, Die(r) PROVE OwnedLocks'
  <2>1. UNCHANGED <<filter, locks>> /\ pc'[r] = "dead" /\ \A q \in Runs \ {r} : pc'[q] = pc[q]
    BY <1>3 DEF Die, TypeOK
  <2>2. \A q \in Runs \ {r} : Active(q)' <=> Active(q)
    BY <2>1 DEF Active
  <2> QED BY <2>1, <2>2
<1>4. CASE RemoveLocks \/ BuilderDies
  <2>1. UNCHANGED <<filter, pc>> /\ locks' \subseteq locks
    BY <1>4 DEF RemoveLocks, BuilderDies
  <2> QED
    BY <2>1 DEF Active
<1>5. ASSUME NEW r \in Runs, Step(r) \/ Interrupt(r), ~Lock(r), ~Unlock(r)
      PROVE  OwnedLocks'
  <2>1. UNCHANGED <<filter, locks>> /\ \A q \in Runs : Active(q) <=> Active(q)'
    BY <1>5, Inside
  <2>2. \A q \in Runs : pc[q] = "dead" => pc'[q] = "dead"
    BY <1>5 DEF Step, Interrupt, SetTraps, Snapshot, FindBuilder, RemoveStale, BootBuilder,
       AdoptBuilder, StartMux, StartSession, EndSession, ListDirs, RemoveDir, DirsRemoved,
       StopBuilder, StopMux, Go, TypeOK, Trapped
  <2> QED BY <2>1, <2>2
<1>6. CASE UNCHANGED vars
  BY <1>6 DEF vars, Active
<1> QED
  BY <1>1, <1>2, <1>3, <1>4, <1>5, <1>6 DEF Next

\* A clean-up that runs to its end leaves no image or ssh master of its
\* invocation, and of VMs none that the invocation had recorded as its own; a lock
\* that is left is that of one that runs or was killed.
THEOREM CleanedUp == Spec => []EndsClean
<1> DEFINE Inv == TypeOK /\ BuilderInv /\ ImagesInv /\ HelpersInv /\ OwnedLocks
<1>1. Init => BuilderInv /\ ImagesInv /\ HelpersInv /\ OwnedLocks
  BY DEF Init, BuilderInv, BeforeVm, VMs, ImagesInv, NoImages, HelpersInv, OwnedLocks
<1>2. ImagesInv /\ HelpersInv /\ OwnedLocks => EndsClean
  BY DEF ImagesInv, NoImages, HelpersInv, OwnedLocks, EndsClean
<1> QED
  BY <1>1, <1>2, BuilderStep, ImagesStep, HelpersStep, OwnedLocksStep, Typing, PTL DEF Spec
=============================================================================
