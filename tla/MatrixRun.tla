------------------------------ MODULE MatrixRun ------------------------------
(***************************************************************************)
(* Concurrent invocations of the test matrix (scripts/run-matrix.sh).      *)
(*                                                                         *)
(* They share a lock directory per scenario filter, the image directory,   *)
(* and one builder VM with the file that says where it is (server.env).    *)
(* An invocation takes its lock, sets its traps, notes which run           *)
(* directories there are, finds or starts the VM, starts its ssh master,   *)
(* runs the harness, and cleans up: on exit, and on the four signals it    *)
(* traps.  A signal before the traps, a second one during the clean-up,    *)
(* and SIGKILL end it where it is.                                         *)
(*                                                                         *)
(* External: the harness makes one run directory with images per session   *)
(* and removes none; the VM's start script fails while another VM has the  *)
(* port, and writes server.env when it succeeds; a VM may die by itself.   *)
(* The user removes locks by hand, as the script's header says.            *)
(***************************************************************************)
EXTENDS Naturals, FiniteSets

CONSTANTS
    Runs,       \* invocations; a VM is named after the one that started it
    Filters,    \* lock keys: the normalised scenario filter
    Full,       \* the one without a filter
    Earlier,    \* the VM a previous invocation may have left
    MaxMishaps, \* bound on the VMs that are lost and the locks removed in use
    Nil

ASSUME FiltersAssumption == Full \in Filters
ASSUME NamesAssumption == Nil \notin Runs /\ Earlier \notin Runs /\ Earlier # Nil

VARIABLES
    filter, keep,   \* the arguments of each invocation
    prebuilt,       \* EXT4_PREBUILT_IMAGES of the environment
    pc,             \* where each invocation is
    session,        \* its harness session: "smoke" or "main"
    locks,          \* the filters whose lock directory exists
    bared,          \* history: those whose lock was removed under its holder
    images,         \* the run directories in the image directory
    seen,           \* pre_run_subdirs of each invocation
    doomed,         \* what its clean-up still has to remove
    env,            \* the VM server.env names, or Nil
    alive,          \* the VMs that run
    vm, owned,      \* builder_vm_pid (or Nil) and builder_vm_owned
    lost,           \* history: the VMs not stopped by who started them
    mux             \* the invocations whose ssh master runs

args == <<filter, keep, prebuilt>>
disk == <<images, seen, doomed>>
locking == <<locks, bared>>
builder == <<env, alive, vm, owned, lost>>
vars == <<args, pc, session, locking, disk, builder, mux>>

\* A run directory is named after the session that made it.
Dirs == Runs \X {"smoke", "main"}
VMs == Runs \cup {Earlier}

\* The stages between the traps and the clean-up, those of the clean-up, and
\* the ends: refused by the lock, cleaned up, or dead.
Trapped == {"snapshot", "builder", "stale", "boot", "booted", "mux",
            "harness", "running"}
CleaningUp == {"cleaning", "removing", "stopvm", "stopmux", "unlock"}
Ended == {"refused", "done", "dead"}

\* An invocation that has got its lock and not given it back.
Active(r) == pc[r] \in {"locked"} \cup Trapped \cup CleaningUp

TypeOK ==
    /\ filter \in [Runs -> Filters] /\ keep \in [Runs -> BOOLEAN]
    /\ prebuilt \in BOOLEAN
    /\ pc \in [Runs -> {"start", "locked"} \cup Trapped \cup CleaningUp \cup Ended]
    /\ session \in [Runs -> {"smoke", "main"}]
    /\ locks \subseteq Filters /\ bared \subseteq Filters
    /\ images \subseteq Dirs
    /\ seen \in [Runs -> SUBSET Dirs] /\ doomed \in [Runs -> SUBSET Dirs]
    /\ env \in VMs \cup {Nil} /\ alive \subseteq VMs /\ lost \subseteq VMs
    /\ vm \in [Runs -> VMs \cup {Nil}] /\ owned \in [Runs -> BOOLEAN]
    /\ \A r \in Runs : owned[r] => vm[r] \in VMs
    /\ mux \subseteq Runs

Init ==
    /\ filter \in [Runs -> Filters] /\ keep \in [Runs -> BOOLEAN]
    /\ prebuilt \in BOOLEAN
    /\ pc = [r \in Runs |-> "start"]
    /\ session = [r \in Runs |-> IF filter[r] = Full THEN "smoke" ELSE "main"]
    /\ locks = {} /\ bared = {}
    /\ images = {}
    /\ seen = [r \in Runs |-> {}] /\ doomed = [r \in Runs |-> {}]
    /\ env \in {Nil, Earlier} /\ alive \in {{}, {Earlier}}
    /\ alive # {} => env = Earlier
    /\ vm = [r \in Runs |-> Nil] /\ owned = [r \in Runs |-> FALSE] /\ lost = {}
    /\ mux = {}

Go(r, from, to) == pc[r] = from /\ pc' = [pc EXCEPT ![r] = to]

-----------------------------------------------------------------------------
(* Lock, traps, snapshot.                                                  *)

\* Mutant: the traps are set before the lock is taken, so that an invocation
\* that is refused cleans up all the same.
LockAfterTraps(r) ==
    IF filter[r] \in locks
      THEN Go(r, "start", "cleaning") /\ UNCHANGED locks
      ELSE Go(r, "start", "locked") /\ locks' = locks \cup {filter[r]}

\* Mutant: mkdir -p, which an existing directory satisfies.
MkdirParents(r) == Go(r, "start", "locked") /\ locks' = locks \cup {filter[r]}

\* mkdir is atomic: one of two succeeds.  A refused invocation exits before the
\* traps are set.
TakeLock(r) ==
    IF filter[r] \in locks
      THEN Go(r, "start", "refused") /\ UNCHANGED locks
      ELSE Go(r, "start", "locked") /\ locks' = locks \cup {filter[r]}

Lock(r) == TakeLock(r) /\ UNCHANGED <<args, bared, session, disk, builder, mux>>

SetTraps(r) ==
    /\ Go(r, "locked", "snapshot")
    /\ UNCHANGED <<args, session, locking, disk, builder, mux>>

Snapshot(r) ==
    /\ Go(r, "snapshot", "builder")
    /\ seen' = [seen EXCEPT ![r] = images]
    /\ UNCHANGED <<args, session, locking, images, doomed, builder, mux>>

-----------------------------------------------------------------------------
(* start_builder_vm, start_ssh_mux.                                        *)

\* Mutant: a VM that is found running is taken for one's own.
AdoptsAny(r) == [owned EXCEPT ![r] = TRUE]

\* builder_vm_owned: 1 only when this invocation started the VM.
Reuses(r) == [owned EXCEPT ![r] = FALSE]

\* No VM with prebuilt images; one that runs is reused.
FindBuilder(r) ==
    /\ IF prebuilt
         THEN Go(r, "builder", "mux") /\ UNCHANGED builder
         ELSE IF env \in alive
         THEN /\ Go(r, "builder", "mux")
              /\ vm' = [vm EXCEPT ![r] = env] /\ owned' = Reuses(r)
              /\ UNCHANGED <<env, alive, lost>>
         ELSE Go(r, "builder", IF env = Nil THEN "boot" ELSE "stale") /\ UNCHANGED builder
    /\ UNCHANGED <<args, session, locking, disk, mux>>

\* rm -f server.env, whoever has written it by now.
RemoveStale(r) ==
    /\ Go(r, "stale", "boot")
    /\ env' = Nil
    /\ UNCHANGED <<args, session, locking, disk, alive, vm, owned, lost, mux>>

\* The start script: it may be missing (the run goes on without a VM), fail
\* (the run exits), or start the VM.
BootBuilder(r) ==
    /\ \/ Go(r, "boot", "mux") /\ UNCHANGED builder
       \/ Go(r, "boot", "cleaning") /\ UNCHANGED builder
       \/ /\ alive = {}
          /\ Go(r, "boot", "booted")
          /\ env' = r /\ alive' = {r}
          /\ UNCHANGED <<vm, owned, lost>>
    /\ UNCHANGED <<args, session, locking, disk, mux>>

\* Mutant: nobody looks whether the script has left a server.env.
AdoptUnchecked(r) ==
    /\ Go(r, "booted", "mux")
    /\ vm' = [vm EXCEPT ![r] = env] /\ owned' = [owned EXCEPT ![r] = TRUE]
    /\ UNCHANGED <<args, session, locking, disk, env, alive, lost, mux>>

\* The run owns the VM that server.env names once the script has returned, or
\* exits if there is none.
AdoptBuilder(r) ==
    /\ IF env = Nil
         THEN Go(r, "booted", "cleaning") /\ UNCHANGED builder
         ELSE /\ Go(r, "booted", "mux")
              /\ vm' = [vm EXCEPT ![r] = env] /\ owned' = [owned EXCEPT ![r] = TRUE]
              /\ UNCHANGED <<env, alive, lost>>
    /\ UNCHANGED <<args, session, locking, disk, mux>>

\* Without a VM_HOST there is no ssh master.
StartMux(r) ==
    /\ Go(r, "mux", "harness")
    /\ mux' \in {mux, mux \cup {r}}
    /\ UNCHANGED <<args, session, locking, disk, builder>>

-----------------------------------------------------------------------------
(* The harness (external), and the smoke gate.                             *)

StartSession(r) ==
    /\ Go(r, "harness", "running")
    /\ images' = images \cup {<<r, session[r]>>}
    /\ UNCHANGED <<args, session, locking, seen, doomed, builder, mux>>

\* The full matrix follows a smoke session that passed.
EndSession(r) ==
    /\ \/ /\ session[r] = "smoke"
          /\ Go(r, "running", "harness")
          /\ session' = [session EXCEPT ![r] = "main"]
       \/ Go(r, "running", "cleaning") /\ UNCHANGED session
    /\ UNCHANGED <<args, locking, disk, builder, mux>>

-----------------------------------------------------------------------------
(* cleanup.                                                                *)

\* --keep-images skips the images; otherwise every run directory that the
\* snapshot does not have is taken for this invocation's own.
ListDirs(r) ==
    /\ Go(r, "cleaning", "removing")
    /\ doomed' = [doomed EXCEPT ![r] = IF keep[r] THEN {} ELSE images \ seen[r]]
    /\ UNCHANGED <<args, session, locking, images, seen, builder, mux>>

RemoveDir(r) ==
    /\ pc[r] = "removing"
    /\ \E d \in doomed[r] :
        /\ doomed' = [doomed EXCEPT ![r] = @ \ {d}]
        /\ images' = images \ {d}
    /\ UNCHANGED <<args, pc, session, locking, seen, builder, mux>>

DirsRemoved(r) ==
    /\ doomed[r] = {}
    /\ Go(r, "removing", "stopvm")
    /\ UNCHANGED <<args, session, locking, disk, builder, mux>>

\* stop_builder_vm: an owned VM gets a poweroff and, after five seconds, a kill.
\* The kill is by pid; the poweroff goes to the port, so that whichever VM is
\* there gets it, unless ssh fails.
StopBuilder(r) ==
    /\ Go(r, "stopvm", "stopmux")
    /\ alive' \in IF owned[r] THEN {{}, alive \ {vm[r]}} ELSE {alive}
    /\ lost' = lost \cup ((alive \ alive') \ {r})
    /\ UNCHANGED <<args, session, locking, disk, env, vm, owned, mux>>

\* Mutant: the ssh master is left to its ControlPersist.
LeaveMux(r) == mux

MuxStopped(r) == mux \ {r}

StopMux(r) ==
    /\ Go(r, "stopmux", "unlock")
    /\ mux' = MuxStopped(r)
    /\ UNCHANGED <<args, session, locking, disk, builder>>

Unlock(r) ==
    /\ Go(r, "unlock", "done")
    /\ locks' = locks \ {filter[r]}
    /\ UNCHANGED <<args, bared, session, disk, builder, mux>>

-----------------------------------------------------------------------------
(* Signals, and the user.                                                  *)

\* A trapped signal is an exit, and the exit cleans up.  (In the middle of a
\* command it waits for the command, which the step before it stands for.)
Interrupt(r) ==
    /\ pc[r] \in Trapped
    /\ pc' = [pc EXCEPT ![r] = "cleaning"]
    /\ UNCHANGED <<args, session, locking, disk, builder, mux>>

\* Any signal before the traps, an `exit` inside the clean-up, or SIGKILL.
Die(r) ==
    /\ Active(r)
    /\ pc' = [pc EXCEPT ![r] = "dead"]
    /\ UNCHANGED <<args, session, locking, disk, builder, mux>>

Mishaps == Cardinality(lost) + Cardinality(bared)

\* The user removes one lock ("if stale: rm -rf ${scenario_lock}") or, as the
\* header says, all of them, at any time: nothing tells a stale one.
RemoveLocks ==
    /\ \E fs \in {Filters} \cup {{f} : f \in Filters} :
        LET inUse == {filter[r] : r \in {q \in Runs : Active(q) /\ filter[q] \in fs}}
        IN  /\ locks \cap fs # {}
            /\ inUse = {} \/ Mishaps < MaxMishaps
            /\ locks' = locks \ fs
            /\ bared' = bared \cup inUse
    /\ UNCHANGED <<args, pc, session, disk, builder, mux>>

\* The VM crashes, or is stopped by someone else.
BuilderDies ==
    /\ Mishaps < MaxMishaps
    /\ \E v \in alive : alive' = alive \ {v} /\ lost' = lost \cup {v}
    /\ UNCHANGED <<args, pc, session, locking, disk, env, vm, owned, mux>>

Step(r) ==
    \/ Lock(r) \/ SetTraps(r) \/ Snapshot(r)
    \/ FindBuilder(r) \/ RemoveStale(r) \/ BootBuilder(r) \/ AdoptBuilder(r)
    \/ StartMux(r) \/ StartSession(r) \/ EndSession(r)
    \/ ListDirs(r) \/ RemoveDir(r) \/ DirsRemoved(r)
    \/ StopBuilder(r) \/ StopMux(r) \/ Unlock(r)

Next ==
    \/ \E r \in Runs : Step(r) \/ Interrupt(r) \/ Die(r)
    \/ RemoveLocks
    \/ BuilderDies

Spec == Init /\ [][Next]_vars

-----------------------------------------------------------------------------
(* What is promised.                                                       *)

\* "A mkdir-based lock keyed on the scenario filter prevents two instances from
\* running the same scenario set simultaneously", refused and killed invocations
\* and removed stale locks included, until somebody removes the lock of one that
\* is at work.
OneRunPerFilter ==
    \A q, r \in Runs :
        Active(q) /\ Active(r) /\ filter[q] = filter[r] /\ filter[r] \notin bared => q = r

\* The lock also guards the images: while an invocation's harness runs, none
\* with the same filter removes its images, because an invocation gives its
\* lock back last.
SameFilterKeepsImages ==
    [][\A r \in Runs, d \in Dirs :
          RemoveDir(r) /\ d \in images \ images' /\ pc[d[1]] = "running"
              => filter[d[1]] # filter[r] \/ filter[r] \in bared]_vars

\* "Don't stop a VM we didn't start": whoever has written or removed server.env
\* in the meantime, an invocation stops another VM than its own only when its
\* own went down behind its back and the other has the port since.
StopsOnlyItsOwn ==
    [][\A r \in Runs, v \in alive \ alive' :
          pc[r] = "stopvm" /\ pc'[r] = "stopmux" => v = r \/ r \in lost]_vars

\* When its clean-up has run to the end -- "cleans up disk images on exit
\* (success, failure, Ctrl-C, or any signal)" -- an invocation leaves no image
\* of its own, no ssh master, and no VM that it had recorded as its own: the one
\* it started runs on only if it was interrupted, or server.env was gone, before
\* builder_vm_owned was set.  A lock that is left is that of an invocation that
\* is at work or was killed.
EndsClean ==
    /\ \A r \in Runs : pc[r] = "done" =>
          /\ ~keep[r] => \A d \in images : d[1] # r
          /\ r \in alive => ~owned[r]
          /\ r \notin mux
    /\ \A f \in locks : \E r \in Runs :
          filter[r] = f /\ (Active(r) \/ pc[r] = "dead")

\* "parallel run-matrix.sh instances write to separate subdirectories under
\* HOST_IMAGE_DIR and cannot trample each other's images".
RunKeepsItsImages ==
    \A r \in Runs : pc[r] = "running" => <<r, session[r]>> \in images
=============================================================================
