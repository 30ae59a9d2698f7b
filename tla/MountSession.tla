----------------------------- MODULE MountSession -----------------------------
(***************************************************************************)
(* One mount from the command line to the end of the process               *)
(* (src/mount.rs: Mount, SliceCtx and its callbacks, run).                 *)
(*                                                                         *)
(* A partition is mounted through callbacks: the driver boxes a SliceCtx,  *)
(* lends its address to the ext4 C ABI and has to keep it alive until the  *)
(* last callback.  run hands the mount to the WinFsp host, whose threads   *)
(* serve requests until Ctrl-C; every early return drops the mount.        *)
(*                                                                         *)
(* Numbers are u64 of the code: Modulus stands for 2^64 and Sector for     *)
(* 512.  External: the C ABI (it calls back while it mounts, serves and    *)
(* unmounts), the device, and the host, which lets the requests in flight  *)
(* finish before stop returns.                                             *)
(***************************************************************************)
EXTENDS Integers, Sequences

CONSTANTS
    Modulus,        \* 2^64
    Sector,         \* bytes of a sector
    Tables,         \* partition tables: sequences of [start, num], in sectors
    Sizes,          \* sizes of the device, in bytes
    MaxPart,        \* bound on --part
    MaxRequests,    \* dispatcher threads of the host
    Nil

U64 == 0 .. (Modulus - 1)

Slices == [base : U64, len : U64]
Ranges == [lo : U64, hi : Nat]
Entries == [start : U64, num : U64]

ASSUME ModulusAssumption == Modulus \in Nat \ {0}
ASSUME SectorAssumption == Sector \in Nat \ {0}
ASSUME TablesAssumption ==
    \A t \in Tables : t \in Seq(Entries)
ASSUME NilAssumption == Nil \notin Slices /\ Nil \notin Ranges
ASSUME SizesAssumption == Sizes \subseteq U64
ASSUME BoundsAssumption == MaxPart \in Nat /\ MaxRequests \in Nat

VARIABLES
    part,       \* --part, 0 for none
    rw,         \* --rw
    table,      \* the partitions the device lists
    size,       \* the size of the device
    phase,      \* where the main thread is
    fs,         \* the C ABI's filesystem: "null", "mounting", "live", "closing"
    slice,      \* base and len of the SliceCtx, or Nil if none was made
    boxed,      \* is the SliceCtx allocated?
    access,     \* the bytes of the device last read or written, or Nil
    serving,    \* requests inside handlers
    handler,    \* is the Ctrl-C handler installed?
    pressed,    \* has Ctrl-C reached that handler?
    woken,      \* has the channel of run something to receive?
    ready       \* has run printed that the volume is mounted?

vars == <<part, rw, table, size, phase, fs, slice, boxed, access, serving,
          handler, pressed, woken, ready>>
given == <<part, rw, table, size>>
running == <<serving, handler, pressed, woken, ready>>

\* "created" and "attached" are the host before and after host.mount.
Phases == {"start", "mounting", "mounted", "created", "attached", "started",
           "waiting", "stopping", "dropping", "reclaiming", "done", "killed"}

TypeOK ==
    /\ part \in 0..MaxPart /\ rw \in BOOLEAN /\ table \in Tables /\ size \in Sizes
    /\ phase \in Phases
    /\ fs \in {"null", "mounting", "live", "closing"}
    /\ slice = Nil \/ slice \in Slices
    /\ boxed \in BOOLEAN
    /\ access = Nil \/ access \in Ranges
    /\ serving \in 0..MaxRequests
    /\ handler \in BOOLEAN /\ pressed \in BOOLEAN
    /\ woken \in BOOLEAN /\ ready \in BOOLEAN

Init ==
    /\ part \in 0..MaxPart /\ rw \in BOOLEAN /\ table \in Tables /\ size \in Sizes
    /\ phase = "start" /\ fs = "null" /\ slice = Nil /\ boxed = FALSE
    /\ access = Nil /\ serving = 0
    /\ handler = FALSE /\ pressed = FALSE /\ woken = FALSE /\ ready = FALSE

-----------------------------------------------------------------------------
(* Geometry.                                                               *)

\* start_lba * 512 and num_sectors * 512: plain multiplications, which wrap in
\* a release build.
Bytes(n) == (n * Sector) % Modulus

\* base.checked_add(len)
CheckedAdd(base, len) == base + len < Modulus

\* Mutant: the end of the partition is not compared with the device's.
FitsAnything(base, len) == CheckedAdd(base, len)

\* The slice open_partition accepts: its end is a u64 and on the device.
FitsDevice(base, len) == CheckedAdd(base, len) /\ base + len <= size

\* Wrapping u64 addition of the callbacks: ctx.base + offset.
Plus(x, y) == IF x + y < Modulus THEN x + y ELSE x + y - Modulus

\* Mutant: the partition after the one asked for.
NextEntry(n) == table[IF n < Len(table) THEN n + 1 ELSE n]

\* parts[n - 1]: partitions are counted from 1.
Entry(n) == table[n]

-----------------------------------------------------------------------------
(* Opening.                                                                *)

\* open_direct, open_direct_rw: no slice, the C ABI opens the image itself.
OpenDirect ==
    /\ phase = "start" /\ part = 0
    /\ phase' = "mounting" /\ fs' = "mounting"
    /\ UNCHANGED <<given, slice, boxed, access, running>>

\* open_partition, open_partition_rw, up to the call of the C ABI.
OpenPartition ==
    /\ phase = "start" /\ part \in 1..Len(table)
    /\ LET base == Bytes(Entry(part).start)
           len == Bytes(Entry(part).num)
       IN  /\ FitsDevice(base, len)
           /\ slice' = [base |-> base, len |-> len]
    /\ boxed' = TRUE
    /\ phase' = "mounting" /\ fs' = "mounting"
    /\ UNCHANGED <<given, access, running>>

\* The image cannot be opened, lists no such partition, or the partition does
\* not fit it.
OpenRefused ==
    /\ phase = "start"
    /\ phase' = "done"
    /\ UNCHANGED <<given, fs, slice, boxed, access, running>>

MountSucceeds ==
    /\ phase = "mounting"
    /\ phase' = "mounted" /\ fs' = "live"
    /\ UNCHANGED <<given, slice, boxed, access, running>>

\* Mutant: the context is not reclaimed when the mount fails.
Forgotten == boxed

\* drop(Box::from_raw(raw)) on the error path.
Reclaimed == FALSE

\* fs is null: the context goes at once.
MountFails ==
    /\ phase = "mounting"
    /\ phase' = "done" /\ fs' = "null" /\ boxed' = Reclaimed
    /\ UNCHANGED <<given, slice, access, running>>

-----------------------------------------------------------------------------
(* The callbacks.                                                          *)

\* Mutant: the end of a request is not compared with the slice's.
AcceptsAny(offset, length) == offset + length < Modulus

\* offset.checked_add(length), and not past the end of the slice.
Accepts(offset, length) ==
    /\ offset + length < Modulus
    /\ offset + length <= slice.len

\* slice_read_cb and slice_write_cb.  The C ABI calls them for as long as it
\* has the filesystem; a rejected call touches nothing.
Callback(offset, length) ==
    /\ fs # "null" /\ part # 0 /\ phase # "killed"
    /\ Accepts(offset, length)
    /\ LET lo == Plus(slice.base, offset)
       IN  access' = [lo |-> lo, hi |-> lo + length]
    /\ UNCHANGED <<given, phase, fs, slice, boxed, running>>

-----------------------------------------------------------------------------
(* run.                                                                    *)

MainStep(from, to) ==
    /\ phase = from /\ phase' = to
    /\ UNCHANGED <<given, fs, slice, boxed, access>>

\* FileSystemHost::new, after winfsp_init and Ext4Context::new.
CreateHost == MainStep("mounted", "created") /\ UNCHANGED running

AttachHost == MainStep("created", "attached") /\ UNCHANGED running

StartHost == MainStep("attached", "started") /\ UNCHANGED running

\* The ready line comes before the Ctrl-C handler.
PrintReady ==
    /\ ~ready /\ ready' = TRUE
    /\ MainStep("started", "started")
    /\ UNCHANGED <<serving, handler, pressed, woken>>

\* set_handler(..).ok(): when it fails the sender is dropped with the closure,
\* and the channel wakes its receiver at once.
SetHandler ==
    /\ ready
    /\ MainStep("started", "waiting")
    /\ \/ handler' = TRUE /\ woken' = woken
       \/ handler' = FALSE /\ woken' = TRUE
    /\ UNCHANGED <<serving, pressed, ready>>

\* Mutant: Ctrl-C is swallowed.
NotSent == FALSE

\* The handler sends on the channel.
Sent == TRUE

\* Ctrl-C: without the handler it ends the process where it stands.
CtrlC ==
    /\ phase \notin {"done", "killed"}
    /\ IF handler
         THEN /\ ~pressed /\ pressed' = TRUE
              /\ woken' = (woken \/ Sent) /\ phase' = phase
         ELSE /\ phase' = "killed"
              /\ UNCHANGED <<pressed, woken>>
    /\ UNCHANGED <<given, fs, slice, boxed, access, serving, handler, ready>>

\* rx.recv returns; host.stop begins.
Wake == woken /\ MainStep("waiting", "stopping") /\ UNCHANGED running

\* Mutant: the mount goes while handlers are still inside it.
NobodyWaited == TRUE

\* host.stop returns when no handler runs.
HandlersGone == serving = 0

\* host.stop and host.unmount have returned: run ends and drops the mount.
StopHost ==
    /\ HandlersGone
    /\ phase = "stopping" /\ phase' = "dropping" /\ fs' = "closing"
    /\ UNCHANGED <<given, slice, boxed, access, running>>

\* Each `?` of run: the context, the host or both are dropped on the way out.
RunFails ==
    /\ phase \in {"mounted", "created", "attached"}
    /\ phase' = "dropping" /\ fs' = "closing"
    /\ UNCHANGED <<given, slice, boxed, access, running>>

\* The host serves requests from start to stop, each on its own thread.
BeginRequest ==
    /\ phase \in {"started", "waiting"} /\ serving < MaxRequests
    /\ serving' = serving + 1
    /\ UNCHANGED <<given, phase, fs, slice, boxed, access, handler, pressed,
                   woken, ready>>

\* Mutant: a request is counted out although none is in.
EndRequestTwice ==
    /\ phase # "killed"
    /\ serving' = serving - 1
    /\ UNCHANGED <<given, phase, fs, slice, boxed, access, handler, pressed,
                   woken, ready>>

\* A handler returns to its dispatcher thread.
EndRequest ==
    /\ phase # "killed"
    /\ serving > 0 /\ serving' = serving - 1
    /\ UNCHANGED <<given, phase, fs, slice, boxed, access, handler, pressed,
                   woken, ready>>

-----------------------------------------------------------------------------
(* Drop.                                                                   *)

\* Mutant: the context is reclaimed before the filesystem is unmounted.
ReclaimFirst == FALSE

\* While fs_ext4_umount runs the context stays.
KeepContext == boxed

\* Drop for Mount, first half: fs_ext4_umount(fs), which still calls back.
BeginUmount ==
    /\ phase = "dropping" /\ phase' = "reclaiming"
    /\ fs = "closing" /\ boxed' = KeepContext
    /\ UNCHANGED <<given, fs, slice, access, running>>

\* Second half: umount has returned; cb_ctx.take() and drop(Box::from_raw).
EndDrop ==
    /\ phase = "reclaiming" /\ phase' = "done"
    /\ fs' = "null" /\ boxed' = FALSE
    /\ UNCHANGED <<given, slice, access, running>>

Main ==
    \/ OpenDirect \/ OpenPartition \/ OpenRefused \/ MountSucceeds \/ MountFails
    \/ CreateHost \/ AttachHost \/ StartHost \/ PrintReady \/ SetHandler \/ Wake
    \/ StopHost \/ RunFails \/ BeginUmount \/ EndDrop

Next ==
    \/ Main
    \/ CtrlC
    \/ BeginRequest
    \/ EndRequest
    \/ \E offset, length \in U64 : Callback(offset, length)

Spec == Init /\ [][Next]_vars

\* The main thread goes on when it can, and handlers return.
FairSpec == Spec /\ WF_vars(Main) /\ WF_vars(EndRequest)

-----------------------------------------------------------------------------
(* What is promised.                                                       *)

\* Every byte the callbacks touch lies in the slice and on the device, for all
\* offsets and lengths the C ABI can pass: ctx.base + offset does not wrap.
AccessInSlice ==
    access # Nil => /\ slice.base <= access.lo
                    /\ access.hi <= slice.base + slice.len
                    /\ access.hi <= size

\* The sectors the table gives the partition, counted without wrapping.
TrueStart == table[part].start * Sector
TrueEnd == TrueStart + table[part].num * Sector

\* Where the partition's true extent is on the device, no access of the driver
\* leaves it: neighbouring partitions are neither read nor written.
AccessInPartition ==
    access # Nil /\ TrueEnd <= size =>
        TrueStart <= access.lo /\ access.hi <= TrueEnd

\* The slice is the partition of the table: open_partition refuses a partition
\* with "partition geometry overflows u64" rather than mount another range.
SliceIsPartition ==
    boxed => slice.base = TrueStart /\ slice.base + slice.len = TrueEnd

\* The C ABI holds the address of the SliceCtx from the mount to the return of
\* fs_ext4_umount ("issues final reads, must run before context drop"): the
\* box is there for every callback.
ContextOutlivesCallbacks ==
    part # 0 /\ fs # "null" /\ phase # "killed" => boxed

\* However the session ends, short of being killed, the filesystem has been
\* unmounted, the context reclaimed and no handler is left.
NothingLeft == phase = "done" => fs = "null" /\ ~boxed /\ serving = 0

\* The unmount waits for the handlers: while one runs, the filesystem it calls
\* is live.
HandlersHaveFilesystem == serving > 0 => fs = "live"

\* "Blocks until the user presses Ctrl-C, then unmounts" (run): a Ctrl-C that
\* reaches the handler ends in an orderly unmount.
CtrlCUnmounts == pressed ~> phase = "done"
=============================================================================
