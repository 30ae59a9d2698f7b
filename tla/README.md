# Formal models of ext4-win-driver

ext4-win-driver mounts ext4 volumes on Windows: a WinFsp adapter and a command
line on top of the `fs_ext4_*` C ABI of the fs-ext4 library. This directory
holds TLA+ models of the parts of it in which order, failure and concurrency
matter, TLC configurations that check them on small instances, and proofs for
every instance. Paths below are relative to the repository.

    tlc -config handles.cfg MCFileHandles           check an instance
    tlapm FileHandlesProofs.tla                     check the proofs

`PROJECT.json` lists the runs, what each checks, which lines of the source every
definition models, the disagreements found and the hazards.

## Inventory

| component | source | state | operations | model |
|---|---|---|---|---|
| Open files | `src/mount.rs` `Ext4Context`, `Ext4FileContext` | per open: inode, path, directory flag | open, create, close, rename, set_delete, cleanup, and the lookups of the data handlers | `FileHandles`, which implements `FileService` |
| File data | `src/mount.rs` | the size on the volume, a cached size per open | read, write, set_file_size, overwrite, get_file_info | `FileIO`, which implements `AtomicFile` |
| Directory listing | `src/mount.rs` `walk_dir` | none but WinFsp's resume marker | read_directory | `DirListing` |
| Symlink walk | `src/mount.rs` `stat_resolved`, `src/cmd.rs` `resolve_symlink` | the current path | stat, readlink | `SymlinkWalk` |
| Mount session | `src/mount.rs` `Mount`, `SliceCtx`, `run` | filesystem pointer, callback context, host, Ctrl-C channel | open, callbacks, run, drop | `MountSession` |
| Attributes | `src/mount.rs` | volume numbers cached at mount | set_basic_info, the mode create gives a file | `FileMetadata` |
| Extended attributes | `src/mount.rs` | none | get, set, apply at create | `FileMetadata` |
| Command line | `src/cmd.rs`, `src/main.rs` | none but the volume | 30 commands, 16 of them changing the volume | `CliCommands` |
| Matrix runner | `scripts/run-matrix.sh` | lock directories, image directory, builder VM and `server.env` | lock, snapshot, start, run, clean up | `MatrixRun` |
| Test mounts | `scripts/test-mount`, `scripts/test-unmount` | a state file | mount, unmount | not modelled |
| Probe, installer, packaging, CI, tests | `src/probe.rs`, `installer/`, `winget/`, `.github/`, `tests/` | none that runs with the driver | | not modelled |

How they interact. `main` opens a `Mount` and hands it to `run`, which gives it
to the WinFsp host. The host calls the handlers of `Ext4Context` on several
dispatcher threads. A handler reaches its file by a path it keeps in the open's
context, through the C ABI, which knows paths only; the C ABI reaches the device
through the slice callbacks, which hold a raw pointer to a boxed `SliceCtx`.
Ctrl-C wakes the main thread through a channel, the host stops, and dropping the
`Mount` unmounts and then frees the context.

The command line uses the same `Mount` and C ABI, one process per command. The
matrix runner runs beside other invocations of itself, with which it shares
directories under `/tmp` and the image directory, and one virtual machine; the
harness it starts drives the command line and the mounted volume.

Three outside parties decide what can happen, and are modelled as far as the
driver relies on them, marked external in `PROJECT.json`:

* the WinFsp kernel driver knows an open by the *name* it was opened with (not
  by inode), locks that name for each request (shared for reads, exclusive for
  changes), asks for the deletion with the cleanup of the last open of a marked
  name, moves all opens of a name when it is renamed, and lets the cache manager
  read and write through a handle between its cleanup and its close;
* the host's `FineGuard` keeps renames, creations, opens and deletions apart
  from each other, but lets data handlers run beside them;
* the C ABI is atomic per call and may fail in every call.

What is hard here: a path is not an identity, and everything after `open` treats
it as one; decisions are made from a stat and carried out by another call; sizes
and listing positions are remembered while others change the volume; a raw
pointer has to outlive callbacks that come from the unmount itself; 64-bit sums
and products wrap in the release profile; a command stops between any two of its
calls; and invocations of the runner guess from directory listings and files
what belongs to them.

### What makes each component correct

* Open files: the path in a context leads to the file that was opened, at the
  time the file is touched; nothing is removed unasked; a read-only mount keeps
  its names and files.
* File data and attributes: a read-only mount changes neither. An append lands at
  the end, a constrained write never extends, a handle knows the size its own
  change left.
* Listing: every entry that stays is shown once, and the listing ends.
* Symlink walk: it agrees with reachability over the graph of symlinks, up to
  its bound.
* Attributes: a set_basic_info that fails has stopped between two of its stages,
  one that succeeds has done both; write permissions go and come with READONLY
  only. Extended attributes: a list takes effect entry by entry in order, and a
  list that is handed out reads back as what was read.
* Session: callbacks stay in the slice and in the partition; the context
  outlives them; whatever way a session ends, nothing is left; Ctrl-C unmounts.
* Command line: the exit code says whether the command has done what it is for;
  write never mixes old with new bytes; cat prints exactly its range; ls and tree
  list every entry once.
* Matrix runner: one invocation per filter, whose images no other with that filter
  removes; nobody stops the VM of another; a clean-up that ends leaves nothing of
  its invocation that the invocation knew of.

## Modules

### FileHandles

State: `dirent`, `isdir` and `unborn` are the volume (a flat directory, because
the adapter treats a path as one opaque key); `ctx` holds the `Ext4FileContext`
of each open; `node` and `pending` are the kernel driver's name of each open and
its delete-pending marks; `req` is the request each dispatcher thread serves.

Actions: `Open`, `Create`, `SetDelete` and `Cleanup` are one step each: the host's
namespace guard, or the lock of the name, is held over each of them, and nothing
they do can be observed in between. `Cleanup` removes the path of the context and
leaves the context; `Close` drops it. Between the two (`cleaned`) the kernel driver
no longer counts the handle as open, and requests go on coming through it, since
the cache manager writes what it has kept. Requests on data and `rename` are
several steps, because other threads run between their calls: `BeginIO` copies the
path out of the context, `IOStat` is write's stat, `IOAccess` the pwrite, truncate
or read, `IORefresh` the last stat; `BeginRename`, `Rename2` and `FinishRename` are
the checks, the C ABI's rename, and the update of the context. `Fail` ends a request
at any call. Creation may leave the file behind when the stat after it fails,
and cleanup may fail to remove: both are in the model, as the code ignores them.

A handle that was cleaned up loses its name when the name is removed, or renamed
or replaced through another handle: its context is `Adrift`, and what its path leads
to is nothing, or whatever has the name by then. The properties say that this is
the only way a context loses its file without aliases; what happens to the requests
that still come through it is in the model, and nothing is promised of them.

`inode` in a context is the identity of the file for the properties; no handler
of the code looks it up. `sharing`, chosen in Init, says whether openers let
others rename or delete their file (FILE_SHARE_DELETE); `Links` are the files
that are symlinks. The driver makes no symlinks, so what a mount finds decides
whether `NoAliases` holds for the whole session. All properties but
`RemovalWasRequested` and `ReadOnlyVolumeUnchanged` suppose it.

Run: `handles` covers four kinds of mount, a file alone and a file with a
symlink, each with openers that share deletion and with openers that do not. Where
there are no aliases, handles keep their files; where there are, they do lose
them, but nothing is removed unasked, and a read-only mount is never changed.

Bounds: two names and three handles make a rename, a re-creation under the old
name and an open of it possible at once, and a handle adrift beside two that are
open; three files are the one that is moved,
its replacement, and the replacement's replacement; two threads are enough for
one request between two calls of another. `MaxStats` is 2 instead of 8, the
symlink walk having a module of its own.

### FileService

What Windows may rely on, without a path in it: an open is an open of one file, a
request works on the file of its open from its first call to its last, and a
rename changes directory, open and mark in one step. A handle that was cleaned up
lingers until it is closed and works on its file like any other, until that file is
removed or its name changed for it: then it is `Lost`, and nothing is promised of
it. `FileHandles` implements it
(`ImplementsService`). The refinement mapping shows a rename as soon as
`fs_ext4_rename2` has returned: `Shown` sends the old name to the new one until
the context follows, in the opens and in the marks; a request is shown as working
on the file its copied path leads to, whatever that is by now. That its file never
changes under it is therefore part of what is checked. A mount with aliases does
not implement the service; it is shown as one nobody uses, which says nothing
about it.

### FileIO

One file, a few opens of it, the size on the volume and the size each open
caches. `write` is `BeginWrite`, `WriteStat` (which settles offset and length),
`Pwrite` and `WriteRefresh`; set_file_size and overwrite are `BeginTruncate` and
`FinishTruncate`; get_file_info is `BeginInfo` and `FinishInfo`, since it stores
what an earlier stat saw, as flush and the handlers of attributes do. `Pwrite` may put out fewer bytes than it was given, which
`write` does not notice, and `PwriteFails` may have put out some of them. `nodeOf`, chosen in Init, gives the name of each open:
opens by one name are ordered by the kernel driver's lock, opens by two names (a
symlink and its target) by nothing. `changer` is history: who changed the size
last, and nobody once that change was reported as an error.

Run: `file_io` covers both kinds of initial state. Where all opens have one
name the kernel driver's lock makes appends and constrained writes right
(`AppendsAtEnd`, and `ImplementsAtomic` of the next section, whose condition is
`OneName`); what a handle remembers of its own changes does not depend on it
(`OwnChangesAreCached`). `writable` is chosen in Init as well: on a read-only mount
no request passes `EnsureWritable`, the test that write, set_file_size and overwrite
begin with (`ReadOnlyFileUntouched`). Bounds: sizes and lengths to 2 give writes inside, across,
at and past the end; two threads and two opens are the least that interfere, and
no handler touches more than one open.

### AtomicFile

What Windows may rely on of the size of one open file: a thread is asked for a
write (`Ask`: at the end, at an offset, or not beyond the end), and `Write` does it
in one step, some of the bytes or none, where the end of the file is *then*.
`FileIO` implements it under one name (`ImplementsAtomic`). The refinement mapping
`AskedShown` shows a request from its arrival up to its pwrite: the stat that
settles offset and length is a stutter, because what was settled still is what the
request asked for when the bytes go out; a write that fails or accepts nothing is
an atomic write of nothing.

### DirListing

The directory is a row of slots in on-disk order; `Call` is one whole
read_directory with `walk_dir` in it (the namespace guard keeps the directory
still during a call), for any buffer size and any set of entries whose stat
fails. An entry that does not decode, that leads nowhere, or whose name
`DirInfo::set_name` refuses (`Overlong`) is passed over. Entries come and go between
calls. read_directory ends what it hands out with `finalize_buffer`, also when a full
buffer stopped the walk; what that entry means is decided by WinFsp and Windows,
which are not part of the repository, so the caller may ask on or take it for the
end (`Taken`): such a listing is "cut". `Complete` asks of a listing that got to the
end of the directory that it has shown every entry that stayed, and of one that
failed or was cut that it has shown every such entry up to its last (`GotPast`).
`listing_complete` checks the listing when the marker entry stays; `marker_removed`
is the other case. Four slots (`Size`) and six names with a dangling, an undecodable
and an overlong one among them, and buffers of one or two entries, give listings of
up to five calls.

### SymlinkWalk

One iteration of the loop is `Stat` and `Readlink`; `GiveUp` is the end of the
loop. Every volume over two directories of two names is an initial state:
absolute and relative targets, targets that are directories, missing, failing,
not UTF-8 or unreadable, chains and loops, started anywhere. Its variables cannot
leave their sets, so it has no type invariant among its properties. `WalkIsCorrect`
compares the walk with reachability over the whole graph of symlinks, written
without the loop: `Reached` is the least set with the start in it that no symlink
(`LeadsTo`) leads out of. Of a chain of exactly `MaxHops` symlinks it allows ENOENT
besides the chain's end, since the docs promise the end and the loop does not get
there; of chains with a target that is not UTF-8 it says nothing, since the docs
promise ENOENT and the loop goes on to the link's directory. Both are listed below.
That the counted loop ends is proved (`WalkDescends`) and not a property of the
run. `MaxHops` is 3 instead of 8, so that chains of
length below, at and above the bound exist. Directories behind symlinks, `..` and paths without a leading
slash are left to the C ABI's own path lookup.

### MountSession

The main thread's `phase`, the C ABI's filesystem `fs`, the slice and whether
its box is allocated, the last bytes a callback touched, the handlers running,
and the Ctrl-C channel. `OpenPartition` computes the slice with wrapping
products and the checked sum; `Callback` takes every offset and length. `run` is
one action per call that can fail or be interrupted. A Ctrl-C before the handler
is installed kills the process (`killed`). `mount_session` checks the bounds of
the slice and the end of the session together, over a u64 so small that every
carry and wrap is reachable; `partition_wraps` shows the unchecked products.

### FileMetadata

One file: who may write it (`writers`, of the write bits 0o222), a time that
stands for access and modification time, and its extended attributes, a value
being its length. `req` is the request of each thread. set_basic_info is
`BeginBasic`, `Utimens`, `BasicStat`, `Chmod` and `BasicFinal`;
set_extended_attributes and create with attributes are `BeginSet` or `BeginCreate`,
one `ApplyEntry` for each round of `apply_ea_buffer`'s loop, and `SetFinal`;
get_extended_attributes is `BeginGet`, `ListNames`, one `TakeValue` or `SkipName`
for each name, and `ListDone`. `Fail` ends a request at any call, with everything
before that call done. EA buffers keep their layout, entries at offsets linked by
relative offsets, since the padding, the links and the cut-off of a last entry are
what can go wrong in them. `Beginnings` are what a reader of the buffer can have
met so far of the list, said without the reader's loop: sets of offsets at which
there is an entry (`Readable`), each the first or linked to (`Leads`) by another one.

No lock is modelled. Requests through one name are kept apart by the kernel
driver, but a symlink and its target are two names, and a file that is being
created can be opened by another name before its attributes are there. So requests
run together, and each remembers the file it began with (`was`) until another one
changes the file. What holds of `Undisturbed` requests is what callers get who
share a name. `OnlyToggledModes` holds of all, and so does
`ReadOnlyAttributesUntouched`: create, set_basic_info and set_extended_attributes
begin with `EnsureWritable`.

Run: `metadata`. Two threads are the least that disturb each other; the four EA
buffers hold two settings, a setting and a removal of one attribute, a name with
a NUL before a setting with a link past the end after it, and an entry that is cut
off; the buffers to be filled, of 11 and 40 bytes, have room
for one entry, but not for every one, and for two. Two write bits tell a mode that
only lost its owner's bit from one that lost all.

### CliCommands

One invocation: `cmd` with its arguments, `pc` the next call of the C ABI. For
write, touch and cat, `file` is the bytes of the file named (old ones, or new ones
from stdin), and `pos`, `end` and `printed` are the loop of cat; for ls, verify-ls
and tree, `Tree` is the volume, `todo` what is still to be listed, `lines` what was
printed and `skipped` the directories that could not be opened. `Open` is the
Mount, which is writable on Windows only; write is `ReadStdin`, `Stat`, `Create`,
`Truncate`, `Pwrite`, touch `Stat` and `Create`, cat `Resolve`, `Size` and one
`Read` per buffer; the listings are `OpenDir`, one `List` per line and `ListEnds`,
where verify-ls compares. tree's recursion is the list `todo`, an item being a path
and what is there: the entries of a
directory are put before the rest, in the order of the directory or, with
--canonical, of the bytes of the names. The commands that make a single changing
call differ in one thing only, what they take for a failure, so they are one
action, `Call`, with `Bails` for the code's test and `Result` for the C ABI's
convention. Whether the C ABI has done what such a call asked for is one bit,
`served`, set by the call and not by the exit code. The reading commands are `Probe` (the size of what is asked for) and `Fetch`; parts reads the
partition table in place of a mount, and an audit that finds an anomaly exits like
a call that fails. `mknod` is used by nothing else in the repository, so its
convention is taken from the command itself. `Kill` may come before every call.

Run: `cli_commands`, all commands but mkdir. A u64 of 3 bits, files up to 4 bytes
and a buffer of 2 give offsets at, before and past the end, sums that wrap, and
reads in up to four pieces. The tree has two directories that contain each other,
so that only --max-depth, from 0 to 4, ends the listing; the expectations of
verify-ls are met, unmet in either direction, or absent. `ExitMeansDone` compares the exit code with what has come about
(`Achieved`): the answer of the C ABI, the bytes of the file, what is on stdout, all
the entries of all the directories above --max-depth. It names the code's two
exceptions, in which it exits with 0 all the same: a cat whose flags wrap and a tree
that could not open a directory. `ListsTheTree` says what a
listing has in it as a fixed point: what it began with and the entries of each
directory it opened, and no more. `mkdir_inverted` is mkdir
alone: the command reads the inode number of the new directory as an error.

### MatrixRun

Any number of invocations, each with a filter, `--keep-images` or not. The state
they share: `locks` (directories in `/tmp`), `images` (run directories), `env`
(the VM `server.env` names) and `alive` (the VMs that run). Their own: `pc`,
`seen` (`pre_run_subdirs`), `doomed` (what the clean-up loop still has to
remove), `vm` and `owned`, and the ssh master. Every command of the script that
touches something shared is a step: in particular the test that a VM runs, the
removal of the stale file, the start, and the reading of the new file are four.
`Interrupt` is a trapped signal, `Die` one that ends the script without (all of)
its clean-up. `RemoveLocks` is the user who follows the script's advice, for one
filter or, as the header has it, for all: nothing keeps a lock that is in use from
being removed, and `bared` remembers that one was. `BuilderDies` is a VM that
crashes or is stopped by someone else. `StopBuilder` sends its poweroff to the port,
so that it reaches whichever VM is there, or fails, and kills the VM of
`builder_vm_pid`; `lost` remembers the VMs that went down otherwise than by their
owner. The harness is external: a session makes a directory of its own and removes
nothing. `ensure_vm_workdir` changes nothing that is shared here.

What is promised depends on the two: one invocation per filter until its lock is
removed under it, and another's VM stopped only by an invocation whose own is lost.
`EndsClean` speaks of the VM an invocation has recorded as its own: one that was
started and not recorded, because of a signal or a `server.env` that another
invocation removed, runs on.

Runs: `matrix_runs`, two invocations and two filters, with and without a VM left
by an earlier one; all interactions are between two. `MaxMishaps` is 1: one VM lost
or one lock removed in use is enough for each of the exceptions above to occur.
Removals of locks nobody uses are not counted. `images_trampled` shows that
invocations with different filters do delete each other's images.

## Fairness

* `mount_session`: the main thread goes on when it can, and a handler that was
  entered returns. The first is the scheduler's; the second holds because no
  handler waits for anything but the C ABI. Nothing is assumed of the user.
* `listing_complete`: the caller goes on asking until nothing is left to hand out
  (`AskOn`). Neither a stat that fails nor an early end is owed to it, so that a
  listing that gets nowhere is not ended by something the fairness brought about.
No other run assumes fairness.

## What is proved

All theorems hold for every value of the constants, under the named assumptions
of the modules (sets of the right type, `Nil` outside of them, positive bounds).
Every invariant and action property of the passing runs is proved, both refinements
among them, and of the two liveness properties their safety halves. Two theorems
have a hypothesis besides: `Exits` (no mkdir) and those about listings (the marker
stays), which the runs `mkdir_inverted` and `marker_removed` show to be needed.

`FileHandlesProofs`. Type correctness, and `ReadOnlyVolumeUnchanged`: of the
steps that change the volume each has the writability test in front of it; the
rename, which tests it some steps earlier, needs the invariant that a read-only
mount never has a rename or a write in progress. `RemovalWasRequested` needs the type
invariant and what a rename remembers only, so that it holds with any symlinks
and any sharing. The other results rest on `AddressingInv`, an inductive
invariant: `HandleAddressesItsFile` alone is not inductive, because whether a
rename leaves other opens intact depends on what the kernel driver calls them.
The invariant says that driver and kernel know every open by the same name
(`OneName`), requests in progress and handles that are cleaned up included, unless
its name was taken away, that the file is there (`FileAtName`), and that a rename in progress has its handle and both names to
itself (`RenameAlone`), with the moved file at its new name until the context
follows (`MovedIsThere`). All of it supposes `NoAliases`, neither half of which
ever changes. From it follow `HandleAddressesItsFile`, `AccessReachesOwnFile` and
`OnlyOwnFileRemoved`.

`ServiceImplemented`, in the same module: `FileHandles` implements `FileService`,
under `NoAliases`. By `AddressingInv` every initial state maps to one of the
service and every step to a step or a stutter, one lemma for each action: `Rename2`
is the service's rename and `FinishRename` a stutter, because `Shown` has the new
name from the one to the other; a step of a request is a stutter, because nothing
changes what its path leads to; and a cleanup that removes a name, like a rename
that takes one away, makes the handles that linger on it `Lost` on both sides.

`FileIOProofs`. The inductive invariant joins to the properties what each stage of
a request implies (`Stages`), that a change has its name to itself (`Alone`), that
a size get_file_info is about to store is not older than the handle's own last
change (`InfoFresh`), and that what a constrained write has settled on lies within
the file (`Clamped`). `OwnChangesAreCached` needs no lock but that of the handle's
own name; `AppendsAtEnd` supposes `OneName`. `ReadOnlyData` needs that a read-only mount never
has a changing request in progress, and `ReadOnlyAttributes`, of FileMetadata, the
same.

`AtomicImplemented`, in the same module: under `OneName` every step of `FileIO` is
one of `AtomicFile` or a stutter. `BeginWrite` is `Ask`, `BeginTruncate` is
`Truncate`; a request's `Write` is whichever of `Pwrite`, `PwriteFails`, `Fail` and a
`WriteStat` that accepts nothing ends its wait. `PwriteIsAtomic` is the heart of
it: by `AppendsAtEnd` the offset settled on is the end the file has now, and by
`Clamped` the bytes of a constrained write do not reach beyond it.

`DirListingProofs`. `Complete` and `NoDuplicates` are proved where the marker
stays (`MarkerStays`), and false otherwise, as `marker_removed` shows of the first.
`ShownInv` says of an entry that stayed that it has been shown exactly if the
listing has passed its slot, also when the listing was cut or has failed, and `MarkerInv` that the marker is there; the heart
is that what a buffer holds is a prefix of what is left, which takes a lemma on
the last element of a batch and one on the cardinality of what lies before it.
`Advances` is the safety half of `ListingEnds`: a call that does not end the listing
passes a slot that was not passed, and none that was is ever to be passed again.

`SymlinkWalkProofs`. `WalkCorrect` rests on `WalkInv`, whose part `Progress` says
that where the walk stands leads to the same end as its start, and that the chain
from there is shorter by the hops made, if the chain ends at all. That takes what
`ReachedNext` says of a least closed set (a symlink reaches itself and what its
target reaches), that a loop has no end (`LoopHasNoEnd`), and that a link on a chain
that ends is not reached again, so that the chain's cardinality is one more than
that of the rest (`ChainGoesOn`). `WalkDescends` says that each step of the walk
leaves one less to come, so that no walk takes more than two steps per hop, and one.

`FileMetadataProofs`. Type correctness includes that an EA list never outgrows the
caller's buffer, for every layout of buffers. `BasicInfoStages` follows from
`StageOK` (where an undisturbed request stands, the file is exactly so far);
`OnlyToggledModes` from `ModeOK`: a chmod still to come was decided for a
change of the READONLY bit, and if it will make the file writable, the file is not
writable now or another such chmod has made it so. That is what makes the
property survive a chmod computed from an old stat.

`Entries` and `Lists`, in the same module, rest on `EaInv`. Of a request that sets
attributes it says that the file is as the first entries of the buffer would have
it, up to where the request stands: an entry lies behind those that lead to it
(`LinksGoOn`), so that `Applied` of it is what `Meant` makes of one entry more
(`MeantNext`, `AppliedNext`). Of a list being made (`Laid`) it says that its entries
are those of the names read so far, in their order, that every entry but the first is
linked to, and that a link leads to an entry or to where the list ends so far, where
a reader finds nothing; `LaidTake` is the step that appends an entry behind the
padding of the one before, and `LaidReadsBack` reads the finished list.

`MountSessionProofs`. `IInv` is the type invariant, `PhaseInv` (what the C ABI
holds in each phase of the main thread; the context is allocated whenever the
filesystem is not null) and `SliceInv` (a slice is that of its partition and
fits the device). `AccessInSlice` follows because an accepted request ends
within the slice and the slice within the device, so that the wrapping sum of
the callback is exact; `AccessInPartition` because a product that does not
overflow is not changed by the wrap. `ContextOutlivesCallbacks`, `NothingLeft`
and `HandlersHaveFilesystem` follow from `PhaseInv`.
`PressedIsHeard` is the safety half of `CtrlCUnmounts`: after a Ctrl-C that has
reached its handler, each step of the main thread is one less of the four to the
end of run, no other step moves it, and what it waits for has come, except for
the handlers, of which none enters any more (`OnItsWay`, `Approaches`).

`CliCommandsProofs`. `IInv` is the type invariant, `CallInv` (which commands make
which call, and that nothing is served before the exit), `FileInv` (the file is
as it was found until it is truncated, and empty when the bytes are written),
`CatInv` (cat stands right behind what it has printed)
and `ListInv` (what verify-ls has listed and what it has still to list are the
entries of the directory). `TypeOK` alone is not
inductive: pwrite over anything but an empty file would mix old and new bytes.
`CatIsExact` needs that a sum below the modulus is not changed by the wrap;
`ExitMeansDone` holds under the assumption that mkdir is not among the commands: it
rests on `ExitInv`, which says for each kind of command what the calls that decide
its exit code have left, on the volume (old bytes are not new ones) and on stdout (a
cat that fails has not printed all it should), and on `DriftIsReal`: what verify-ls
complains of at the end of its list is what the directory is.

`Listings`, in the same module, rests on `TreeInv`, which is about the `Agenda`:
what has been listed, followed by what is still to be. A step inserts a directory's
entries between the two. No path is on the agenda twice, with --canonical it is in
order throughout (`OrderInv`), everything above an item on it has been listed
already (`AboveInv`), so that what a directory adds is new, and it holds what the
listing began with and the entries of the directories opened (`AgendaInv`), which
is what is listed once nothing is left to do.

`MatrixRunProofs`. `OneRunPerFilter` follows from `LockInv`: an active
invocation's lock directory exists, so that nobody else makes it, unless it was
removed under it (`bared`). `SameFilterKeepsImages` follows from it,
because both the harness and the clean-up are inside the lock.
`StopsOnlyItsOwn` rests on `BuilderInv`: an invocation that has started a VM finds it
alive and named in `server.env`, or no VM named there, or has lost it, also when
another invocation has removed or rewritten the file in the meantime, because a
start succeeds only while no other VM runs.

`EndsClean` joins three invariants: an invocation has no image when it takes its
snapshot, so that all it makes are doomed (`ImagesInv`); the VM it owned and its
ssh master are not started again after they were stopped (`HelpersInv`); and a
lock has an owner (`OwnedLocks`).

Only model-checked: the liveness properties `CtrlCUnmounts` and `ListingEnds`,
because fairness is a matter of ENABLED, which is outside the prover's
reach. What is proved of them is that every step brings the end nearer and none
takes it further away; what is left to TLC is that the steps are taken.

`WalkIsCorrect`, `EntriesInOrder`, `ListReadsBack` and `ListsTheTree` are about
what a loop or a recursion over data arrives at. They are stated with least
closed sets, sets of offsets and fixed points, not with recursive functions: the
statement does not repeat the code's loop, and needs no induction over data to be
proved, the loop's own steps being the induction.

## Where code and comments disagree

`PROJECT.json` quotes the lines; each of these has a run that shows it.

* `mkdir_inverted`: `ext4 mkdir` exits with an error when it has made the
  directory, and with 0 when it has not.
* `partition_wraps`: a partition whose byte geometry exceeds a u64 is mounted
  elsewhere, because the products wrap before the checked sum.
* `marker_removed`: a listing whose marker is gone ends early and silently.
* `images_trampled`: the clean-up of one matrix run deletes the images of another
  one that started later with another filter.

More follow from the models, without a run of their own:

* A handle opened through a symlink and deleted on close removes the target's
  name, not the symlink's (`Unlinks` goes by the context's path; the comment at
  `src/mount.rs:736` has the two interchangeable).
* A rename is invisible to other opens of the file: `FinishRename` updates one
  context, the kernel driver moves all of them. Reads, writes and the deletion of
  the others go to the old name, where another file may be by then. This is
  why `HandleAddressesItsFile` supposes `NoAliases`.
* The cached size is not merely stale (`src/mount.rs:742`) but can be too small:
  `BeginRead` then answers END_OF_FILE for bytes another handle has written.
* Both symlink walks make eight stats, the last of which must be the target's: they
  follow seven symlinks, where `src/mount.rs:340-341`, `344-345` and `350` and
  `src/cmd.rs:391` promise eight (`GiveUp`).
* A symlink whose target is not UTF-8 resolves to its directory (`Target`, the
  "garbled" case), where `src/mount.rs:349` promises ENOENT for a target that cannot
  be read.
* Between its cleanup and its close a handle may reach nothing, or another file, once
  its name was taken away (`Adrift`): `src/mount.rs:497` has the cache manager write
  in that time.
* A read_directory that was stopped by a full buffer ends its buffer with
  `finalize_buffer` like one that got to the end (`Taken`), and an entry `set_name`
  refuses is passed over without an error, against the doc of `walk_dir`
  (`src/mount.rs:426-429`).
* A write that puts out fewer bytes than it was given is reported as complete
  (`Pwrite`, `src/mount.rs:1090`).
* An extended attribute with an empty value is listed with length 0, and an entry
  of length 0 removes the attribute when the list is set again (`Applied`), which
  is why `ListReadsBack` stops at what the list says.
* A set_basic_info that fails may have changed the times, and a create that fails
  in its attributes leaves the file with the first of them.
* Entries that stay may be listed twice, too, once the marker has gone: another
  entry that gets its name lets the walk start earlier.
* A constrained write is not atomic with its stat when the file is open under two
  names, which is why `ImplementsAtomic` supposes `OneName`.
* `cat --offset o --length l` prints nothing, or too little, and exits with 0
  when o + l is not a u64 (`End`), which is why `CatIsExact` leaves that out and
  `ExitMeansDone` names it.
* "Don't stop a VM we didn't start" (`scripts/run-matrix.sh:229`): the poweroff goes
  to the port. When the invocation's own VM has gone down and another one's has the
  port, it stops that one (`StopBuilder`), which is what `StopsOnlyItsOwn` excepts.
* "Stale locks (from killed processes) can be removed with: rm -rf
  /tmp/ext4-matrix-lock-*" (`scripts/run-matrix.sh:19-20`) removes those of running
  invocations too (`RemoveLocks`), after which two run with one filter.
* A signal that comes before `pre_run_subdirs` is set makes the clean-up delete
  every image there is (`Interrupt` at "snapshot"); one that comes after the VM
  was started and before it is recorded leaves the VM to run (at "booted").
* The help of `rename` names a flag `--replace` (`src/main.rs`, `Rename`) that the
  command does not have.

## Plan

Written in this order: `FileHandles`, `MountSession`, `FileIO`, `DirListing`,
`SymlinkWalk`, `MatrixRun`, `CliCommands`, `FileService`, `FileMetadata`,
`AtomicFile`, each with its run first and its proofs after. Left to do, in the order
of what it would add:

1. Directories in `FileHandles`: the rename of a directory with open files below
   it, which paths in contexts do not follow.
2. `MountSession` with `FileHandles`: what a Ctrl-C leaves of requests in progress.

## Not modelled

What the C ABI does inside a call (allocation, the journal, its caches) is not
part of this repository. Printing, argument parsing, status code translation and
time conversion carry no state. The probe of the
superblock is a pure test of two bytes. test-mount and test-unmount are run by
hand, one after the other, and what they mount is decided by virsh and the guest:
the state file has no second reader. The installer, the packages and the workflows
are declarative, and the repository's own tests check their text.
