----------------------------- MODULE FileHandles -----------------------------
(***************************************************************************)
(* The open files of a mounted ext4 volume (src/mount.rs, Ext4Context and  *)
(* Ext4FileContext).                                                       *)
(*                                                                         *)
(* The ext4 C ABI is keyed by path: it has no open files.  An open file of *)
(* the driver is a record that remembers the path the file had, so every   *)
(* handler reaches its file by looking that path up again.  This module is *)
(* about that indirection: which file a handler reaches when other opens,  *)
(* renames and deletions happen before it gets there.                      *)
(*                                                                         *)
(* Two parts are external.  The directory is the C ABI's: one flat set of  *)
(* names, whose entries the ABI changes one call at a time.  The file      *)
(* nodes are those of the WinFsp kernel driver: it knows an open file by   *)
(* the name it was opened with, locks that name while a request runs, and  *)
(* moves all its opens to the new name when the file is renamed.  A handle *)
(* that was cleaned up keeps its file context until it is closed, and the  *)
(* cache manager may read and write through it until then; for the kernel  *)
(* driver it is no longer open.                                            *)
(***************************************************************************)
EXTENDS Integers, FiniteSets, Sequences

CONSTANTS
    Names,          \* the paths a file of the volume can have
    Files,          \* file identities: an inode from its creation to its end
    Links,          \* the files that are symlinks (made before the mount)
    LinkTarget,     \* the path each symlink holds
    Handles,        \* opens: one file context each
    Threads,        \* dispatcher threads of the WinFsp host
    Volumes,        \* the directories a mount may find
    InitialDirs,    \* the files of them that are directories
    MaxStats,       \* MAX_SYMLINK_HOPS: stats before an open gives up
    Nil

ASSUME LinksAssumption == Links \subseteq Files /\ LinkTarget \in [Links -> Names]
ASSUME DirsAssumption == InitialDirs \subseteq Files \ Links
ASSUME VolumesAssumption == Volumes \subseteq [Names -> Files \cup {Nil}]
ASSUME MaxStatsAssumption == MaxStats \in Nat \ {0}

VARIABLES
    writable,   \* Mount.writable: mounted read-write?
    sharing,    \* do openers let others rename and delete their file?
    dirent,     \* the file each name leads to, or Nil
    isdir,      \* the files that are directories
    unborn,     \* the files not created yet
    ctx,        \* the file context of each open handle, or Nil
    node,       \* the name the kernel driver knows each handle by, or Nil
    cleaned,    \* the handles cleaned up and not yet closed
    pending,    \* the names marked for deletion
    req         \* the request each thread is serving, or Nil

mount == <<writable, sharing>>
volume == <<dirent, isdir, unborn>>
vars == <<writable, sharing, dirent, isdir, unborn, ctx, node, cleaned, pending, req>>

FileContext == [inode: Files, unix_path: Names, is_dir: BOOLEAN]

\* A request in progress: "io" requests remember the path they copied from
\* the file context, a rename its new name and replace_if_exists.
Request == [op: {"read", "write", "rename"}, handle: Handles,
            pc: {"stat", "access", "refresh", "rename2", "moved"},
            path: Names, dst: Names, replace: BOOLEAN]

ASSUME NilAssumption ==
    /\ Nil \notin Names /\ Nil \notin Files
    /\ Nil \notin FileContext /\ Nil \notin Request
    /\ Nil \notin [file: Files \cup {Nil}, name: Names \cup {Nil}]
    /\ Nil \notin [handle: Handles, file: Files \cup {Nil}]

TypeOK ==
    /\ writable \in BOOLEAN /\ sharing \in BOOLEAN
    /\ dirent \in [Names -> Files \cup {Nil}]
    /\ isdir \subseteq Files \ Links
    /\ unborn \subseteq Files
    /\ ctx \in [Handles -> FileContext \cup {Nil}]
    /\ node \in [Handles -> Names \cup {Nil}]
    /\ cleaned \subseteq Handles
    /\ pending \subseteq Names
    /\ req \in [Threads -> Request \cup {Nil}]

Init ==
    /\ writable \in BOOLEAN /\ sharing \in BOOLEAN
    /\ dirent \in Volumes
    /\ isdir = InitialDirs
    /\ unborn = {f \in Files : \A n \in Names : dirent[n] # f}
    /\ ctx = [h \in Handles |-> Nil]
    /\ node = [h \in Handles |-> Nil]
    /\ cleaned = {}
    /\ pending = {}
    /\ req = [t \in Threads |-> Nil]

-----------------------------------------------------------------------------
(* Paths.                                                                  *)

IsLink(n) == dirent[n] \in Links

\* Mutant: an open that ignores the error of its last stat.
ResolvesUnchecked(n, m) ==
    \E k \in 1..MaxStats : \E s \in [1..k -> Names] :
        /\ s[1] = n /\ s[k] = m
        /\ \A i \in 1..(k-1) : IsLink(s[i]) /\ s[i+1] = LinkTarget[dirent[s[i]]]
        /\ ~IsLink(m)

\* stat_resolved(n) returns m: m is reached from n through symlinks alone,
\* is not one itself, and at most MaxStats names were looked at.
Resolves(n, m) ==
    \E k \in 1..MaxStats : \E s \in [1..k -> Names] :
        /\ s[1] = n /\ s[k] = m
        /\ \A i \in 1..(k-1) : IsLink(s[i]) /\ s[i+1] = LinkTarget[dirent[s[i]]]
        /\ dirent[m] # Nil /\ ~IsLink(m)

-----------------------------------------------------------------------------
(* The kernel driver's and the host's locks (external).                    *)

Opens(n) == {h \in Handles \ cleaned : node[h] = n}

Busy(h) == \E t \in Threads : req[t] # Nil /\ req[t].handle = h

\* The handles of one file node, those cleaned up included.  One whose name was
\* taken away has a node of its own.
Mates(h) == {h} \cup {g \in Handles : node[g] = node[h] /\ node[h] # Nil}

\* The request holds its file node against requests that need it alone.
NodeFree(h) == \A g \in Mates(h) : ~Busy(g)

\* Several reads of one file may run together.
NodeShared(h) ==
    \A t \in Threads :
        req[t] # Nil /\ req[t].handle \in Mates(h) => req[t].op = "read"

\* FineGuard: a rename excludes every other operation on names.
NamespaceFree == \A t \in Threads : req[t] # Nil => req[t].op # "rename"

\* Windows lets a handle rename or delete its file while others have it open
\* only if they share it for deletion.
MayDelete(h) == sharing \/ Opens(node[h]) = {h}

-----------------------------------------------------------------------------
(* The handlers.                                                           *)

\* Mutant: a handler without the check.
EnsureNothing == TRUE

\* ensure_writable: the check at the top of every handler that changes the
\* volume.  The kernel driver's own read-only gate is left out on purpose.
EnsureWritable == writable

\* open: the context records the path that symlinks lead to.  An open for
\* delete-on-close marks the name without asking the driver.
Open(h, n, deleteOnClose) ==
    /\ ctx[h] = Nil /\ NamespaceFree
    /\ n \notin pending
    /\ deleteOnClose => sharing \/ Opens(n) = {}
    /\ \E m \in Names :
        /\ Resolves(n, m)
        /\ ctx' = [ctx EXCEPT ![h] = [inode |-> dirent[m], unix_path |-> m,
                                      is_dir |-> dirent[m] \in isdir]]
    /\ node' = [node EXCEPT ![h] = n]
    /\ pending' = IF deleteOnClose THEN pending \cup {n} ELSE pending
    /\ UNCHANGED <<mount, volume, cleaned, req>>

\* create: the new file exists as soon as fs_ext4_create or fs_ext4_mkdir
\* returns; a failure of the extended attributes or of the stat after it
\* fails the request and leaves the file.
Create(h, n, dir, refreshed) ==
    /\ EnsureWritable
    /\ ctx[h] = Nil /\ NamespaceFree
    /\ dirent[n] = Nil /\ n \notin pending
    /\ \E f \in unborn \ Links :
        /\ dirent' = [dirent EXCEPT ![n] = f]
        /\ isdir' = IF dir THEN isdir \cup {f} ELSE isdir \ {f}
        /\ unborn' = unborn \ {f}
        /\ IF refreshed
             THEN /\ ctx' = [ctx EXCEPT ![h] = [inode |-> f, unix_path |-> n,
                                                is_dir |-> dir]]
                  /\ node' = [node EXCEPT ![h] = n]
             ELSE UNCHANGED <<ctx, node>>
    /\ UNCHANGED <<mount, cleaned, pending, req>>

\* set_delete asks only whether the volume is writable; the kernel driver
\* then marks the name, or takes the mark away.
SetDelete(h, on) ==
    /\ EnsureWritable
    /\ ctx[h] # Nil /\ h \notin cleaned /\ MayDelete(h) /\ NodeFree(h)
    /\ pending' = IF on THEN pending \cup {node[h]} ELSE pending \ {node[h]}
    /\ UNCHANGED <<mount, volume, ctx, node, cleaned, req>>

\* Mutants: cleanup without its test of the flag, and without its test of the
\* mount.
UnlinksUnasked(h, delete) ==
    /\ writable
    /\ dirent[ctx[h].unix_path] # Nil
    /\ ctx[h].is_dir <=> dirent[ctx[h].unix_path] \in isdir

UnlinksReadOnly(h, delete) ==
    /\ delete
    /\ dirent[ctx[h].unix_path] # Nil
    /\ ctx[h].is_dir <=> dirent[ctx[h].unix_path] \in isdir

\* cleanup gets as far as rmdir or unlink, and it is the one that fits.
Unlinks(h, delete) ==
    /\ delete /\ writable
    /\ dirent[ctx[h].unix_path] # Nil
    /\ ctx[h].is_dir <=> dirent[ctx[h].unix_path] \in isdir

\* cleanup.  The kernel driver asks for the deletion when the last open of a
\* marked name goes, and forgets the name then; the handler removes the path of
\* the context, and an error of rmdir or unlink is ignored.
Cleanup(h, removed) ==
    /\ ctx[h] # Nil /\ h \notin cleaned /\ NamespaceFree /\ NodeFree(h)
    /\ LET n == node[h]
           delete == n \in pending /\ Opens(n) = {h}
       IN  /\ dirent' = IF Unlinks(h, delete) /\ removed
                          THEN [dirent EXCEPT ![ctx[h].unix_path] = Nil] ELSE dirent
           /\ pending' = IF delete THEN pending \ {n} ELSE pending
           /\ node' = IF delete
                        THEN [g \in Handles |-> IF node[g] = n THEN Nil ELSE node[g]]
                        ELSE node
    /\ cleaned' = cleaned \cup {h}
    /\ UNCHANGED <<mount, isdir, unborn, ctx, req>>

\* close: the host drops the file context, once nothing runs through it.
Close(h) ==
    /\ h \in cleaned /\ ~Busy(h)
    /\ ctx' = [ctx EXCEPT ![h] = Nil]
    /\ node' = [node EXCEPT ![h] = Nil]
    /\ cleaned' = cleaned \ {h}
    /\ UNCHANGED <<mount, volume, pending, req>>

IORequest(h, op) ==
    [op |-> op, handle |-> h, pc |-> IF op = "write" THEN "stat" ELSE "access",
     path |-> ctx[h].unix_path, dst |-> ctx[h].unix_path, replace |-> FALSE]

\* read, and the handlers that change one file's data (write, set_file_size,
\* overwrite), begin by copying the path out of the context, be it cleaned up.
BeginIO(t, h, op) ==
    /\ req[t] = Nil /\ ctx[h] # Nil /\ ~ctx[h].is_dir
    /\ IF op = "write" THEN EnsureWritable /\ NodeFree(h)
                       ELSE NodeShared(h)
    /\ req' = [req EXCEPT ![t] = IORequest(h, op)]
    /\ UNCHANGED <<mount, volume, ctx, node, cleaned, pending>>

Advance(t, from, to) ==
    /\ req[t] # Nil /\ req[t].pc = from
    /\ req' = [req EXCEPT ![t].pc = to]

Reply(t) == req' = [req EXCEPT ![t] = Nil]

\* write looks the size up first: the stat follows symlinks.
IOStat(t) ==
    /\ Advance(t, "stat", "access")
    /\ \E m \in Names : Resolves(req[t].path, m)
    /\ UNCHANGED <<mount, volume, ctx, node, cleaned, pending>>

\* The call that moves the data: fs_ext4_pwrite, fs_ext4_truncate or
\* fs_ext4_read_file, on the path itself.  A read ends with it.
IOAccess(t) ==
    /\ req[t] # Nil /\ req[t].pc = "access"
    /\ dirent[req[t].path] \in Files \ (Links \cup isdir)
    /\ IF req[t].op = "write" THEN Advance(t, "access", "refresh") ELSE Reply(t)
    /\ UNCHANGED <<mount, volume, ctx, node, cleaned, pending>>

\* The stat after the change, and the reply.
IORefresh(t) ==
    /\ req[t] # Nil /\ req[t].pc = "refresh"
    /\ Reply(t)
    /\ UNCHANGED <<mount, volume, ctx, node, cleaned, pending>>

\* Mutant: a rename that updates its context whatever fs_ext4_rename2 returned.
FailMovesPath(t) ==
    /\ req[t] # Nil /\ req[t].pc # "moved"
    /\ ctx' = IF req[t].op = "rename"
                THEN [ctx EXCEPT ![req[t].handle].unix_path = req[t].dst] ELSE ctx
    /\ Reply(t)
    /\ UNCHANGED <<mount, volume, node, cleaned, pending>>

\* Any call of the ABI may fail and end the request.
Fail(t) ==
    /\ req[t] # Nil /\ req[t].pc # "moved"
    /\ Reply(t)
    /\ UNCHANGED <<mount, volume, ctx, node, cleaned, pending>>

\* The kernel driver lets a rename through when it holds the old name alone
\* and nobody has the new one open.
BeginRename(t, h, dst, replace) ==
    /\ EnsureWritable
    /\ req[t] = Nil /\ ctx[h] # Nil /\ h \notin cleaned
    /\ NamespaceFree /\ NodeFree(h) /\ MayDelete(h)
    /\ dst # node[h] /\ Opens(dst) = {}
    /\ req' = [req EXCEPT ![t] =
                 [op |-> "rename", handle |-> h, pc |-> "rename2",
                  path |-> node[h], dst |-> dst, replace |-> replace]]
    /\ UNCHANGED <<mount, volume, ctx, node, cleaned, pending>>

\* Mutant: replace_if_exists not passed on.
AlwaysReplaces(t) == TRUE

\* replace_if_exists becomes FS_EXT4_RENAME_REPLACE.
Replaces(t) == req[t].replace

\* fs_ext4_rename2(file_name, new_file_name, flags).  What was cleaned up under
\* either name keeps its old path.
Rename2(t) ==
    /\ req[t] # Nil /\ req[t].pc = "rename2"
    /\ LET src == req[t].path
           dst == req[t].dst
       IN  /\ dirent[src] # Nil
           /\ dirent[dst] # Nil =>
                /\ Replaces(t)
                /\ dirent[src] \in isdir <=> dirent[dst] \in isdir
           /\ dirent' = [dirent EXCEPT ![dst] = dirent[src], ![src] = Nil]
           /\ node' = [h \in Handles |-> IF h \in cleaned /\ node[h] \in {src, dst}
                                           THEN Nil ELSE node[h]]
    /\ Advance(t, "rename2", "moved")
    /\ UNCHANGED <<mount, isdir, unborn, ctx, cleaned, pending>>

\* Mutant: the context keeps the path it had.
KeepsPath(t) == ctx

\* Only the context the rename came through gets the new path.
UpdatesPath(t) == [ctx EXCEPT ![req[t].handle].unix_path = req[t].dst]

\* The handler points its own context at the new path; the kernel driver
\* moves every open of the old name.
FinishRename(t) ==
    /\ req[t] # Nil /\ req[t].pc = "moved"
    /\ LET src == req[t].path
           dst == req[t].dst
       IN  /\ ctx' = UpdatesPath(t)
           /\ node' = [h \in Handles |-> IF node[h] = src THEN dst ELSE node[h]]
           /\ pending' = IF src \in pending
                           THEN (pending \ {src}) \cup {dst} ELSE pending
    /\ Reply(t)
    /\ UNCHANGED <<mount, volume, cleaned>>

Next ==
    \/ \E h \in Handles, n \in Names, b \in BOOLEAN : Open(h, n, b)
    \/ \E h \in Handles, n \in Names, dir, ok \in BOOLEAN : Create(h, n, dir, ok)
    \/ \E h \in Handles, b \in BOOLEAN : SetDelete(h, b)
    \/ \E h \in Handles, b \in BOOLEAN : Cleanup(h, b)
    \/ \E h \in Handles : Close(h)
    \/ \E t \in Threads, h \in Handles, op \in {"read", "write"} : BeginIO(t, h, op)
    \/ \E t \in Threads, h \in Handles, n \in Names, b \in BOOLEAN :
          BeginRename(t, h, n, b)
    \/ \E t \in Threads : \/ IOStat(t) \/ IOAccess(t) \/ IORefresh(t) \/ Fail(t)
                          \/ Rename2(t) \/ FinishRename(t)

Spec == Init /\ [][Next]_vars

-----------------------------------------------------------------------------
(* What is promised.                                                       *)

\* No opener shares deletion, and the mount has found no symlink: the driver
\* makes none, so that one that is not there stays unborn.  Most promises need
\* it; neither half of it ever changes.
NoAliases == ~sharing /\ Links \subseteq unborn

Moving(h) ==
    \E t \in Threads : req[t] # Nil /\ req[t].pc = "moved" /\ req[t].handle = h

\* Cleaned up, and then its name was removed, or renamed or replaced through
\* another handle: the path of the context leads nowhere, or to what has the name
\* by now.
Adrift(h) == h \in cleaned /\ node[h] = Nil

\* The path a file context holds leads to the file that was opened, from open
\* or create to close, except while the rename that moves it is between
\* fs_ext4_rename2 and the update of the context, and except for a context that
\* was cleaned up and lost its name after that.  Every handler of mount.rs that
\* takes a context relies on it.
HandleAddressesItsFile ==
    NoAliases => \A h \in Handles :
        ctx[h] # Nil /\ ~Moving(h) =>
            dirent[ctx[h].unix_path] = ctx[h].inode \/ Adrift(h)

\* When a handler is about to move data (fs_ext4_pwrite, fs_ext4_truncate,
\* fs_ext4_read_file), the path it copied some calls earlier still leads to
\* the file its handle was opened on: no bytes go to or come from another.
\* The cache manager's requests after cleanup are included, as long as nobody
\* has taken the name away.
AccessReachesOwnFile ==
    NoAliases => \A t \in Threads :
        req[t] # Nil /\ req[t].pc = "access" =>
            \/ dirent[req[t].path] = ctx[req[t].handle].inode
            \/ Adrift(req[t].handle)

Linked(f) == \E n \in Names : dirent[n] = f

Replacing(t, f) ==
    /\ req[t] # Nil /\ req[t].pc = "rename2" /\ req'[t] # Nil
    /\ req[t].replace /\ dirent[req[t].dst] = f

CleanedUp(h) == h \notin cleaned /\ h \in cleaned'

\* A file leaves the volume only when a rename was told to replace it, or when
\* its own handle is cleaned up with its name marked for deletion.
OnlyOwnFileRemoved ==
    [][\A f \in Files : NoAliases /\ Linked(f) /\ ~Linked(f)' =>
          \/ \E t \in Threads : Replacing(t, f)
          \/ \E h \in Handles :
                CleanedUp(h) /\ ctx[h].inode = f /\ node[h] \in pending]_vars

\* Whatever names and opens there are, nothing is removed unasked: some rename
\* was told to replace, or some marked name lost its last open.
RemovalWasRequested ==
    [][\A f \in Files : Linked(f) /\ ~Linked(f)' =>
          \/ \E t \in Threads : Replacing(t, f)
          \/ \E h \in Handles :
                CleanedUp(h) /\ node[h] \in pending /\ Opens(node[h]) = {h}]_vars

Wrote(t) == req[t] # Nil /\ req[t].op = "write" /\ Advance(t, "access", "refresh")

\* On a volume mounted read-only no name, no file and no data changes, whatever
\* is asked for and even if the kernel driver's gate is open: ensure_writable in
\* create, write, set_file_size, overwrite, set_delete and rename, and cleanup's
\* own test, are enough.  FileIO and FileMetadata say it of their handlers.
ReadOnlyVolumeUnchanged ==
    [][~writable => UNCHANGED volume /\ \A t \in Threads : ~Wrote(t)]_vars

-----------------------------------------------------------------------------
(* Why the path is enough, where no file has two names and no opener       *)
(* shares deletion: the inductive invariant behind HandleAddressesItsFile, *)
(* AccessReachesOwnFile and OnlyOwnFileRemoved.                            *)

\* A request keeps its handle from being closed, and a rename from being cleaned
\* up; driver and kernel agree on what is open.
OpenWhileServed ==
    /\ \A t \in Threads : req[t] # Nil =>
          /\ ctx[req[t].handle] # Nil
          /\ req[t].op = "rename" => req[t].handle \notin cleaned
    /\ \A h \in Handles :
          /\ h \in cleaned => ctx[h] # Nil
          /\ ctx[h] = Nil => node[h] = Nil
          /\ ctx[h] # Nil /\ node[h] = Nil => h \in cleaned

\* Driver and kernel know every open by the same name, requests included.
OneName ==
    /\ \A h \in Handles : node[h] # Nil => ctx[h].unix_path = node[h]
    /\ \A t \in Threads : req[t] # Nil /\ node[req[t].handle] # Nil =>
          req[t].path = node[req[t].handle]

FileAtName ==
    \A h \in Handles : node[h] # Nil /\ ~Moving(h) => dirent[node[h]] = ctx[h].inode

\* A rename has its handle, its old name and its new name to itself, and is
\* the only one.
RenameAlone ==
    \A t \in Threads : req[t] # Nil =>
        /\ req[t].op = "rename" <=> req[t].pc \in {"rename2", "moved"}
        /\ req[t].op = "rename" =>
             /\ Opens(req[t].path) = {req[t].handle}
             /\ Opens(req[t].dst) = {}
             /\ req[t].dst # req[t].path
             /\ \A u \in Threads \ {t} : req[u] # Nil =>
                   req[u].op # "rename" /\ req[u].handle # req[t].handle

\* Once the file has moved, nobody but the rename's handle has either name.
MovedIsThere ==
    \A t \in Threads : req[t] # Nil /\ req[t].pc = "moved" =>
        /\ dirent[req[t].dst] = ctx[req[t].handle].inode
        /\ \A h \in Handles \ {req[t].handle} : node[h] \notin {req[t].path, req[t].dst}

\* The conjunction of these parts is inductive: a handler's path and the
\* kernel's name for the open never disagree while the file is there.
AddressingInv == NoAliases => OpenWhileServed /\ OneName /\ FileAtName
                              /\ RenameAlone /\ MovedIsThere

-----------------------------------------------------------------------------
(* What it implements: FileService, as long as there are no aliases.  A    *)
(* mount with aliases is shown as a service nobody uses, which says        *)
(* nothing about it.                                                       *)

\* Between fs_ext4_rename2 and the update of the context the file has its new
\* name already.
Renaming(t) == req[t] # Nil /\ req[t].pc = "moved"

Shown ==
    [n \in Names |->
        IF \E t \in Threads : Renaming(t) /\ req[t].path = n
          THEN req[CHOOSE t \in Threads : Renaming(t) /\ req[t].path = n].dst ELSE n]

DirShown == IF NoAliases THEN dirent ELSE [n \in Names |-> Nil]

UnbornShown == IF NoAliases THEN unborn ELSE Files

Lost == [file |-> Nil, name |-> Nil]

OpenShown ==
    [h \in Handles |->
        IF ~NoAliases \/ ctx[h] = Nil THEN Nil
        ELSE IF node[h] = Nil THEN Lost
        ELSE [file |-> ctx[h].inode, name |-> Shown[ctx[h].unix_path]]]

LingeringShown == IF NoAliases THEN cleaned ELSE {}

MarkedShown == IF NoAliases THEN {Shown[n] : n \in pending} ELSE {}

\* A request works on whatever the path it copied leads to; through a context
\* that lost its name it works on nothing the service answers for.
ServingShown ==
    [t \in Threads |->
        IF ~NoAliases \/ req[t] = Nil \/ req[t].op = "rename" THEN Nil
        ELSE [handle |-> req[t].handle,
              file |-> IF node[req[t].handle] = Nil THEN Nil ELSE dirent[req[t].path]]]

Service == INSTANCE FileService WITH
    dir <- DirShown, unborn <- UnbornShown, open <- OpenShown,
    lingering <- LingeringShown, marked <- MarkedShown, serving <- ServingShown

\* As long as no file has two names in use and no opener shares deletion, the
\* driver, whose opens know their files by path only, and whose rename updates
\* directory, context and kernel one after the other, cannot be told from the
\* service whose opens are opens of files and whose renames are atomic
\* (Ext4Context's handlers, from open to close).
ImplementsService == Service!Spec
=============================================================================
