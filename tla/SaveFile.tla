------------------------------ MODULE SaveFile ------------------------------
(***************************************************************************)
(* editor_open and editor_save (src/src/buffer.c), system call by system   *)
(* call, against other programs that write the same files, hooks that run  *)
(* between two of the calls, calls that fail, and crashes.                 *)
(*                                                                         *)
(* Texts are abstract versions: every edit and every foreign write makes a *)
(* version that never was.  A file is an inode, the stamp by which         *)
(* same_file_state recognises it (device, inode, size, modification time)  *)
(* and the version it holds.  Every write gives a new stamp: two writes    *)
(* within the resolution of the clock, of equal size and in place, are     *)
(* outside the model.                                                      *)
(***************************************************************************)
EXTENDS Integers

CONSTANTS
    Paths,       \* absolute paths
    None,        \* no path, no file
    MaxVersion,  \* bound on the versions made
    MaxStamp     \* bound on the files written

ASSUME BoundAssumption == MaxVersion \in Nat \ {0} /\ MaxStamp \in Nat \ {0}

VARIABLES
    disk,      \* what each path names now
    stable,    \* what it would name after a loss of power
    temp,      \* the file mkstemp made
    text,      \* the version the buffer holds
    saved,     \* the version of saved_state
    path,      \* b->path
    disk_stat, \* b->disk_stat, None when b->disk_known is false
    pc,        \* where editor_open or editor_save stands
    target,    \* their local p
    force,     \* editor_save's argument
    now,       \* editor_save's stat before the save
    opened,    \* editor_open's open file
    made, stamps,  \* counters of versions and of stamps
    seen,      \* auxiliary: the stamp of the file the text comes from
    raced,     \* auxiliary: a foreign write between last check and rename
    adopted,   \* auxiliary: disk_stat is that of a foreign file
    owed       \* auxiliary: path and version of the last durable save

save_vars == <<disk, stable, temp, text, saved, path, disk_stat, pc, target, force,
               now, opened, made, stamps, seen, raced, adopted, owed>>

Torn == -1        \* what an unsynced file may hold after a loss of power
Empty == 0        \* the text of a new buffer
Version == 0 .. MaxVersion
File == [ino : 1 .. MaxStamp, stamp : 1 .. MaxStamp,
         content : Version \cup {Torn}, synced : BOOLEAN]

ASSUME NoneAssumption == None \notin Paths \cup Nat \cup File

Exists(p) == disk[p] # None
StampOf(p) == IF Exists(p) THEN disk[p].stamp ELSE None

\* b->state # b->saved_state (EditBuffer shows when the texts are then equal).
Modified == text # saved

\* A version, and a file, that never was.
FreshVersion == made < MaxVersion /\ made' = made + 1
FreshFile(c, synced) == [ino |-> stamps + 1, stamp |-> stamps + 1,
                         content |-> c, synced |-> synced]

SaveLocals == <<target, force, now, opened>>
Buffer == <<text, saved, path, disk_stat, seen, adopted>>

-----------------------------------------------------------------------------
(***************************************************************************)
(* Other programs.  Their own writes are taken to be durable.              *)
(***************************************************************************)
ForeignWrites(p, f) ==
    /\ disk' = [disk EXCEPT ![p] = f]
    /\ stable' = [stable EXCEPT ![p] = f]
    /\ raced' = (raced \/ (pc = "rename" /\ p = target))
    /\ owed' = IF owed # None /\ owed.path = p THEN None ELSE owed
    /\ UNCHANGED <<temp, text, saved, path, disk_stat, pc, SaveLocals,
                   seen, adopted>>

\* A file is created or replaced by a new one.
ForeignReplace(p) ==
    /\ FreshVersion
    /\ stamps < MaxStamp
    /\ stamps' = stamps + 1
    /\ ForeignWrites(p, FreshFile(made', TRUE))

\* A file is rewritten in place.
ForeignRewrite(p) ==
    /\ Exists(p)
    /\ FreshVersion
    /\ stamps < MaxStamp
    /\ stamps' = stamps + 1
    /\ ForeignWrites(p, [disk[p] EXCEPT !.stamp = stamps', !.content = made'])

ForeignRemove(p) ==
    /\ Exists(p)
    /\ ForeignWrites(p, None)
    /\ UNCHANGED <<made, stamps>>

-----------------------------------------------------------------------------
(***************************************************************************)
(* Editing and opening.                                                    *)
(***************************************************************************)

\* A command edits the buffer.
EditText ==
    /\ pc = "idle"
    /\ FreshVersion
    /\ text' = made'
    /\ UNCHANGED <<disk, stable, temp, saved, path, disk_stat, pc, SaveLocals,
                   stamps, seen, raced, adopted, owed>>

\* editor_open: fopen, then fstat of the open file.
OpenStat(p) ==
    /\ pc = "idle"
    /\ path = None
    /\ target' = p
    /\ opened' = disk[p]
    /\ pc' = "read"
    /\ UNCHANGED <<disk, stable, temp, Buffer, force, now, made, stamps, raced, owed>>

\* The stamp a stat of the name would give, in place of the fstat.
OpenStamp_ByName == StampOf(target)

\* The stamp remembered is that of the fstat before the bytes were read.
OpenStamp == opened.stamp

\* fread of what the open file holds by then, and the new buffer.  A file
\* that was rewritten in place since the fstat may have become too short.
OpenRead ==
    /\ pc = "read"
    /\ pc' = "idle"
    /\ target' = None /\ opened' = None
    /\ IF opened = None
       THEN /\ text' = Empty /\ saved' = Empty
            /\ path' = target /\ disk_stat' = None /\ seen' = None
       ELSE LET rewritten == Exists(target) /\ disk[target].ino = opened.ino
                f == IF rewritten THEN disk[target] ELSE opened
            IN  \/ /\ text' = f.content /\ saved' = f.content
                   /\ path' = target /\ disk_stat' = OpenStamp /\ seen' = f.stamp
                \/ /\ f.stamp # opened.stamp
                   /\ UNCHANGED <<text, saved, path, disk_stat, seen>>
    /\ adopted' = FALSE
    /\ UNCHANGED <<disk, stable, temp, force, now, made, stamps, raced, owed>>

-----------------------------------------------------------------------------
(***************************************************************************)
(* editor_save.                                                            *)
(***************************************************************************)

\* The first test as it would be if only known files were protected.
Refused_KnownOnly(p) ==
    p = path /\ disk_stat # None /\ StampOf(p) # disk_stat

\* "Refusing to overwrite an existing or externally changed file".
Refused(p) ==
    LET same == p = path
    IN  \/ same /\ disk_stat # None /\ StampOf(p) # disk_stat
        \/ Exists(p) /\ (~same \/ disk_stat = None)

\* The entry of editor_save up to the call of the before_save hooks.
SaveStart(p, f) ==
    /\ pc = "idle"
    /\ f \/ ~Refused(p)
    /\ pc' = "hook"
    /\ target' = p
    /\ force' = f
    /\ now' = StampOf(p)
    /\ raced' = FALSE
    /\ UNCHANGED <<disk, stable, temp, Buffer, opened, made, stamps, owed>>

\* The hooks run after the text was written.
HookEdits_Late ==
    /\ pc = "sync"
    /\ FreshVersion
    /\ text' = made'
    /\ UNCHANGED <<disk, stable, temp, saved, path, disk_stat, pc, SaveLocals,
                   stamps, seen, raced, adopted, owed>>

\* A before_save hook edits the buffer, as the formatter does.
HookEdits ==
    /\ pc = "hook"
    /\ FreshVersion
    /\ text' = made'
    /\ UNCHANGED <<disk, stable, temp, saved, path, disk_stat, pc, SaveLocals,
                   stamps, seen, raced, adopted, owed>>

SaveAborts ==
    /\ pc' = "idle"
    /\ target' = None /\ force' = FALSE /\ now' = None
    /\ UNCHANGED <<disk, stable, Buffer, opened, made, stamps, raced, owed>>

\* A before_save hook fails, or mkstemp does: nothing was made.
HookVetoes == pc = "hook" /\ SaveAborts /\ UNCHANGED temp

SaveGoesOn(next) ==
    /\ pc' = next
    /\ UNCHANGED <<disk, stable, Buffer, SaveLocals, made, stamps, raced, owed>>

\* The hooks are done; mkstemp and the writing of the text.
WriteTemp ==
    /\ pc = "hook"
    /\ temp' = [content |-> text, synced |-> FALSE]
    /\ SaveGoesOn("sync")

\* fflush, fsync and fclose.
SyncTemp ==
    /\ pc = "sync"
    /\ temp' = [temp EXCEPT !.synced = TRUE]
    /\ SaveGoesOn("check")

\* The second stat, without a comparison.
RecheckFails_Never == FALSE

\* The second stat: the destination is what it was before the hooks ran.
RecheckFails == ~force /\ StampOf(target) # now

Recheck ==
    /\ pc = "check"
    /\ ~RecheckFails
    /\ UNCHANGED temp
    /\ SaveGoesOn("rename")

\* Failing without the unlink.
SaveFails_KeepsTemp ==
    /\ pc \in {"sync", "check", "rename"}
    /\ SaveAborts
    /\ UNCHANGED temp

\* A write, a sync, the recheck or the rename fails: unlink(temp).
SaveFails ==
    /\ pc \in {"sync", "check", "rename"}
    /\ SaveAborts
    /\ temp' = None

\* rename(temp, p): the new file takes the name.
Rename ==
    /\ pc = "rename"
    /\ stamps < MaxStamp
    /\ stamps' = stamps + 1
    /\ disk' = [disk EXCEPT ![target] = FreshFile(temp.content, temp.synced)]
    /\ temp' = None
    /\ seen' = stamps'
    /\ owed' = IF owed # None /\ owed.path = target THEN None ELSE owed
    /\ pc' = "dirsync"
    /\ UNCHANGED <<stable, text, saved, path, disk_stat, SaveLocals, made,
                   raced, adopted>>

\* fsync of the directory reported done before the rename reached it.
SyncDirectory_Early ==
    /\ pc = "dirsync"
    /\ owed' = [path |-> target, content |-> text]
    /\ pc' = "restat"
    /\ UNCHANGED <<disk, stable, temp, Buffer, SaveLocals, made, stamps, raced>>

\* fsync of the directory makes the rename durable.
SyncDirectory ==
    /\ pc = "dirsync"
    /\ stable' = [stable EXCEPT ![target] = disk[target]]
    /\ owed' = IF StampOf(target) = seen
               THEN [path |-> target, content |-> text] ELSE None
    /\ pc' = "restat"
    /\ UNCHANGED <<disk, temp, Buffer, SaveLocals, made, stamps, raced>>

\* It is best effort: a directory that cannot be opened or synced is ignored.
SyncDirectoryFails ==
    /\ pc = "dirsync"
    /\ UNCHANGED temp
    /\ SaveGoesOn("restat")

\* The bookkeeping of a save that worked: stat(p, &b->disk_stat) describes
\* whatever bears the name by now.
SaveDone ==
    /\ pc = "restat"
    /\ path' = target
    /\ saved' = text
    /\ disk_stat' = StampOf(target)
    /\ adopted' = (StampOf(target) \notin {None, seen})
    /\ pc' = "idle"
    /\ target' = None /\ force' = FALSE /\ now' = None
    /\ UNCHANGED <<disk, stable, temp, text, opened, made, stamps, seen, raced, owed>>

-----------------------------------------------------------------------------
(***************************************************************************)
(* Crashes.  The editor restarts with an empty buffer; there is no         *)
(* recovery and a temporary file stays behind under its own name.          *)
(***************************************************************************)
EditorGone ==
    /\ text' = Empty /\ saved' = Empty /\ path' = None /\ disk_stat' = None
    /\ pc' = "idle" /\ target' = None /\ force' = FALSE /\ now' = None
    /\ opened' = None /\ temp' = None /\ seen' = None /\ raced' = FALSE /\ adopted' = FALSE
    /\ UNCHANGED <<made, stamps>>

ProcessCrash ==
    /\ pc # "idle" \/ path # None
    /\ EditorGone
    /\ UNCHANGED <<disk, stable, owed>>

\* Each name goes back to what was durable, or keeps its file, of which only
\* synced bytes are certain.
PowerLoss ==
    /\ EditorGone
    /\ \E kept \in SUBSET Paths :
         disk' = [p \in Paths |->
                    IF p \notin kept THEN stable[p]
                    ELSE IF Exists(p) /\ ~disk[p].synced
                         THEN [disk[p] EXCEPT !.content = Torn] ELSE disk[p]]
    /\ stable' = disk'
    /\ UNCHANGED owed

SaveInit ==
    /\ \E p \in Paths :
         disk = [q \in Paths |->
                   IF q = p THEN [ino |-> 1, stamp |-> 1, content |-> 1, synced |-> TRUE]
                            ELSE None]
    /\ stable = disk
    /\ temp = None
    /\ text = Empty /\ saved = Empty /\ path = None /\ disk_stat = None
    /\ pc = "idle" /\ target = None /\ force = FALSE /\ now = None /\ opened = None
    /\ made = 1 /\ stamps = 1
    /\ seen = None /\ raced = FALSE /\ adopted = FALSE /\ owed = None

SaveNext ==
    \/ \E p \in Paths : \/ ForeignReplace(p)
                        \/ ForeignRewrite(p)
                        \/ ForeignRemove(p)
                        \/ OpenStat(p)
                        \/ \E f \in BOOLEAN : SaveStart(p, f)
    \/ EditText
    \/ OpenRead
    \/ HookEdits
    \/ HookVetoes
    \/ WriteTemp
    \/ SyncTemp
    \/ Recheck
    \/ SaveFails
    \/ Rename
    \/ SyncDirectory
    \/ SyncDirectoryFails
    \/ SaveDone
    \/ ProcessCrash
    \/ PowerLoss

SaveSpec == SaveInit /\ [][SaveNext]_save_vars

-----------------------------------------------------------------------------
(***************************************************************************)
(* Properties.                                                             *)
(***************************************************************************)
SaveTypeOK ==
    /\ disk \in [Paths -> File \cup {None}]
    /\ stable \in [Paths -> File \cup {None}]
    /\ temp \in [content : Version, synced : BOOLEAN] \cup {None}
    /\ text \in Version \cup {Torn} /\ saved \in Version \cup {Torn}
    /\ path \in Paths \cup {None} /\ target \in Paths \cup {None}
    /\ disk_stat \in 1 .. MaxStamp \cup {None} /\ seen \in 1 .. MaxStamp \cup {None}
    /\ pc \in {"idle", "read", "hook", "sync", "check", "rename", "dirsync", "restat"}
    /\ force \in BOOLEAN /\ raced \in BOOLEAN /\ adopted \in BOOLEAN
    /\ now \in 1 .. MaxStamp \cup {None} /\ opened \in File \cup {None}
    /\ made \in Version /\ stamps \in 1 .. MaxStamp
    /\ owed \in [path : Paths, content : Version] \cup {None}

\* Once the directory is synced, the version a save wrote survives any loss of
\* power until somebody writes that file again.
SavedIsDurable ==
    owed # None => /\ stable[owed.path] # None
                   /\ stable[owed.path].content = owed.content

\* A buffer shown as unmodified, whose file still has the metadata the buffer
\* remembers, is a faithful view of that file (adopted: see NoSilentOverwrite).
CleanShowsFile ==
    (/\ path # None /\ ~Modified /\ ~adopted
     /\ disk_stat # None /\ StampOf(path) = disk_stat) => disk[path].content = text

\* A save that is over, whichever way, leaves no temporary file.
NoTempLeft ==
    /\ SaveTypeOK
    /\ pc = "idle" => temp = None

RenameStep == pc = "rename" /\ pc' = "dirsync"

\* An unforced save only ever replaces the very file the buffer was read from
\* or last wrote, whatever other programs and hooks do between the tests.
\* Exempt is what docs/safety.html grants, a write between the last test and
\* the rename, and a foreign file that the save before took for its own.
NoSilentOverwrite ==
    [][(RenameStep /\ ~force /\ ~raced /\ ~adopted) =>
            StampOf(target) \in {None, seen}]_save_vars

\* What a path holds, to a reader that knows nothing of inodes and stamps.
ContentOf(f) == IF f = None THEN None ELSE f.content

=============================================================================
