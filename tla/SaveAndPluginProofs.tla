------------------------ MODULE SaveAndPluginProofs -------------------------
(***************************************************************************)
(* Proofs about saving and about the plugins that may guard it.            *)
(*                                                                         *)
(* SaveFile: what editor_save leaves on the disk, what the buffer knows of *)
(* its file, and that every path implements AtomicFile.  PluginHost: for   *)
(* every set of callbacks, any depth of calls and any number of them, no   *)
(* file is written past a hook that was to guard it, and what a command    *)
(* edits is one undo group.                                                *)
(***************************************************************************)
EXTENDS MCSaveFile, PluginHost, FiniteSetTheorems, TLAPS

-----------------------------------------------------------------------------
(***************************************************************************)
(* Saving: SaveFile.                                                       *)
(***************************************************************************)
\* A file no program has half written: every byte of it is synced.
WholeFile == [ino : 1 .. MaxStamp, stamp : 1 .. MaxStamp,
              content : Version, synced : {TRUE}]

InSave == pc \in {"hook", "sync", "check", "rename", "dirsync", "restat"}

\* No name ever holds an unsynced or torn file, so no buffer is read from one.
FilesOK ==
    /\ disk \in [Paths -> WholeFile \cup {None}]
    /\ stable \in [Paths -> WholeFile \cup {None}]
    /\ opened \in WholeFile \cup {None}

BufferOK ==
    /\ text \in Version /\ saved \in Version
    /\ path \in Paths \cup {None}
    /\ disk_stat \in 1 .. MaxStamp \cup {None} /\ seen \in 1 .. MaxStamp \cup {None}
    /\ adopted \in BOOLEAN
    /\ owed \in [path : Paths, content : Version] \cup {None}

\* A file is read into a buffer that has none; reading and saving have a target.
ControlOK ==
    /\ pc \in {"idle", "read"} \/ InSave
    /\ pc = "read" => path = None
    /\ target \in Paths \cup {None}
    /\ pc # "idle" => target \in Paths
    /\ force \in BOOLEAN /\ raced \in BOOLEAN
    /\ now \in 1 .. MaxStamp \cup {None}
    /\ made \in Version /\ stamps \in 1 .. MaxStamp

\* The temporary file exists only between its creation and its renaming; it
\* holds the text of the buffer, and is synced before the last test.
TempOK ==
    /\ pc \notin {"sync", "check", "rename"} => temp = None
    /\ pc \in {"sync", "check", "rename"} =>
          temp \in [content : {text}, synced : BOOLEAN]
    /\ pc \in {"check", "rename"} => temp \in [content : {text}, synced : {TRUE}]

\* No stamp is larger than the last one given.
StampsOK ==
    /\ \A p \in Paths : /\ disk[p] # None => disk[p].stamp <= stamps
                        /\ stable[p] # None => stable[p].stamp <= stamps
    /\ opened # None => opened.stamp <= stamps
    /\ disk_stat # None => disk_stat <= stamps
    /\ seen # None => seen <= stamps

\* While a file is read, and after a rename, a file with the stamp the editor
\* looked at still holds what it looked at.
SeenOK ==
    /\ (pc = "read" /\ opened # None /\ StampOf(target) = opened.stamp) =>
          disk[target].content = opened.content
    /\ pc \in {"dirsync", "restat"} => seen # None
    /\ (pc \in {"dirsync", "restat"} /\ StampOf(target) = seen) =>
          disk[target].content = text

\* The file that has the metadata the buffer remembers is the file the buffer
\* comes from, and holds what the buffer held when it was last saved.
KnownOK ==
    (/\ path # None /\ ~adopted
     /\ disk_stat # None /\ StampOf(path) = disk_stat) =>
        /\ disk[path].content = saved
        /\ pc \notin {"dirsync", "restat"} => disk_stat = seen

\* What an unforced save may assume of its target.
GuardOK ==
    /\ (pc \in {"hook", "sync", "check", "rename"} /\ ~force /\ ~adopted) =>
          now \in {None, seen}
    /\ (pc = "rename" /\ ~force /\ ~raced) => StampOf(target) = now

\* A durable save is what both the name and the disk hold.
OwedOK ==
    owed # None => /\ stable[owed.path] = disk[owed.path]
                   /\ stable[owed.path] # None
                   /\ stable[owed.path].content = owed.content

\* The inductive invariant.
IInv ==
    /\ FilesOK /\ BufferOK /\ ControlOK
    /\ TempOK /\ StampsOK /\ SeenOK /\ KnownOK /\ GuardOK /\ OwedOK

\* Every step of the program, the other programs and the crashes keeps it.
LEMMA Inductive == IInv /\ [SaveNext]_save_vars => IInv'
<1> SUFFICES ASSUME IInv, [SaveNext]_save_vars PROVE IInv'
  OBVIOUS
<1> USE DEF IInv, FilesOK, BufferOK, ControlOK, TempOK, StampsOK, SeenOK, KnownOK, GuardOK,
         OwedOK, InSave, WholeFile, File, Version, StampOf, Exists, Empty
<1>0. MaxVersion \in Nat /\ MaxStamp \in Nat /\ None \notin Paths /\ None \notin Nat
  BY BoundAssumption, NoneAssumption
<1>a. \A f \in WholeFile : f.stamp \in Nat
  BY <1>0
<1>b. /\ \A q \in Paths : /\ disk[q] # None => disk[q].stamp \in Nat
                          /\ stable[q] # None => stable[q].stamp \in Nat
      /\ opened # None => opened.stamp \in Nat
  <2> HIDE DEF WholeFile
  <2> QED
    BY <1>a
<1>1. ASSUME NEW p \in Paths, ForeignReplace(p) PROVE IInv'
  <2>1. FilesOK'
    <3>1. stamps' \in 1 .. MaxStamp /\ made' \in Version
      BY <1>1, <1>0 DEF ForeignReplace, ForeignWrites, FreshVersion, FreshFile, SaveLocals
    <3>2. FreshFile(made', TRUE) \in WholeFile
      BY <1>1, <3>1 DEF ForeignReplace, ForeignWrites, FreshVersion, FreshFile, SaveLocals
    <3> HIDE DEF WholeFile
    <3> QED
      BY <1>1, <3>2 DEF ForeignReplace, ForeignWrites, FreshVersion, FreshFile, SaveLocals
  <2>2. BufferOK'
    BY <1>1, <1>0 DEF ForeignReplace, ForeignWrites, FreshVersion, FreshFile, SaveLocals
  <2>3. ControlOK'
    BY <1>1, <1>0 DEF ForeignReplace, ForeignWrites, FreshVersion, FreshFile, SaveLocals
  <2>4. StampsOK'
    <3>1. stamps' = stamps + 1 /\ stamps \in Nat
      BY <1>1, <1>0 DEF ForeignReplace, ForeignWrites, FreshFile, SaveLocals
    <3>2. \A q \in Paths : /\ disk'[q] # None => disk'[q] = disk[q] \/ disk'[q].stamp = stamps'
                           /\ stable'[q] # None => stable'[q] = stable[q] \/ stable'[q].stamp = stamps'
      BY <1>1 DEF ForeignReplace, ForeignWrites, FreshFile, SaveLocals
    <3>a. \A q \in Paths : /\ disk[q] # None => disk[q].stamp \in Nat /\ disk[q].stamp <= stamps + 1
                           /\ stable[q] # None => stable[q].stamp \in Nat /\ stable[q].stamp <= stamps + 1
      BY <3>1, <1>b
    <3>3. \A q \in Paths : /\ disk'[q] # None => disk'[q].stamp <= stamps'
                           /\ stable'[q] # None => stable'[q].stamp <= stamps'
      BY <3>1, <3>2, <3>a
    <3>4. opened' # None => opened'.stamp <= stamps'
      BY <1>1, <1>0, <1>b, <3>1 DEF ForeignReplace, ForeignWrites, FreshFile, SaveLocals
    <3>5. disk_stat' # None => disk_stat' <= stamps'
      BY <1>1, <1>0, <3>1 DEF ForeignReplace, ForeignWrites, FreshFile, SaveLocals
    <3>6. seen' # None => seen' <= stamps'
      BY <1>1, <1>0, <3>1 DEF ForeignReplace, ForeignWrites, FreshFile, SaveLocals
    <3> QED
      BY <3>3, <3>4, <3>5, <3>6
  <2>5. SeenOK'
    <3>1. \/ disk'[target] = disk[target]
          \/ disk'[target] = None
          \/ disk'[target] # None /\ disk'[target].stamp = stamps + 1
      BY <1>1 DEF ForeignReplace, ForeignWrites, FreshFile, SaveLocals
    <3>2. UNCHANGED <<pc, target, opened, seen, text>>
      BY <1>1 DEF ForeignReplace, ForeignWrites, FreshFile, SaveLocals
    <3>3. opened # None => opened.stamp # stamps + 1 /\ opened.stamp # None
      BY <1>0, <1>b
    <3>4. seen # None => seen # stamps + 1
      BY <1>0
    <3>5. \/ StampOf(target)' = StampOf(target) /\ disk'[target] = disk[target]
          \/ StampOf(target)' \in {None, stamps + 1}
      BY <3>1, <3>2
    <3>6. SeenOK /\ UNCHANGED <<pc, target, opened, seen, text>>
      BY <3>2
    <3> HIDE DEF StampOf
    <3> QED
      BY <3>3, <3>4, <3>5, <3>6
  <2>6. KnownOK'
    BY <1>1, <1>0 DEF ForeignReplace, ForeignWrites, FreshVersion, FreshFile, SaveLocals
  <2>7. GuardOK'
    BY <1>1, <1>0 DEF ForeignReplace, ForeignWrites, FreshVersion, FreshFile, SaveLocals
  <2>8. OwedOK'
    BY <1>1, <1>0 DEF ForeignReplace, ForeignWrites, FreshVersion, FreshFile, SaveLocals
  <2>9. TempOK'
    BY <1>1 DEF ForeignReplace, ForeignWrites, FreshVersion, FreshFile, SaveLocals
  <2> QED
    BY <2>1, <2>2, <2>3, <2>4, <2>5, <2>6, <2>7, <2>8, <2>9 DEF IInv
<1>2. ASSUME NEW p \in Paths, ForeignRewrite(p) PROVE IInv'
  <2>1. FilesOK'
    <3>1. stamps' \in 1 .. MaxStamp /\ made' \in Version
      BY <1>2, <1>0 DEF ForeignRewrite, ForeignWrites, FreshVersion, SaveLocals
    <3>2. [disk[p] EXCEPT !.stamp = stamps', !.content = made'] \in WholeFile
      BY <1>2, <3>1, ZenonT(60) DEF ForeignRewrite, ForeignWrites, FreshVersion, SaveLocals
    <3> HIDE DEF WholeFile
    <3> QED
      BY <1>2, <3>2 DEF ForeignRewrite, ForeignWrites, FreshVersion, SaveLocals
  <2>2. BufferOK'
    BY <1>2, <1>0 DEF ForeignRewrite, ForeignWrites, FreshVersion, SaveLocals
  <2>3. ControlOK'
    BY <1>2, <1>0 DEF ForeignRewrite, ForeignWrites, FreshVersion, SaveLocals
  <2>4. StampsOK'
    <3>1. stamps' = stamps + 1 /\ stamps \in Nat
      BY <1>2, <1>0 DEF ForeignRewrite, ForeignWrites, SaveLocals
    <3>2. \A q \in Paths : /\ disk'[q] # None => disk'[q] = disk[q] \/ disk'[q].stamp = stamps'
                           /\ stable'[q] # None => stable'[q] = stable[q] \/ stable'[q].stamp = stamps'
      BY <1>2 DEF ForeignRewrite, ForeignWrites, SaveLocals
    <3>a. \A q \in Paths : /\ disk[q] # None => disk[q].stamp \in Nat /\ disk[q].stamp <= stamps + 1
                           /\ stable[q] # None => stable[q].stamp \in Nat /\ stable[q].stamp <= stamps + 1
      BY <3>1, <1>b
    <3>3. \A q \in Paths : /\ disk'[q] # None => disk'[q].stamp <= stamps'
                           /\ stable'[q] # None => stable'[q].stamp <= stamps'
      BY <3>1, <3>2, <3>a
    <3>4. opened' # None => opened'.stamp <= stamps'
      BY <1>2, <1>0, <1>b, <3>1 DEF ForeignRewrite, ForeignWrites, SaveLocals
    <3>5. disk_stat' # None => disk_stat' <= stamps'
      BY <1>2, <1>0, <3>1 DEF ForeignRewrite, ForeignWrites, SaveLocals
    <3>6. seen' # None => seen' <= stamps'
      BY <1>2, <1>0, <3>1 DEF ForeignRewrite, ForeignWrites, SaveLocals
    <3> QED
      BY <3>3, <3>4, <3>5, <3>6
  <2>5. SeenOK'
    <3>1. \/ disk'[target] = disk[target]
          \/ disk'[target] = None
          \/ disk'[target] # None /\ disk'[target].stamp = stamps + 1
      BY <1>2 DEF ForeignRewrite, ForeignWrites, SaveLocals
    <3>2. UNCHANGED <<pc, target, opened, seen, text>>
      BY <1>2 DEF ForeignRewrite, ForeignWrites, SaveLocals
    <3>3. opened # None => opened.stamp # stamps + 1 /\ opened.stamp # None
      BY <1>0, <1>b
    <3>4. seen # None => seen # stamps + 1
      BY <1>0
    <3>5. \/ StampOf(target)' = StampOf(target) /\ disk'[target] = disk[target]
          \/ StampOf(target)' \in {None, stamps + 1}
      BY <3>1, <3>2
    <3>6. SeenOK /\ UNCHANGED <<pc, target, opened, seen, text>>
      BY <3>2
    <3> HIDE DEF StampOf
    <3> QED
      BY <3>3, <3>4, <3>5, <3>6
  <2>6. KnownOK'
    BY <1>2, <1>0 DEF ForeignRewrite, ForeignWrites, FreshVersion, SaveLocals
  <2>7. GuardOK'
    BY <1>2, <1>0 DEF ForeignRewrite, ForeignWrites, FreshVersion, SaveLocals
  <2>8. OwedOK'
    BY <1>2, <1>0 DEF ForeignRewrite, ForeignWrites, FreshVersion, SaveLocals
  <2>9. TempOK'
    BY <1>2 DEF ForeignRewrite, ForeignWrites, FreshVersion, SaveLocals
  <2> QED
    BY <2>1, <2>2, <2>3, <2>4, <2>5, <2>6, <2>7, <2>8, <2>9 DEF IInv
<1>3. ASSUME NEW p \in Paths, ForeignRemove(p) PROVE IInv'
  <2>1. FilesOK'
    BY <1>3, <1>0 DEF ForeignRemove, ForeignWrites, SaveLocals
  <2>2. BufferOK'
    BY <1>3, <1>0 DEF ForeignRemove, ForeignWrites, SaveLocals
  <2>3. ControlOK'
    BY <1>3, <1>0 DEF ForeignRemove, ForeignWrites, SaveLocals
  <2>4. StampsOK'
    BY <1>3, <1>0 DEF ForeignRemove, ForeignWrites, SaveLocals
  <2>5. SeenOK'
    <3>1. \/ disk'[target] = disk[target]
          \/ disk'[target] = None
          \/ disk'[target] # None /\ disk'[target].stamp = stamps + 1
      BY <1>3 DEF ForeignRemove, ForeignWrites, SaveLocals
    <3>2. UNCHANGED <<pc, target, opened, seen, text>>
      BY <1>3 DEF ForeignRemove, ForeignWrites, SaveLocals
    <3>3. opened # None => opened.stamp # stamps + 1 /\ opened.stamp # None
      BY <1>0, <1>b
    <3>4. seen # None => seen # stamps + 1
      BY <1>0
    <3>5. \/ StampOf(target)' = StampOf(target) /\ disk'[target] = disk[target]
          \/ StampOf(target)' \in {None, stamps + 1}
      BY <3>1, <3>2
    <3>6. SeenOK /\ UNCHANGED <<pc, target, opened, seen, text>>
      BY <3>2
    <3> HIDE DEF StampOf
    <3> QED
      BY <3>3, <3>4, <3>5, <3>6
  <2>6. KnownOK'
    BY <1>3, <1>0 DEF ForeignRemove, ForeignWrites, SaveLocals
  <2>7. GuardOK'
    BY <1>3, <1>0 DEF ForeignRemove, ForeignWrites, SaveLocals
  <2>8. OwedOK'
    BY <1>3, <1>0 DEF ForeignRemove, ForeignWrites, SaveLocals
  <2>9. TempOK'
    BY <1>3 DEF ForeignRemove, ForeignWrites, SaveLocals
  <2> QED
    BY <2>1, <2>2, <2>3, <2>4, <2>5, <2>6, <2>7, <2>8, <2>9 DEF IInv
<1>4. ASSUME NEW p \in Paths, OpenStat(p) PROVE IInv'
  <2>1. FilesOK'
    BY <1>4, <1>0 DEF OpenStat, Buffer
  <2>2. ControlOK'
    BY <1>4, <1>0 DEF OpenStat, Buffer
  <2>3. TempOK'
    BY <1>4, <1>0 DEF OpenStat, Buffer
  <2>4. StampsOK'
    BY <1>4, <1>0 DEF OpenStat, Buffer
  <2>5. SeenOK'
    BY <1>4, <1>0 DEF OpenStat, Buffer
  <2>6. KnownOK'
    BY <1>4, <1>0 DEF OpenStat, Buffer
  <2>7. GuardOK'
    BY <1>4, <1>0 DEF OpenStat, Buffer
  <2>8. BufferOK' /\ OwedOK'
    BY <1>4 DEF OpenStat, Buffer
  <2> QED
    BY <2>1, <2>2, <2>3, <2>4, <2>5, <2>6, <2>7, <2>8 DEF IInv
<1>5. ASSUME NEW p \in Paths, NEW f \in BOOLEAN, SaveStart(p, f) PROVE IInv'
  <2>1. ControlOK'
    BY <1>5, <1>0 DEF SaveStart, Refused, Buffer
  <2>2. TempOK'
    BY <1>5, <1>0 DEF SaveStart, Refused, Buffer
  <2>3. SeenOK'
    BY <1>5, <1>0 DEF SaveStart, Refused, Buffer
  <2>4. KnownOK'
    BY <1>5, <1>0 DEF SaveStart, Refused, Buffer
  <2>5. GuardOK'
    BY <1>5, <1>0 DEF SaveStart, Refused, Buffer
  <2>6. FilesOK' /\ BufferOK' /\ StampsOK' /\ OwedOK'
    BY <1>5 DEF SaveStart, Refused, Buffer
  <2> QED
    BY <2>1, <2>2, <2>3, <2>4, <2>5, <2>6 DEF IInv
<1>6. CASE EditText
  <2>1. BufferOK'
    BY <1>6, <1>0 DEF EditText, FreshVersion, SaveLocals
  <2>2. ControlOK'
    BY <1>6, <1>0 DEF EditText, FreshVersion, SaveLocals
  <2>3. TempOK'
    BY <1>6, <1>0 DEF EditText, FreshVersion, SaveLocals
  <2>4. SeenOK'
    BY <1>6, <1>0 DEF EditText, FreshVersion, SaveLocals
  <2>5. FilesOK' /\ StampsOK' /\ KnownOK' /\ GuardOK' /\ OwedOK'
    BY <1>6 DEF EditText, FreshVersion, SaveLocals
  <2> QED
    BY <2>1, <2>2, <2>3, <2>4, <2>5 DEF IInv
<1>7. CASE OpenRead
  <2>1. FilesOK'
    BY <1>7, <1>0 DEF OpenRead, OpenStamp
  <2>2. BufferOK'
    <3>1. adopted' \in BOOLEAN
      BY <1>7 DEF OpenRead, OpenStamp
    <3>2. text' \in Version /\ saved' \in Version
      <4>1. target \in Paths /\ pc = "read" /\ Empty \in Version
        BY <1>7, <1>0 DEF OpenRead
      <4>2. opened # None => opened.content \in Version
        OBVIOUS
      <4>3. disk[target] # None => disk[target].content \in Version
        BY <4>1
      <4> HIDE DEF Version
      <4> QED
        BY <1>7, <4>1, <4>2, <4>3 DEF OpenRead
    <3>3. path' \in Paths \cup {None} /\ owed' \in [path : Paths, content : Version] \cup {None}
      BY <1>7 DEF OpenRead, OpenStamp
    <3>4. disk_stat' \in 1 .. MaxStamp \cup {None} /\ seen' \in 1 .. MaxStamp \cup {None}
      BY <1>7 DEF OpenRead, OpenStamp
    <3> QED
      BY <3>1, <3>2, <3>3, <3>4
  <2>3. ControlOK'
    BY <1>7, <1>0 DEF OpenRead, OpenStamp
  <2>4. TempOK'
    BY <1>7, <1>0 DEF OpenRead, OpenStamp
  <2>5. StampsOK'
    BY <1>7, <1>0 DEF OpenRead, OpenStamp
  <2>6. SeenOK'
    BY <1>7, <1>0 DEF OpenRead, OpenStamp
  <2>7. KnownOK'
    BY <1>7, <1>0 DEF OpenRead, OpenStamp
  <2>8. GuardOK'
    BY <1>7, <1>0 DEF OpenRead, OpenStamp
  <2>9. OwedOK'
    BY <1>7 DEF OpenRead, OpenStamp
  <2> QED
    BY <2>1, <2>2, <2>3, <2>4, <2>5, <2>6, <2>7, <2>8, <2>9 DEF IInv
<1>8. CASE HookEdits
  <2>1. BufferOK'
    BY <1>8, <1>0 DEF HookEdits, FreshVersion, SaveLocals
  <2>2. ControlOK'
    BY <1>8, <1>0 DEF HookEdits, FreshVersion, SaveLocals
  <2>3. TempOK'
    BY <1>8, <1>0 DEF HookEdits, FreshVersion, SaveLocals
  <2>4. SeenOK'
    BY <1>8, <1>0 DEF HookEdits, FreshVersion, SaveLocals
  <2>5. FilesOK' /\ StampsOK' /\ KnownOK' /\ GuardOK' /\ OwedOK'
    BY <1>8 DEF HookEdits, FreshVersion, SaveLocals
  <2> QED
    BY <2>1, <2>2, <2>3, <2>4, <2>5 DEF IInv
<1>9. CASE HookVetoes
  <2>1. ControlOK'
    BY <1>9, <1>0 DEF HookVetoes, SaveAborts, Buffer
  <2>2. TempOK'
    BY <1>9, <1>0 DEF HookVetoes, SaveAborts, Buffer
  <2>3. SeenOK'
    BY <1>9, <1>0 DEF HookVetoes, SaveAborts, Buffer
  <2>4. KnownOK'
    BY <1>9, <1>0 DEF HookVetoes, SaveAborts, Buffer
  <2>5. GuardOK'
    BY <1>9, <1>0 DEF HookVetoes, SaveAborts, Buffer
  <2>6. FilesOK' /\ BufferOK' /\ StampsOK' /\ OwedOK'
    BY <1>9 DEF HookVetoes, SaveAborts, Buffer
  <2> QED
    BY <2>1, <2>2, <2>3, <2>4, <2>5, <2>6 DEF IInv
<1>10. CASE WriteTemp
  <2>1. ControlOK'
    BY <1>10, <1>0 DEF WriteTemp, SaveGoesOn, Buffer, SaveLocals
  <2>2. TempOK'
    BY <1>10, <1>0 DEF WriteTemp, SaveGoesOn, Buffer, SaveLocals
  <2>3. SeenOK'
    BY <1>10, <1>0 DEF WriteTemp, SaveGoesOn, Buffer, SaveLocals
  <2>4. KnownOK'
    BY <1>10, <1>0 DEF WriteTemp, SaveGoesOn, Buffer, SaveLocals
  <2>5. GuardOK'
    BY <1>10, <1>0 DEF WriteTemp, SaveGoesOn, Buffer, SaveLocals
  <2>6. FilesOK' /\ BufferOK' /\ StampsOK' /\ OwedOK'
    BY <1>10 DEF WriteTemp, SaveGoesOn, Buffer, SaveLocals
  <2> QED
    BY <2>1, <2>2, <2>3, <2>4, <2>5, <2>6 DEF IInv
<1>11. CASE SyncTemp
  <2>1. ControlOK'
    BY <1>11, <1>0 DEF SyncTemp, SaveGoesOn, Buffer, SaveLocals
  <2>2. TempOK'
    BY <1>11, <1>0 DEF SyncTemp, SaveGoesOn, Buffer, SaveLocals
  <2>3. SeenOK'
    BY <1>11, <1>0 DEF SyncTemp, SaveGoesOn, Buffer, SaveLocals
  <2>4. KnownOK'
    BY <1>11, <1>0 DEF SyncTemp, SaveGoesOn, Buffer, SaveLocals
  <2>5. GuardOK'
    BY <1>11, <1>0 DEF SyncTemp, SaveGoesOn, Buffer, SaveLocals
  <2>6. FilesOK' /\ BufferOK' /\ StampsOK' /\ OwedOK'
    BY <1>11 DEF SyncTemp, SaveGoesOn, Buffer, SaveLocals
  <2> QED
    BY <2>1, <2>2, <2>3, <2>4, <2>5, <2>6 DEF IInv
<1>12. CASE Recheck
  <2>1. ControlOK'
    BY <1>12, <1>0 DEF Recheck, RecheckFails, SaveGoesOn, Buffer, SaveLocals
  <2>2. TempOK'
    BY <1>12, <1>0 DEF Recheck, RecheckFails, SaveGoesOn, Buffer, SaveLocals
  <2>3. SeenOK'
    BY <1>12, <1>0 DEF Recheck, RecheckFails, SaveGoesOn, Buffer, SaveLocals
  <2>4. KnownOK'
    BY <1>12, <1>0 DEF Recheck, RecheckFails, SaveGoesOn, Buffer, SaveLocals
  <2>5. GuardOK'
    BY <1>12, <1>0 DEF Recheck, RecheckFails, SaveGoesOn, Buffer, SaveLocals
  <2>6. FilesOK' /\ BufferOK' /\ StampsOK' /\ OwedOK'
    BY <1>12 DEF Recheck, RecheckFails, SaveGoesOn, Buffer, SaveLocals
  <2> QED
    BY <2>1, <2>2, <2>3, <2>4, <2>5, <2>6 DEF IInv
<1>13. CASE SaveFails
  <2>1. ControlOK'
    BY <1>13, <1>0 DEF SaveFails, SaveAborts, Buffer
  <2>2. TempOK'
    BY <1>13, <1>0 DEF SaveFails, SaveAborts, Buffer
  <2>3. SeenOK'
    BY <1>13, <1>0 DEF SaveFails, SaveAborts, Buffer
  <2>4. KnownOK'
    BY <1>13, <1>0 DEF SaveFails, SaveAborts, Buffer
  <2>5. GuardOK'
    BY <1>13, <1>0 DEF SaveFails, SaveAborts, Buffer
  <2>6. FilesOK' /\ BufferOK' /\ StampsOK' /\ OwedOK'
    BY <1>13 DEF SaveFails, SaveAborts, Buffer
  <2> QED
    BY <2>1, <2>2, <2>3, <2>4, <2>5, <2>6 DEF IInv
<1>14. CASE Rename
  <2>1. FilesOK'
    <3>1. temp.content \in Version /\ temp.synced = TRUE /\ target \in Paths
      BY <1>14 DEF Rename
    <3>2. stamps + 1 \in 1 .. MaxStamp
      BY <1>14, <1>0 DEF Rename
    <3>3. FreshFile(temp.content, temp.synced) \in WholeFile
      BY <3>1, <3>2 DEF FreshFile
    <3> HIDE DEF WholeFile
    <3> QED
      BY <1>14, <3>1, <3>3 DEF Rename, SaveLocals
  <2>2. BufferOK'
    BY <1>14, <1>0 DEF Rename, FreshFile, SaveLocals
  <2>3. ControlOK'
    BY <1>14, <1>0 DEF Rename, FreshFile, SaveLocals
  <2>4. TempOK'
    BY <1>14, <1>0 DEF Rename, FreshFile, SaveLocals
  <2>5. StampsOK'
    <3>1. stamps' = stamps + 1 /\ stamps \in Nat
      BY <1>14, <1>0 DEF Rename, FreshFile, SaveLocals
    <3>2. \A q \in Paths : /\ disk'[q] # None => disk'[q] = disk[q] \/ disk'[q].stamp = stamps'
                           /\ stable'[q] # None => stable'[q] = stable[q] \/ stable'[q].stamp = stamps'
      BY <1>14 DEF Rename, FreshFile, SaveLocals
    <3>a. \A q \in Paths : /\ disk[q] # None => disk[q].stamp \in Nat /\ disk[q].stamp <= stamps + 1
                           /\ stable[q] # None => stable[q].stamp \in Nat /\ stable[q].stamp <= stamps + 1
      BY <3>1, <1>b
    <3>3. \A q \in Paths : /\ disk'[q] # None => disk'[q].stamp <= stamps'
                           /\ stable'[q] # None => stable'[q].stamp <= stamps'
      BY <3>1, <3>2, <3>a
    <3>4. opened' # None => opened'.stamp <= stamps'
      BY <1>14, <1>0, <1>b, <3>1 DEF Rename, FreshFile, SaveLocals
    <3>5. disk_stat' # None => disk_stat' <= stamps'
      BY <1>14, <1>0, <3>1 DEF Rename, FreshFile, SaveLocals
    <3>6. seen' # None => seen' <= stamps'
      BY <1>14, <1>0, <3>1 DEF Rename, FreshFile, SaveLocals
    <3> QED
      BY <3>3, <3>4, <3>5, <3>6
  <2>6. SeenOK'
    <3>1. pc' = "dirsync" /\ target' = target /\ seen' = stamps + 1 /\ text' = text
      BY <1>14 DEF Rename, SaveLocals
    <3>2. disk'[target].content = text
      BY <1>14 DEF Rename, FreshFile
    <3> QED
      BY <3>1, <3>2, <1>0
  <2>7. KnownOK'
    BY <1>14, <1>0 DEF Rename, FreshFile, SaveLocals
  <2>8. GuardOK'
    BY <1>14, <1>0 DEF Rename, FreshFile, SaveLocals
  <2>9. OwedOK'
    BY <1>14, <1>0 DEF Rename, FreshFile, SaveLocals
  <2> QED
    BY <2>1, <2>2, <2>3, <2>4, <2>5, <2>6, <2>7, <2>8, <2>9 DEF IInv
<1>15. CASE SyncDirectory
  <2>1. FilesOK'
    BY <1>15, <1>0 DEF SyncDirectory, Buffer, SaveLocals
  <2>2. BufferOK'
    BY <1>15, <1>0 DEF SyncDirectory, Buffer, SaveLocals
  <2>3. ControlOK'
    BY <1>15, <1>0 DEF SyncDirectory, Buffer, SaveLocals
  <2>4. TempOK'
    BY <1>15, <1>0 DEF SyncDirectory, Buffer, SaveLocals
  <2>5. StampsOK'
    BY <1>15, <1>0 DEF SyncDirectory, Buffer, SaveLocals
  <2>6. SeenOK'
    BY <1>15, <1>0 DEF SyncDirectory, Buffer, SaveLocals
  <2>7. KnownOK'
    BY <1>15, <1>0 DEF SyncDirectory, Buffer, SaveLocals
  <2>8. GuardOK'
    BY <1>15, <1>0 DEF SyncDirectory, Buffer, SaveLocals
  <2>9. OwedOK'
    BY <1>15, <1>0 DEF SyncDirectory, Buffer, SaveLocals
  <2> QED
    BY <2>1, <2>2, <2>3, <2>4, <2>5, <2>6, <2>7, <2>8, <2>9 DEF IInv
<1>16. CASE SyncDirectoryFails
  <2>1. ControlOK'
    BY <1>16, <1>0 DEF SyncDirectoryFails, SaveGoesOn, Buffer, SaveLocals
  <2>2. TempOK'
    BY <1>16, <1>0 DEF SyncDirectoryFails, SaveGoesOn, Buffer, SaveLocals
  <2>3. SeenOK'
    BY <1>16, <1>0 DEF SyncDirectoryFails, SaveGoesOn, Buffer, SaveLocals
  <2>4. KnownOK'
    BY <1>16, <1>0 DEF SyncDirectoryFails, SaveGoesOn, Buffer, SaveLocals
  <2>5. GuardOK'
    BY <1>16, <1>0 DEF SyncDirectoryFails, SaveGoesOn, Buffer, SaveLocals
  <2>6. FilesOK' /\ BufferOK' /\ StampsOK' /\ OwedOK'
    BY <1>16 DEF SyncDirectoryFails, SaveGoesOn, Buffer, SaveLocals
  <2> QED
    BY <2>1, <2>2, <2>3, <2>4, <2>5, <2>6 DEF IInv
<1>17. CASE SaveDone
  <2>1. BufferOK'
    BY <1>17, <1>0 DEF SaveDone
  <2>2. ControlOK'
    BY <1>17, <1>0 DEF SaveDone
  <2>3. TempOK'
    BY <1>17, <1>0 DEF SaveDone
  <2>4. StampsOK'
    BY <1>17, <1>0 DEF SaveDone
  <2>5. SeenOK'
    BY <1>17, <1>0 DEF SaveDone
  <2>6. KnownOK'
    BY <1>17, <1>0 DEF SaveDone
  <2>7. GuardOK'
    BY <1>17, <1>0 DEF SaveDone
  <2>8. FilesOK' /\ OwedOK'
    BY <1>17 DEF SaveDone
  <2> QED
    BY <2>1, <2>2, <2>3, <2>4, <2>5, <2>6, <2>7, <2>8 DEF IInv
<1>18. CASE ProcessCrash
  <2>1. FilesOK'
    BY <1>18, <1>0 DEF ProcessCrash, EditorGone
  <2>2. BufferOK'
    <3>1. adopted' \in BOOLEAN
      BY <1>18 DEF ProcessCrash, EditorGone
    <3>2. text' \in Version /\ saved' \in Version
      BY <1>18, <1>0 DEF ProcessCrash, EditorGone
    <3>3. path' \in Paths \cup {None} /\ owed' \in [path : Paths, content : Version] \cup {None}
      BY <1>18 DEF ProcessCrash, EditorGone
    <3>4. disk_stat' \in 1 .. MaxStamp \cup {None} /\ seen' \in 1 .. MaxStamp \cup {None}
      BY <1>18 DEF ProcessCrash, EditorGone
    <3> QED
      BY <3>1, <3>2, <3>3, <3>4
  <2>3. ControlOK'
    BY <1>18, <1>0 DEF ProcessCrash, EditorGone
  <2>4. TempOK'
    BY <1>18, <1>0 DEF ProcessCrash, EditorGone
  <2>5. StampsOK'
    BY <1>18, <1>0 DEF ProcessCrash, EditorGone
  <2>6. SeenOK'
    BY <1>18, <1>0 DEF ProcessCrash, EditorGone
  <2>7. KnownOK'
    BY <1>18, <1>0 DEF ProcessCrash, EditorGone
  <2>8. GuardOK'
    BY <1>18, <1>0 DEF ProcessCrash, EditorGone
  <2>9. OwedOK'
    BY <1>18 DEF ProcessCrash, EditorGone
  <2> QED
    BY <2>1, <2>2, <2>3, <2>4, <2>5, <2>6, <2>7, <2>8, <2>9 DEF IInv
<1>19. CASE PowerLoss
  <2>1. FilesOK'
    <3>1. PICK kept \in SUBSET Paths :
              disk' = [p \in Paths |->
                         IF p \notin kept THEN stable[p]
                         ELSE IF Exists(p) /\ ~disk[p].synced
                              THEN [disk[p] EXCEPT !.content = Torn] ELSE disk[p]]
      BY <1>19, Zenon DEF PowerLoss
    <3>2. stable' = disk' /\ opened' = None
      BY <1>19 DEF PowerLoss, EditorGone
    <3> HIDE DEF WholeFile
    <3>3. ASSUME NEW p \in Paths PROVE disk'[p] \in {stable[p], disk[p]}
      <4>1. disk[p] \in WholeFile \cup {None}
        OBVIOUS
      <4>2. \A g \in WholeFile : g.synced
        BY DEF WholeFile
      <4> QED
        BY <3>1, <4>1, <4>2
    <3>4. disk' = [p \in Paths |-> disk'[p]]
      BY <3>1
    <3>5. \A p \in Paths : disk'[p] \in WholeFile \cup {None}
      BY <3>3
    <3> QED
      BY <3>2, <3>4, <3>5
  <2>2. BufferOK'
    <3>1. adopted' \in BOOLEAN
      BY <1>19 DEF PowerLoss, EditorGone
    <3>2. text' \in Version /\ saved' \in Version
      BY <1>19, <1>0 DEF PowerLoss, EditorGone
    <3>3. path' \in Paths \cup {None} /\ owed' \in [path : Paths, content : Version] \cup {None}
      BY <1>19 DEF PowerLoss, EditorGone
    <3>4. disk_stat' \in 1 .. MaxStamp \cup {None} /\ seen' \in 1 .. MaxStamp \cup {None}
      BY <1>19 DEF PowerLoss, EditorGone
    <3> QED
      BY <3>1, <3>2, <3>3, <3>4
  <2>3. ControlOK'
    BY <1>19, <1>0 DEF PowerLoss, EditorGone
  <2>4. TempOK'
    BY <1>19, <1>0 DEF PowerLoss, EditorGone
  <2>5. StampsOK'
    BY <1>19, <1>0 DEF PowerLoss, EditorGone
  <2>6. SeenOK'
    BY <1>19, <1>0 DEF PowerLoss, EditorGone
  <2>7. KnownOK'
    BY <1>19, <1>0 DEF PowerLoss, EditorGone
  <2>8. GuardOK'
    BY <1>19, <1>0 DEF PowerLoss, EditorGone
  <2>9. OwedOK'
    BY <1>19, <1>0 DEF PowerLoss, EditorGone
  <2> QED
    BY <2>1, <2>2, <2>3, <2>4, <2>5, <2>6, <2>7, <2>8, <2>9 DEF IInv
<1>20. CASE UNCHANGED save_vars
  <2>1. FilesOK'
    BY <1>20 DEF save_vars
  <2>2. BufferOK'
    BY <1>20 DEF save_vars
  <2>3. ControlOK'
    BY <1>20 DEF save_vars
  <2>4. TempOK'
    BY <1>20 DEF save_vars
  <2>5. StampsOK'
    BY <1>20 DEF save_vars
  <2>6. SeenOK'
    BY <1>20 DEF save_vars
  <2>7. KnownOK'
    BY <1>20 DEF save_vars
  <2>8. GuardOK'
    BY <1>20 DEF save_vars
  <2>9. OwedOK'
    BY <1>20 DEF save_vars
  <2> QED
    BY <2>1, <2>2, <2>3, <2>4, <2>5, <2>6, <2>7, <2>8, <2>9 DEF IInv
<1> QED
  BY <1>1, <1>2, <1>3, <1>4, <1>5, <1>6, <1>7, <1>8, <1>9, <1>10, <1>11, <1>12, <1>13, <1>14, <1>15, <1>16, <1>17, <1>18, <1>19, <1>20 DEF SaveNext

\* The program starts in a state of the invariant.
LEMMA Initial == SaveInit => IInv
<1> SUFFICES ASSUME SaveInit PROVE IInv
  OBVIOUS
<1>0. MaxVersion \in Nat /\ MaxStamp \in Nat /\ None \notin Paths /\ None \notin Nat
      /\ 1 \in Version /\ 0 \in Version /\ 1 \in 1 .. MaxStamp
  BY BoundAssumption, NoneAssumption DEF Version
<1>1. disk \in [Paths -> WholeFile \cup {None}] /\ stable = disk
  BY <1>0 DEF SaveInit, WholeFile
<1>2. FilesOK /\ TempOK /\ SeenOK /\ KnownOK /\ GuardOK /\ OwedOK
  BY <1>1 DEF SaveInit, FilesOK, TempOK, SeenOK, KnownOK, GuardOK, OwedOK
<1>3. BufferOK
  BY <1>0 DEF SaveInit, BufferOK, Empty
<1>4. ControlOK
  BY <1>0 DEF SaveInit, ControlOK
<1>5. StampsOK
  BY <1>0, <1>1 DEF SaveInit, StampsOK
<1> QED
  BY <1>2, <1>3, <1>4, <1>5 DEF IInv

LEMMA Invariance == SaveSpec => []IInv
  BY Initial, Inductive, PTL DEF SaveSpec

\* A save that is over leaves no temporary file (the unlink on every error
\* path of editor_save), and every variable has its type.
THEOREM NoTempRemains == SaveSpec => []NoTempLeft
<1>1. IInv => NoTempLeft
  <2> SUFFICES ASSUME IInv PROVE NoTempLeft
    OBVIOUS
  <2>1. WholeFile \subseteq File
    BY DEF WholeFile, File
  <2>2. disk \in [Paths -> File \cup {None}] /\ stable \in [Paths -> File \cup {None}]
    BY <2>1 DEF IInv, FilesOK
  <2>3. opened \in File \cup {None}
    BY <2>1 DEF IInv, FilesOK
  <2>4. temp \in [content : Version, synced : BOOLEAN] \cup {None}
    BY DEF IInv, TempOK, BufferOK
  <2>5. SaveTypeOK
    BY <2>2, <2>3, <2>4 DEF IInv, BufferOK, ControlOK, InSave, SaveTypeOK
  <2> QED
    BY <2>5 DEF IInv, TempOK, NoTempLeft
<1> QED
  BY <1>1, Invariance, PTL

\* After the fsync of the directory in editor_save, the version a save wrote
\* survives any loss of power until somebody writes that file again.
THEOREM SavesAreDurable == SaveSpec => []SavedIsDurable
<1>1. IInv => SavedIsDurable
  BY DEF IInv, OwedOK, SavedIsDurable
<1> QED
  BY <1>1, Invariance, PTL

\* A buffer that editor_modified calls clean, and whose file still has the
\* metadata in b->disk_stat, shows what the file holds.
THEOREM CleanBufferShowsFile == SaveSpec => []CleanShowsFile
<1>1. IInv => CleanShowsFile
  BY DEF IInv, KnownOK, CleanShowsFile, Modified
<1> QED
  BY <1>1, Invariance, PTL

\* An unforced editor_save replaces only the file the buffer came from, through
\* every interleaving of its two tests with hooks and with other programs.
THEOREM OverwritesAreGuarded == SaveSpec => NoSilentOverwrite
<1>1. IInv /\ [SaveNext]_save_vars =>
        [(RenameStep /\ ~force /\ ~raced /\ ~adopted) => StampOf(target) \in {None, seen}]_save_vars
  BY DEF IInv, GuardOK, RenameStep
<1> QED
  BY <1>1, Invariance, PTL DEF SaveSpec, NoSilentOverwrite

-----------------------------------------------------------------------------
(***************************************************************************)
(* The refinement of AtomicFile, for any one path.                         *)
(***************************************************************************)
At(p) == INSTANCE AtomicFile WITH
    buffer <- text,
    file <- ContentOf(disk[p]),
    safe <- ContentOf(stable[p])

\* What a path holds is one whole version, or no file is there.
LEMMA ContentIsWhole ==
    ASSUME IInv, NEW p \in Paths
    PROVE  /\ ContentOf(disk[p]) \in Version \cup {None}
           /\ ContentOf(stable[p]) \in Version \cup {None}
BY DEF IInv, FilesOK, WholeFile, ContentOf

LEMMA InitRefines ==
    ASSUME SaveInit, NEW p \in Paths
    PROVE  At(p)!AInit
<1>1. ContentOf(disk[p]) \in Version \cup {None}
  BY Initial, ContentIsWhole
<1>2. text \in Version
  BY Initial DEF IInv, BufferOK
<1> QED
  BY <1>1, <1>2 DEF SaveInit, At!AInit

\* Every step of SaveFile changes what the path p holds as one of AtomicFile's
\* actions does, or not at all: only Rename commits the buffer's text, only
\* SyncDirectory makes it safe, and a loss of power tears nothing.
LEMMA StepRefines ==
    ASSUME IInv, [SaveNext]_save_vars, NEW p \in Paths
    PROVE  [At(p)!ANext]_(At(p)!avars)
<1> USE DEF At!ANext, At!avars
<1>0. IInv'
  BY Inductive
<1>1. /\ ContentOf(disk[p])' \in Version \cup {None}
      /\ ContentOf(stable[p])' \in Version \cup {None}
  BY <1>0, ContentIsWhole DEF IInv, FilesOK, WholeFile, ContentOf
<1>2. text' \in Version
  BY <1>0 DEF IInv, BufferOK
<1>3. ASSUME NEW q \in Paths, NEW f, ForeignWrites(q, f) PROVE At(p)!ANext \/ UNCHANGED At(p)!avars
  <2>1. CASE q = p
    <3>1. disk'[p] = f /\ stable'[p] = f /\ text' = text
      BY <1>3, <2>1 DEF ForeignWrites, IInv, FilesOK
    <3> QED
      BY <3>1, <1>1 DEF At!Foreign, ContentOf
  <2>2. CASE q # p
    BY <1>3, <2>2 DEF ForeignWrites, ContentOf
  <2> QED
    BY <2>1, <2>2
<1>4. CASE UNCHANGED <<disk, stable>>
  BY <1>2, <1>4 DEF At!Change, ContentOf
<1>5. CASE Rename
  <2>1. CASE target = p
    <3>1. disk'[p] = FreshFile(temp.content, temp.synced) /\ UNCHANGED <<stable, text>>
      BY <1>5, <2>1 DEF Rename, IInv, FilesOK
    <3>2. temp.content = text
      BY <1>5 DEF Rename, IInv, TempOK
    <3>3. disk'[p] \in WholeFile \cup {None}
      BY <1>0 DEF IInv, FilesOK
    <3>4. FreshFile(temp.content, temp.synced) # None
      <4>1. FreshFile(temp.content, temp.synced) \in File
        <5>1. text \in Version /\ temp.synced \in BOOLEAN
          BY <1>5 DEF Rename, IInv, TempOK, BufferOK
        <5>2. stamps + 1 \in 1 .. MaxStamp
          BY <1>5, BoundAssumption DEF Rename, IInv, ControlOK
        <5> QED
          BY <5>1, <5>2, <3>2 DEF FreshFile, File
      <4> QED
        BY <4>1, NoneAssumption
    <3>5. ContentOf(disk[p])' = text
      BY <3>1, <3>2, <3>4 DEF ContentOf, FreshFile
    <3> QED
      BY <3>1, <3>5 DEF At!Commit, ContentOf
  <2>2. CASE target # p
    BY <1>5, <2>2 DEF Rename, ContentOf
  <2> QED
    BY <2>1, <2>2
<1>6. CASE SyncDirectory
  <2>1. CASE target = p
    <3>1. stable'[p] = disk[p] /\ UNCHANGED <<disk, text>>
      BY <1>6, <2>1 DEF SyncDirectory, Buffer, IInv, FilesOK
    <3> QED
      BY <3>1 DEF At!Sync, ContentOf
  <2>2. CASE target # p
    BY <1>6, <2>2 DEF SyncDirectory, Buffer, ContentOf
  <2> QED
    BY <2>1, <2>2
<1>7. CASE PowerLoss
  <2>1. disk'[p] \in {disk[p], stable[p]} /\ stable'[p] = disk'[p]
    BY <1>7 DEF PowerLoss, IInv, FilesOK, WholeFile, Exists
  <2> QED
    BY <2>1, <1>2 DEF At!Lose, ContentOf
<1>8. CASE \/ EditText \/ OpenRead \/ HookEdits \/ HookVetoes \/ WriteTemp \/ SyncTemp
           \/ Recheck \/ SaveFails \/ SyncDirectoryFails \/ SaveDone \/ ProcessCrash
           \/ UNCHANGED save_vars
           \/ \E q \in Paths : OpenStat(q) \/ \E f \in BOOLEAN : SaveStart(q, f)
  <2>1. UNCHANGED <<disk, stable>>
    BY <1>8 DEF EditText, OpenRead, HookEdits, HookVetoes, WriteTemp, SyncTemp, Recheck,
                SaveFails, SyncDirectoryFails, SaveDone, ProcessCrash, OpenStat, SaveStart,
                SaveAborts, SaveGoesOn, save_vars
  <2> QED
    BY <2>1, <1>4
<1>9. CASE \E q \in Paths : ForeignReplace(q) \/ ForeignRewrite(q) \/ ForeignRemove(q)
  <2>1. \E q \in Paths : \E f : ForeignWrites(q, f)
    BY <1>9 DEF ForeignReplace, ForeignRewrite, ForeignRemove
  <2> QED
    BY <2>1, <1>3
<1> QED
  BY <1>5, <1>6, <1>7, <1>8, <1>9 DEF SaveNext

\* Every path implements the atomic file: to a reader of that path, opening,
\* saving, failing and crashing are the five actions of AtomicFile.
THEOREM EveryPathIsAtomic ==
    ASSUME NEW p \in Paths
    PROVE  SaveSpec => At(p)!ASpec
<1>1. SaveInit => At(p)!AInit
  BY InitRefines
<1>2. IInv /\ [SaveNext]_save_vars => [At(p)!ANext]_(At(p)!avars)
  BY StepRefines
<1> QED
  BY <1>1, <1>2, Invariance, PTL DEF SaveSpec, At!ASpec

\* The same, for the two paths that the run of MCSaveFile watches: the file
\* goes from whole version to whole version, never a torn one.
THEOREM SaveFileRefines == SaveSpec => ImplementsAtomicFile
<1>1. p1 \in Paths /\ p2 \in Paths
  BY PathAssumption
<1>2. SaveInit => First!AInit /\ Second!AInit
  BY <1>1, InitRefines DEF At!AInit, First!AInit, Second!AInit
<1>3. IInv /\ [SaveNext]_save_vars => [First!ANext]_(First!avars)
  BY <1>1, StepRefines DEF At!ANext, At!avars, At!Change, At!Commit, At!Sync, At!Foreign, At!Lose,
     First!ANext, First!avars, First!Change, First!Commit, First!Sync, First!Foreign, First!Lose
<1>4. IInv /\ [SaveNext]_save_vars => [Second!ANext]_(Second!avars)
  BY <1>1, StepRefines DEF At!ANext, At!avars, At!Change, At!Commit, At!Sync, At!Foreign, At!Lose,
     Second!ANext, Second!avars, Second!Change, Second!Commit, Second!Sync, Second!Foreign, Second!Lose
<1> QED
  BY <1>2, <1>3, <1>4, Invariance, PTL DEF SaveSpec, ImplementsAtomicFile, First!ASpec, Second!ASpec

-----------------------------------------------------------------------------
(***************************************************************************)
(* Plugins: PluginHost.                                                    *)
(***************************************************************************)
Step == Event \cup {"write", "error"}

Frame ==
    [kind : {"native"}, todo : Seq(Step)] \cup [kind : {"command"}]
    \cup [kind : {"callback"}, who : Callbacks]
    \cup [kind : {"event"}, name : Event, rest : Seq(Callbacks), ok : BOOLEAN]

\* A write comes first, or after before_save, which comes first.
Ordered(todo) ==
    /\ \A k \in DOMAIN todo : todo[k] = "write" => k = 1 \/ (k = 2 /\ todo[1] = "before_save")
    /\ \A k \in DOMAIN todo : todo[k] = "before_save" => k = 1

\* What may stand on a native function is an event, and an event stands on nothing
\* else; and what a native function has left to do is in order.
Shape(s) ==
    /\ s \in Seq(Frame)
    /\ \A i \in DOMAIN s : s[i].kind = "native" /\ i # 1 => s[i-1].kind = "event"
    /\ \A i \in DOMAIN s : s[i].kind = "event" => i + 1 \in DOMAIN s /\ s[i+1].kind = "native"
    /\ \A i \in DOMAIN s : s[i].kind = "native" => Ordered(s[i].todo)

HasEvent(s) == \E i \in DOMAIN s : s[i].kind = "event"

\* There is one event at most, and while one of its callbacks runs, it is the next.
\* The function below an event of before_save is about to write, and its hooks are
\* those that passed and those still to be called; that below another is not.
EventOK(s, p, d) ==
    \A i \in DOMAIN s : s[i].kind = "event" =>
        /\ \A j \in DOMAIN s : s[j].kind = "event" => j = i
        /\ i # 1 => s[i].rest # <<>>
        /\ s[i].name = "before_save" /\ s[i].ok => p \o s[i].rest = d
        /\ s[i+1].todo # <<>> => Head(s[i+1].todo) # "before_save"
        /\ s[i].name # "before_save" /\ s[i+1].todo # <<>> => Head(s[i+1].todo) # "write"

\* Outside of events, a save that is about to call its hooks has called none, and
\* one about to write has called them all, unless one has just failed.
SaveOK(s, r, before, p, d) ==
    ~HasEvent(s) /\ s # <<>> /\ Head(s).kind = "native" /\ Head(s).todo # <<>> =>
        /\ Head(Head(s).todo) = "before_save" => d = before /\ p = <<>>
        /\ Head(Head(s).todo) = "write" /\ r # "error" => p = d

HookInv ==
    /\ Shape(stack)
    /\ hooks \in [Event -> Seq(Callbacks)]
    /\ due \in Seq(Callbacks) /\ passed \in Seq(Callbacks)
    /\ in_hook \in BOOLEAN /\ (in_hook <=> HasEvent(stack))
    /\ Returned("event") => Top.rest # <<>>
    /\ EventOK(stack, passed, due)
    /\ SaveOK(stack, result, hooks["before_save"], passed, due)
-----------------------------------------------------------------------------
(***************************************************************************)
(* What calling and returning do to a stack.                               *)
(***************************************************************************)

\* A call puts a frame on the stack.
LEMMA PushFacts ==
    ASSUME NEW s \in Seq(Frame), NEW f \in Frame, NEW t, t = <<f>> \o s
    PROVE  /\ t \in Seq(Frame) /\ DOMAIN t = 1 .. Len(s) + 1 /\ t # <<>>
           /\ t[1] = f /\ Head(t) = f
           /\ \A i \in DOMAIN s : t[i+1] = s[i]
           /\ \A i \in DOMAIN t : i # 1 => i - 1 \in DOMAIN s /\ t[i] = s[i-1]
  OBVIOUS

\* A return takes it away.
LEMMA PopFacts ==
    ASSUME NEW s \in Seq(Frame), s # <<>>, NEW t, t = Tail(s)
    PROVE  /\ t \in Seq(Frame) /\ DOMAIN t = 1 .. Len(s) - 1
           /\ \A i \in DOMAIN t : i + 1 \in DOMAIN s /\ t[i] = s[i+1]
           /\ s[1] = Head(s) /\ 1 \in DOMAIN s
           /\ t # <<>> => Head(t) = t[1] /\ 1 \in DOMAIN t
  OBVIOUS

\* A function that goes on changes its own frame.
LEMMA SwapFacts ==
    ASSUME NEW s \in Seq(Frame), s # <<>>, NEW f \in Frame, NEW t, t = <<f>> \o Tail(s)
    PROVE  /\ t \in Seq(Frame) /\ DOMAIN t = DOMAIN s /\ t # <<>>
           /\ t[1] = f /\ Head(t) = f /\ s[1] = Head(s) /\ 1 \in DOMAIN s
           /\ \A i \in DOMAIN t : i # 1 => t[i] = s[i]
  OBVIOUS

\* Any frame but an event may be put on any but a native function.
LEMMA PushOther ==
    ASSUME NEW s, Shape(s), NEW p, NEW d, EventOK(s, p, d),
           NEW f \in Frame, f.kind # "event", f.kind = "native" => Ordered(f.todo),
           s # <<>> => Head(s).kind # "native",
           s # <<>> /\ Head(s).kind = "event" => Head(s).rest # <<>>,
           NEW t, t = <<f>> \o s
    PROVE  Shape(t) /\ (HasEvent(t) <=> HasEvent(s)) /\ EventOK(t, p, d) /\ Head(t) = f
<1>1. /\ s \in Seq(Frame) /\ DOMAIN s = 1 .. Len(s) /\ Len(s) \in Nat
      /\ s # <<>> => Head(s) = s[1] /\ 1 \in DOMAIN s
  BY DEF Shape
<1>2. /\ t \in Seq(Frame) /\ DOMAIN t = 1 .. Len(s) + 1
      /\ t[1] = f /\ Head(t) = f
      /\ \A i \in DOMAIN s : t[i+1] = s[i]
  BY <1>1, PushFacts
<1>3. ASSUME NEW i \in DOMAIN t, i # 1
      PROVE  \E k \in DOMAIN s : i = k + 1 /\ t[i] = s[k]
  <2>1. i - 1 \in DOMAIN s /\ i = (i - 1) + 1
    BY <1>1, <1>2, <1>3
  <2> QED
    BY <2>1, <1>2
<1>4. ASSUME NEW i \in DOMAIN t, t[i].kind = "event"
      PROVE  \E k \in DOMAIN s : /\ i = k + 1 /\ t[i] = s[k]
                                /\ k + 1 \in DOMAIN s /\ t[i+1] = s[k+1]
                                /\ s[k].kind = "event" /\ s[k+1].kind = "native"
  <2>1. PICK k \in DOMAIN s : i = k + 1 /\ t[i] = s[k]
    BY <1>2, <1>3, <1>4
  <2>2. k + 1 \in DOMAIN s /\ s[k+1].kind = "native"
    BY <1>4, <2>1 DEF Shape
  <2> QED
    BY <1>2, <1>4, <2>1, <2>2
<1>5. Shape(t)
  <2>1. ASSUME NEW i \in DOMAIN t, t[i].kind = "native", i # 1 PROVE t[i-1].kind = "event"
    <3>1. PICK k \in DOMAIN s : i = k + 1 /\ t[i] = s[k]
      BY <1>3, <2>1
    <3>2. k # 1
      BY <1>1, <2>1, <3>1
    <3>3. k - 1 \in DOMAIN s /\ s[k-1].kind = "event"
      BY <1>1, <2>1, <3>1, <3>2 DEF Shape
    <3>4. t[(k-1)+1] = s[k-1] /\ (k - 1) + 1 = i - 1
      BY <1>1, <1>2, <3>1, <3>3
    <3> QED
      BY <3>3, <3>4
  <2>2. ASSUME NEW i \in DOMAIN t, t[i].kind = "event"
        PROVE  i + 1 \in DOMAIN t /\ t[i+1].kind = "native"
    BY <1>1, <1>2, <1>4, <2>2
  <2>3. ASSUME NEW i \in DOMAIN t, t[i].kind = "native" PROVE Ordered(t[i].todo)
    BY <1>2, <1>3, <2>3 DEF Shape
  <2> QED
    BY <1>2, <2>1, <2>2, <2>3 DEF Shape
<1>6. HasEvent(t) <=> HasEvent(s)
  <2>1. ASSUME NEW k \in DOMAIN s, s[k].kind = "event"
        PROVE  k + 1 \in DOMAIN t /\ t[k+1].kind = "event"
    BY <1>1, <1>2, <2>1
  <2>2. HasEvent(s) => HasEvent(t)
    BY <2>1 DEF HasEvent
  <2>3. HasEvent(t) => HasEvent(s)
    BY <1>4 DEF HasEvent
  <2> QED
    BY <2>2, <2>3
<1>7. EventOK(t, p, d)
  <2> SUFFICES ASSUME NEW i \in DOMAIN t, t[i].kind = "event"
               PROVE  /\ \A j \in DOMAIN t : t[j].kind = "event" => j = i
                      /\ i # 1 => t[i].rest # <<>>
                      /\ t[i].name = "before_save" /\ t[i].ok => p \o t[i].rest = d
                      /\ t[i+1].todo # <<>> => Head(t[i+1].todo) # "before_save"
                      /\ t[i].name # "before_save" /\ t[i+1].todo # <<>> => Head(t[i+1].todo) # "write"
    BY DEF EventOK
  <2>1. PICK k \in DOMAIN s : /\ i = k + 1 /\ t[i] = s[k] /\ t[i+1] = s[k+1] /\ s[k].kind = "event"
    BY <1>4
  <2>2. ASSUME NEW j \in DOMAIN t, t[j].kind = "event" PROVE j = i
    <3>1. PICK l \in DOMAIN s : j = l + 1 /\ s[l].kind = "event"
      BY <1>4, <2>2
    <3> QED
      BY <2>1, <3>1 DEF EventOK
  <2>3. t[i].rest # <<>>
    <3>1. CASE k = 1
      BY <1>1, <2>1, <3>1
    <3>2. CASE k # 1
      BY <2>1, <3>2 DEF EventOK
    <3> QED
      BY <3>1, <3>2
  <2>4. /\ t[i].name = "before_save" /\ t[i].ok => p \o t[i].rest = d
        /\ t[i+1].todo # <<>> => Head(t[i+1].todo) # "before_save"
        /\ t[i].name # "before_save" /\ t[i+1].todo # <<>> => Head(t[i+1].todo) # "write"
    BY <2>1 DEF EventOK
  <2> QED
    BY <2>2, <2>3, <2>4
<1> QED
  BY <1>2, <1>5, <1>6, <1>7

\* An event may be put on a native function, outside of all other events.
LEMMA PushEvent ==
    ASSUME NEW s, Shape(s), s # <<>>, Head(s).kind = "native", ~HasEvent(s),
           NEW p, NEW d,
           NEW f \in Frame, f.kind = "event",
           f.name = "before_save" /\ f.ok => p \o f.rest = d,
           Head(s).todo # <<>> =>
               /\ Head(Head(s).todo) # "before_save"
               /\ f.name # "before_save" => Head(Head(s).todo) # "write",
           NEW t, t = <<f>> \o s
    PROVE  Shape(t) /\ HasEvent(t) /\ EventOK(t, p, d) /\ Head(t) = f
<1>1. /\ s \in Seq(Frame) /\ DOMAIN s = 1 .. Len(s) /\ Len(s) \in Nat
      /\ Head(s) = s[1] /\ 1 \in DOMAIN s
  BY DEF Shape
<1>2. /\ t \in Seq(Frame) /\ DOMAIN t = 1 .. Len(s) + 1
      /\ t[1] = f /\ Head(t) = f /\ 1 \in DOMAIN t
      /\ \A i \in DOMAIN s : t[i+1] = s[i]
  BY <1>1, PushFacts
<1>3. ASSUME NEW i \in DOMAIN t, i # 1
      PROVE  \E k \in DOMAIN s : i = k + 1 /\ t[i] = s[k]
  <2>1. i - 1 \in DOMAIN s /\ i = (i - 1) + 1
    BY <1>1, <1>2, <1>3
  <2> QED
    BY <2>1, <1>2
<1>4. ASSUME NEW i \in DOMAIN t, t[i].kind = "event" PROVE i = 1
  BY <1>3, <1>4 DEF HasEvent
<1>5. t[1+1] = s[1]
  BY <1>1, <1>2
<1>6. Shape(t)
  <2>1. ASSUME NEW i \in DOMAIN t, t[i].kind = "native", i # 1 PROVE t[i-1].kind = "event"
    <3>1. PICK k \in DOMAIN s : i = k + 1 /\ t[i] = s[k]
      BY <1>3, <2>1
    <3>2. CASE k = 1
      BY <1>2, <3>1, <3>2
    <3>3. CASE k # 1
      <4>1. k - 1 \in DOMAIN s /\ s[k-1].kind = "event"
        BY <1>1, <2>1, <3>1, <3>3 DEF Shape
      <4> QED
        BY <4>1 DEF HasEvent
    <3> QED
      BY <3>2, <3>3
  <2>2. ASSUME NEW i \in DOMAIN t, t[i].kind = "event"
        PROVE  i + 1 \in DOMAIN t /\ t[i+1].kind = "native"
    <3>1. i = 1
      BY <1>4, <2>2
    <3>2. 1 + 1 \in DOMAIN t /\ t[1+1].kind = "native"
      BY <1>1, <1>2, <1>5
    <3> QED
      BY <3>1, <3>2
  <2>3. ASSUME NEW i \in DOMAIN t, t[i].kind = "native" PROVE Ordered(t[i].todo)
    BY <1>2, <1>3, <2>3 DEF Shape
  <2> QED
    BY <1>2, <2>1, <2>2, <2>3 DEF Shape
<1>7. HasEvent(t)
  BY <1>2 DEF HasEvent
<1>8. EventOK(t, p, d)
  BY <1>1, <1>2, <1>4, <1>5, ZenonT(60) DEF EventOK
<1> QED
  BY <1>2, <1>6, <1>7, <1>8

\* Whatever returns but an event returns to something that is no native function.
LEMMA PopOther ==
    ASSUME NEW s, Shape(s), s # <<>>, Head(s).kind # "event",
           NEW p, NEW d, EventOK(s, p, d),
           NEW t, t = Tail(s)
    PROVE  /\ Shape(t) /\ (HasEvent(t) <=> HasEvent(s)) /\ EventOK(t, p, d)
           /\ t # <<>> => Head(t).kind # "native"
           /\ t # <<>> /\ Head(t).kind = "event" => Head(t).rest # <<>>
<1>1. /\ s \in Seq(Frame) /\ DOMAIN s = 1 .. Len(s) /\ Len(s) \in Nat
  BY DEF Shape
<1>2. /\ t \in Seq(Frame) /\ DOMAIN t = 1 .. Len(s) - 1
      /\ \A i \in DOMAIN t : i + 1 \in DOMAIN s /\ t[i] = s[i+1]
      /\ s[1] = Head(s) /\ 1 \in DOMAIN s
      /\ t # <<>> => Head(t) = t[1] /\ 1 \in DOMAIN t
  BY <1>1, PopFacts
<1>3. 2 \in DOMAIN s => s[2].kind # "native"
  <2>1. 2 \in DOMAIN s /\ s[2].kind = "native" => s[2-1].kind = "event"
    BY SMTT(60) DEF Shape
  <2> QED
    BY <1>2, <2>1
<1>4. ASSUME NEW k \in DOMAIN s, s[k].kind = "event"
      PROVE  \E i \in DOMAIN t : k = i + 1 /\ t[i] = s[k] /\ i + 1 \in DOMAIN t /\ t[i+1] = s[k+1]
  <2>1. k # 1 /\ k + 1 \in DOMAIN s
    BY <1>2, <1>4 DEF Shape
  <2>2. k - 1 \in DOMAIN t /\ (k - 1) + 1 = k /\ (k - 1) + 1 \in DOMAIN t
    BY <1>1, <1>2, <2>1
  <2>3. t[k-1] = s[(k-1)+1] /\ t[(k-1)+1] = s[((k-1)+1)+1] /\ ((k-1)+1)+1 = k + 1
    BY <1>1, <1>2, <2>2
  <2> QED
    BY <2>2, <2>3
<1>5. Shape(t)
  <2>1. ASSUME NEW i \in DOMAIN t, t[i].kind = "native", i # 1 PROVE t[i-1].kind = "event"
    <3>1. i + 1 \in DOMAIN s /\ s[i+1].kind = "native" /\ i + 1 # 1 /\ (i + 1) - 1 = i
      BY <1>2, <2>1
    <3>2. s[i].kind = "event"
      BY <3>1 DEF Shape
    <3>3. i - 1 \in DOMAIN t /\ (i - 1) + 1 = i
      BY <1>1, <1>2, <2>1
    <3> QED
      BY <1>2, <3>2, <3>3
  <2>2. ASSUME NEW i \in DOMAIN t, t[i].kind = "event"
        PROVE  i + 1 \in DOMAIN t /\ t[i+1].kind = "native"
    <3>1. i + 1 \in DOMAIN s /\ s[i+1].kind = "event"
      BY <1>2, <2>2
    <3>2. (i + 1) + 1 \in DOMAIN s /\ s[(i+1)+1].kind = "native"
      BY <3>1 DEF Shape
    <3>3. i + 1 \in DOMAIN t
      BY <1>1, <1>2, <3>2
    <3> QED
      BY <1>2, <3>2, <3>3
  <2>3. ASSUME NEW i \in DOMAIN t, t[i].kind = "native" PROVE Ordered(t[i].todo)
    BY <1>2, <2>3 DEF Shape
  <2> QED
    BY <1>2, <2>1, <2>2, <2>3 DEF Shape
<1>6. HasEvent(t) <=> HasEvent(s)
  <2>1. HasEvent(t) => HasEvent(s)
    BY <1>2 DEF HasEvent
  <2>2. HasEvent(s) => HasEvent(t)
    BY <1>4 DEF HasEvent
  <2> QED
    BY <2>1, <2>2
<1>7. EventOK(t, p, d)
  <2> SUFFICES ASSUME NEW i \in DOMAIN t, t[i].kind = "event"
               PROVE  /\ \A j \in DOMAIN t : t[j].kind = "event" => j = i
                      /\ i # 1 => t[i].rest # <<>>
                      /\ t[i].name = "before_save" /\ t[i].ok => p \o t[i].rest = d
                      /\ t[i+1].todo # <<>> => Head(t[i+1].todo) # "before_save"
                      /\ t[i].name # "before_save" /\ t[i+1].todo # <<>> => Head(t[i+1].todo) # "write"
    BY DEF EventOK
  <2>1. i + 1 \in DOMAIN s /\ t[i] = s[i+1] /\ s[i+1].kind = "event"
    BY <1>2
  <2>2. t[i+1] = s[(i+1)+1]
    <3>1. PICK j \in DOMAIN t : i + 1 = j + 1 /\ t[j+1] = s[(i+1)+1]
      BY <1>4, <2>1
    <3>2. j = i
      BY <1>2, <3>1
    <3> QED
      BY <3>1, <3>2
  <2>3. ASSUME NEW j \in DOMAIN t, t[j].kind = "event" PROVE j = i
    <3>1. j + 1 \in DOMAIN s /\ s[j+1].kind = "event"
      BY <1>2, <2>3
    <3>2. j + 1 = i + 1
      BY <2>1, <3>1 DEF EventOK
    <3> QED
      BY <1>2, <3>2
  <2>4. t[i].rest # <<>>
    <3>1. i + 1 # 1
      BY <1>2
    <3> QED
      BY <2>1, <3>1 DEF EventOK
  <2>5. /\ t[i].name = "before_save" /\ t[i].ok => p \o t[i].rest = d
        /\ t[i+1].todo # <<>> => Head(t[i+1].todo) # "before_save"
        /\ t[i].name # "before_save" /\ t[i+1].todo # <<>> => Head(t[i+1].todo) # "write"
    BY <2>1, <2>2 DEF EventOK
  <2> QED
    BY <2>3, <2>4, <2>5
<1>8. t # <<>> => Head(t).kind # "native"
  BY <1>2, <1>3
<1>9. t # <<>> /\ Head(t).kind = "event" => Head(t).rest # <<>>
  <2> SUFFICES ASSUME t # <<>>, Head(t).kind = "event" PROVE Head(t).rest # <<>>
    OBVIOUS
  <2>1. 1 + 1 \in DOMAIN s /\ Head(t) = s[1+1] /\ s[1+1].kind = "event" /\ 1 + 1 # 1
    BY <1>2
  <2> QED
    BY <2>1 DEF EventOK
<1> QED
  BY <1>5, <1>6, <1>7, <1>8, <1>9

\* An event returns to the native function below it, outside of all events.
LEMMA PopEvent ==
    ASSUME NEW s, Shape(s), s # <<>>, Head(s).kind = "event",
           NEW p, NEW d, EventOK(s, p, d),
           NEW t, t = Tail(s)
    PROVE  /\ Shape(t) /\ ~HasEvent(t) /\ t # <<>>
           /\ Head(t).todo # <<>> => Head(Head(t).todo) # "before_save"
           /\ Head(s).name # "before_save" /\ Head(t).todo # <<>> => Head(Head(t).todo) # "write"
           /\ Head(s).name = "before_save" /\ Head(s).ok => p \o Head(s).rest = d
<1>1. /\ s \in Seq(Frame) /\ DOMAIN s = 1 .. Len(s) /\ Len(s) \in Nat
  BY DEF Shape
<1>2. /\ t \in Seq(Frame) /\ DOMAIN t = 1 .. Len(s) - 1
      /\ \A i \in DOMAIN t : i + 1 \in DOMAIN s /\ t[i] = s[i+1]
      /\ s[1] = Head(s) /\ 1 \in DOMAIN s
      /\ t # <<>> => Head(t) = t[1] /\ 1 \in DOMAIN t
  BY <1>1, PopFacts
<1>3. 1 + 1 \in DOMAIN s
  <2>1. s[1].kind = "event" /\ 1 \in DOMAIN s
    BY <1>2
  <2> QED
    BY <2>1 DEF Shape
<1>4. 1 \in DOMAIN t /\ t # <<>>
  <2>1. 1 \in 1 .. Len(s) - 1
    BY <1>1, <1>3
  <2>2. DOMAIN t = 1 .. Len(s) - 1
    BY <1>2
  <2>3. 1 \in DOMAIN t
    BY <2>1, <2>2, Zenon
  <2> QED
    BY <2>3
<1>5. Head(t) = s[1+1]
  BY <1>2, <1>4
<1>6. \A j \in DOMAIN s : s[j].kind = "event" => j = 1
  BY <1>2 DEF EventOK
<1>7. ASSUME NEW i \in DOMAIN t PROVE t[i].kind # "event"
  <2>1. i + 1 \in DOMAIN s /\ t[i] = s[i+1] /\ i + 1 # 1
    BY <1>2
  <2> QED
    BY <1>6, <2>1
<1>8. Shape(t)
  <2>1. ASSUME NEW i \in DOMAIN t, t[i].kind = "native", i # 1 PROVE FALSE
    <3>1. i + 1 \in DOMAIN s /\ s[i+1].kind = "native" /\ i + 1 # 1 /\ (i + 1) - 1 = i
      BY <1>2, <2>1
    <3>2. s[i].kind = "event" /\ i \in DOMAIN s
      BY <1>1, <1>2, <3>1 DEF Shape
    <3> QED
      BY <1>6, <2>1, <3>2
  <2>2. ASSUME NEW i \in DOMAIN t, t[i].kind = "native" PROVE Ordered(t[i].todo)
    BY <1>2, <2>2 DEF Shape
  <2> QED
    BY <1>2, <1>7, <2>1, <2>2 DEF Shape
<1>9. ~HasEvent(t)
  BY <1>7 DEF HasEvent
<1> QED
  BY <1>2, <1>4, <1>5, <1>8, <1>9 DEF EventOK

\* A function that goes on leaves the stack in shape.
LEMMA SwapNative ==
    ASSUME NEW s, Shape(s), s # <<>>, Head(s).kind = "native",
           NEW p, NEW d, EventOK(s, p, d),
           NEW f \in Frame, f.kind = "native", Ordered(f.todo),
           NEW t, t = <<f>> \o Tail(s)
    PROVE  /\ Shape(t) /\ (HasEvent(t) <=> HasEvent(s)) /\ EventOK(t, p, d)
           /\ Head(t) = f /\ t # <<>>
<1>1. s \in Seq(Frame)
  BY DEF Shape
<1>2. /\ t \in Seq(Frame) /\ DOMAIN t = DOMAIN s /\ t # <<>>
      /\ t[1] = f /\ Head(t) = f /\ s[1] = Head(s) /\ 1 \in DOMAIN s
      /\ \A i \in DOMAIN t : i # 1 => t[i] = s[i]
  BY <1>1, SwapFacts
<1>3. \A i \in DOMAIN t : t[i].kind = s[i].kind
  BY <1>2
<1>4. \A i \in DOMAIN t : t[i].kind = "event" => t[i] = s[i] /\ i + 1 # 1 /\ i + 1 \in DOMAIN t
  BY <1>1, <1>2, <1>3, SMTT(60) DEF Shape
<1>5. Shape(t)
  <2>1. ASSUME NEW i \in DOMAIN t, t[i].kind = "native", i # 1 PROVE t[i-1].kind = "event"
    <3>1. s[i-1].kind = "event"
      BY <1>2, <1>3, <2>1 DEF Shape
    <3>2. i - 1 \in DOMAIN t
      BY <1>1, <1>2, <2>1
    <3> QED
      BY <1>3, <3>1, <3>2
  <2>2. ASSUME NEW i \in DOMAIN t, t[i].kind = "event"
        PROVE  i + 1 \in DOMAIN t /\ t[i+1].kind = "native"
    <3>1. i \in DOMAIN s /\ s[i].kind = "event"
      BY <1>2, <1>3, <2>2
    <3>2. i + 1 \in DOMAIN s /\ s[i+1].kind = "native"
      BY <3>1 DEF Shape
    <3> QED
      BY <1>2, <1>3, <3>2
  <2>3. ASSUME NEW i \in DOMAIN t, t[i].kind = "native" PROVE Ordered(t[i].todo)
    BY <1>2, <1>3, <2>3 DEF Shape
  <2> QED
    BY <1>2, <2>1, <2>2, <2>3 DEF Shape
<1>6. HasEvent(t) <=> HasEvent(s)
  BY <1>2, <1>3 DEF HasEvent
<1>7. EventOK(t, p, d)
  <2> SUFFICES ASSUME NEW i \in DOMAIN t, t[i].kind = "event"
               PROVE  /\ \A j \in DOMAIN t : t[j].kind = "event" => j = i
                      /\ i # 1 => t[i].rest # <<>>
                      /\ t[i].name = "before_save" /\ t[i].ok => p \o t[i].rest = d
                      /\ t[i+1].todo # <<>> => Head(t[i+1].todo) # "before_save"
                      /\ t[i].name # "before_save" /\ t[i+1].todo # <<>> => Head(t[i+1].todo) # "write"
    BY DEF EventOK
  <2>1. t[i] = s[i] /\ i + 1 \in DOMAIN t /\ i + 1 # 1 /\ t[i+1] = s[i+1]
    BY <1>2, <1>4
  <2> QED
    BY <1>2, <1>3, <2>1, SMTT(60) DEF EventOK
<1> QED
  BY <1>2, <1>5, <1>6, <1>7

\* An event goes on with the callbacks left.
LEMMA SwapEvent ==
    ASSUME NEW s, Shape(s), s # <<>>, Head(s).kind = "event",
           NEW p, NEW d, EventOK(s, p, d),
           NEW f \in Frame, f.kind = "event", f.name = Head(s).name,
           NEW q, f.name = "before_save" /\ f.ok => q \o f.rest = d,
           NEW t, t = <<f>> \o Tail(s)
    PROVE  Shape(t) /\ HasEvent(t) /\ EventOK(t, q, d) /\ Head(t) = f
<1>1. s \in Seq(Frame)
  BY DEF Shape
<1>2. /\ t \in Seq(Frame) /\ DOMAIN t = DOMAIN s /\ t # <<>>
      /\ t[1] = f /\ Head(t) = f /\ s[1] = Head(s) /\ 1 \in DOMAIN s
      /\ \A i \in DOMAIN t : i # 1 => t[i] = s[i]
  BY <1>1, SwapFacts
<1>3. \A i \in DOMAIN t : t[i].kind = s[i].kind
  BY <1>2
<1>4. \A i \in DOMAIN t : t[i].kind = "event" => i = 1
  BY <1>2, <1>3 DEF EventOK
<1>5. 1 + 1 \in DOMAIN t /\ s[1+1].kind = "native"
  <2>1. s[1].kind = "event" /\ 1 \in DOMAIN s
    BY <1>2
  <2> QED
    BY <1>2, <2>1 DEF Shape
<1>6. t[1+1] = s[1+1]
  BY <1>2, <1>5
<1>7. Shape(t)
  <2>1. ASSUME NEW i \in DOMAIN t, t[i].kind = "native", i # 1 PROVE t[i-1].kind = "event"
    <3>1. s[i-1].kind = "event"
      BY <1>2, <1>3, <2>1 DEF Shape
    <3>2. i - 1 \in DOMAIN t
      BY <1>1, <1>2, <2>1
    <3> QED
      BY <1>3, <3>1, <3>2
  <2>2. ASSUME NEW i \in DOMAIN t, t[i].kind = "event"
        PROVE  i + 1 \in DOMAIN t /\ t[i+1].kind = "native"
    <3>1. i = 1
      BY <1>4, <2>2
    <3> QED
      BY <1>5, <1>6, <3>1
  <2>3. ASSUME NEW i \in DOMAIN t, t[i].kind = "native" PROVE Ordered(t[i].todo)
    <3>1. i # 1
      BY <1>2, <2>3
    <3> QED
      BY <1>2, <1>3, <2>3, <3>1 DEF Shape
  <2> QED
    BY <1>2, <2>1, <2>2, <2>3 DEF Shape
<1>8. HasEvent(t)
  BY <1>2 DEF HasEvent
<1>9. EventOK(t, q, d)
  <2> SUFFICES ASSUME NEW i \in DOMAIN t, t[i].kind = "event"
               PROVE  /\ \A j \in DOMAIN t : t[j].kind = "event" => j = i
                      /\ i # 1 => t[i].rest # <<>>
                      /\ t[i].name = "before_save" /\ t[i].ok => q \o t[i].rest = d
                      /\ t[i+1].todo # <<>> => Head(t[i+1].todo) # "before_save"
                      /\ t[i].name # "before_save" /\ t[i+1].todo # <<>> => Head(t[i+1].todo) # "write"
    BY DEF EventOK
  <2>1. i = 1
    BY <1>4
  <2>2. /\ s[1+1].todo # <<>> => Head(s[1+1].todo) # "before_save"
        /\ s[1].name # "before_save" /\ s[1+1].todo # <<>> => Head(s[1+1].todo) # "write"
    BY <1>2 DEF EventOK
  <2> QED
    BY <1>2, <1>4, <1>6, <2>1, <2>2
<1> QED
  BY <1>2, <1>7, <1>8, <1>9

-----------------------------------------------------------------------------
(***************************************************************************)
(* The frames that are put on the stack.                                   *)
(***************************************************************************)

\* Native functions, commands and callbacks are frames.
LEMMA FramesMade ==
    /\ \A todo \in Seq(Step) : Native(todo) \in Frame /\ Native(todo).kind = "native" /\ Native(todo).todo = todo
    /\ Command \in Frame /\ Command.kind = "command"
    /\ \A c \in Callbacks : Callback(c) \in Frame /\ Callback(c).kind = "callback"
    /\ \A name \in Event, list \in Seq(Callbacks) :
          LET f == Dispatch(name, list)
          IN  f \in Frame /\ f.kind = "event" /\ f.name = name /\ f.rest = list /\ f.ok
  BY DEF Native, Command, Callback, Dispatch, Frame, Step

\* A hook that passes moves from those to be called to those that passed.
LEMMA AppendOn ==
    ASSUME NEW S, NEW p \in Seq(S), NEW q \in Seq(S), q # <<>>
    PROVE  Append(p, Head(q)) \o Tail(q) = p \o q
  OBVIOUS

\* A frame is of its kind.
LEMMA FrameKinds ==
    ASSUME NEW f \in Frame
    PROVE  /\ f.kind = "native" => f.todo \in Seq(Step) /\ f = Native(f.todo)
                                   /\ \A todo \in Seq(Step) : [f EXCEPT !.todo = todo] = Native(todo)
           /\ f.kind = "event" => /\ f.name \in Event /\ f.rest \in Seq(Callbacks) /\ f.ok \in BOOLEAN
                                  /\ \A r \in Seq(Callbacks), b \in BOOLEAN :
                                        LET g == [f EXCEPT !.ok = b, !.rest = r]
                                        IN  /\ g \in Frame /\ g.kind = "event" /\ g.name = f.name
                                            /\ g.rest = r /\ g.ok = b
<1>1. CASE f.kind = "native"
  <2>1. f \in [kind : {"native"}, todo : Seq(Step)]
    BY <1>1 DEF Frame
  <2> QED
    BY <1>1, <2>1 DEF Native
<1>2. CASE f.kind = "event"
  <2>1. f \in [kind : {"event"}, name : Event, rest : Seq(Callbacks), ok : BOOLEAN]
    BY <1>2 DEF Frame
  <2>2. ASSUME NEW r \in Seq(Callbacks), NEW b \in BOOLEAN, NEW g, g = [f EXCEPT !.ok = b, !.rest = r]
        PROVE  /\ g \in Frame /\ g.kind = "event" /\ g.name = f.name
               /\ g.rest = r /\ g.ok = b
    <3>1. g \in [kind : {"event"}, name : Event, rest : Seq(Callbacks), ok : BOOLEAN]
      BY <2>1, <2>2
    <3> QED
      BY <1>2, <2>1, <2>2, <3>1 DEF Frame
  <2> QED
    BY <1>2, <2>1, <2>2
<1> QED
  BY <1>1, <1>2

\* What is left of an ordered list is ordered, and before_save and the write do
\* not follow anything but before_save.
LEMMA OrderedTail ==
    ASSUME NEW todo \in Seq(Step), Ordered(todo), todo # <<>>
    PROVE  /\ Tail(todo) \in Seq(Step) /\ Ordered(Tail(todo))
           /\ Tail(todo) # <<>> => Head(Tail(todo)) # "before_save"
           /\ Tail(todo) # <<>> /\ Head(todo) # "before_save" => Head(Tail(todo)) # "write"
<1>1. /\ Tail(todo) \in Seq(Step) /\ DOMAIN Tail(todo) = 1 .. Len(todo) - 1
      /\ \A k \in DOMAIN Tail(todo) : k + 1 \in DOMAIN todo /\ Tail(todo)[k] = todo[k+1]
      /\ Head(todo) = todo[1]
      /\ Tail(todo) # <<>> => Head(Tail(todo)) = Tail(todo)[1] /\ 1 \in DOMAIN Tail(todo)
  OBVIOUS
<1>2. ASSUME NEW k \in DOMAIN Tail(todo)
      PROVE  /\ Tail(todo)[k] # "before_save"
             /\ Tail(todo)[k] = "write" => k = 1 /\ Head(todo) = "before_save"
  <2>1. k + 1 \in DOMAIN todo /\ Tail(todo)[k] = todo[k+1] /\ k + 1 # 1 /\ (k + 1 = 2 => k = 1)
    BY <1>1
  <2> QED
    BY <1>1, <2>1 DEF Ordered
<1>3. Ordered(Tail(todo))
  BY <1>2 DEF Ordered
<1> QED
  BY <1>1, <1>2, <1>3

\* The lists that operations begin with are ordered.
LEMMA OrderedLists ==
    /\ \A x \in Step \ {"write"} : <<x>> \in Seq(Step) /\ Ordered(<<x>>)
    /\ LET todo == <<"before_save", "write", "after_open", "after_save">>
       IN  todo \in Seq(Step) /\ Ordered(todo) /\ Head(todo) = "before_save"
    /\ LET todo == <<"before_save", "write", "after_save">>
       IN  todo \in Seq(Step) /\ Ordered(todo) /\ Head(todo) = "before_save"
<1>1. ASSUME NEW x \in Step \ {"write"} PROVE <<x>> \in Seq(Step) /\ Ordered(<<x>>)
  BY DEF Ordered
<1>2. ASSUME NEW todo, todo = <<"before_save", "write", "after_open", "after_save">>
      PROVE  todo \in Seq(Step) /\ Ordered(todo) /\ Head(todo) = "before_save"
  <2>1. todo \in Seq(Step) /\ DOMAIN todo = 1 .. 4 /\ Head(todo) = "before_save"
    BY <1>2 DEF Step, Event
  <2>2. /\ todo[1] = "before_save" /\ todo[2] = "write"
        /\ todo[3] = "after_open" /\ todo[4] = "after_save"
    BY <1>2
  <2>3. \A k \in 1 .. 4 : k = 1 \/ k = 2 \/ k = 3 \/ k = 4
    OBVIOUS
  <2> QED
    BY <2>1, <2>2, <2>3 DEF Ordered
<1>3. ASSUME NEW todo, todo = <<"before_save", "write", "after_save">>
      PROVE  todo \in Seq(Step) /\ Ordered(todo) /\ Head(todo) = "before_save"
  <2>1. todo \in Seq(Step) /\ DOMAIN todo = 1 .. 3 /\ Head(todo) = "before_save"
    BY <1>3 DEF Step, Event
  <2>2. todo[1] = "before_save" /\ todo[2] = "write" /\ todo[3] = "after_save"
    BY <1>3
  <2>3. \A k \in 1 .. 3 : k = 1 \/ k = 2 \/ k = 3
    OBVIOUS
  <2> QED
    BY <2>1, <2>2, <2>3 DEF Ordered
<1> QED
  BY <1>1, <1>2, <1>3

-----------------------------------------------------------------------------
(***************************************************************************)
(* The invariant.                                                          *)
(***************************************************************************)

\* A call by a client, by Python or by a command, that makes no difference to the
\* hooks of a save, keeps the invariant.
LEMMA CallStep ==
    ASSUME HookInv, NEW f \in Frame, f.kind # "event", f.kind = "native" => Ordered(f.todo),
           stack # <<>> => Head(stack).kind # "native",
           stack # <<>> /\ Head(stack).kind = "event" => Head(stack).rest # <<>>,
           f.kind = "native" /\ f.todo # <<>> => Head(f.todo) \notin {"before_save", "write"},
           Call(f), UNCHANGED <<hooks, in_hook, due, passed>>
    PROVE  HookInv'
<1>1. stack' = <<f>> \o stack /\ result' = "none"
  BY DEF Call
<1>2. Shape(stack') /\ (HasEvent(stack') <=> HasEvent(stack)) /\ EventOK(stack', passed, due) /\ Head(stack') = f
  BY <1>1, PushOther DEF HookInv
<1>3. SaveOK(stack', "none", hooks["before_save"], passed, due)
  BY <1>2 DEF SaveOK
<1> QED
  BY <1>1, <1>2, <1>3 DEF HookInv, Returned

\* So does the return of anything but an event.
LEMMA ReturnStep ==
    ASSUME HookInv, stack # <<>>, Head(stack).kind # "event", NEW r, Return(r),
           UNCHANGED <<hooks, in_hook, due, passed>>
    PROVE  HookInv'
<1>1. stack' = Tail(stack) /\ result' = r
  BY DEF Return
<1>2. /\ Shape(stack') /\ (HasEvent(stack') <=> HasEvent(stack)) /\ EventOK(stack', passed, due)
      /\ stack' # <<>> => Head(stack').kind # "native"
      /\ stack' # <<>> /\ Head(stack').kind = "event" => Head(stack').rest # <<>>
  BY <1>1, PopOther DEF HookInv
<1>3. SaveOK(stack', r, hooks["before_save"], passed, due)
  BY <1>2 DEF SaveOK
<1> QED
  BY <1>1, <1>2, <1>3 DEF HookInv, Returned, Top

\* So does a native function that goes on when there is no event to dispatch, or
\* that has written its file.
LEMMA GoesOnStep ==
    ASSUME HookInv, stack # <<>>, Head(stack).kind = "native", Head(stack).todo # <<>>,
           result = "none",
           Head(Head(stack).todo) = "before_save" /\ ~HasEvent(stack) => hooks["before_save"] = <<>>,
           stack' = <<[Head(stack) EXCEPT !.todo = Tail(@)]>> \o Tail(stack),
           UNCHANGED <<result, hooks, in_hook, due, passed>>
    PROVE  HookInv'
<1> DEFINE todo == Head(stack).todo
<1>1. Head(stack) \in Frame /\ Ordered(todo)
  BY DEF HookInv, Shape
<1>2. todo \in Seq(Step) /\ [Head(stack) EXCEPT !.todo = Tail(todo)] = Native(Tail(todo))
  BY <1>1, FrameKinds, OrderedTail, ZenonT(60)
<1>3. /\ Tail(todo) \in Seq(Step) /\ Ordered(Tail(todo))
      /\ Tail(todo) # <<>> => Head(Tail(todo)) # "before_save"
      /\ Tail(todo) # <<>> /\ Head(todo) # "before_save" => Head(Tail(todo)) # "write"
  BY <1>1, <1>2, OrderedTail
<1>4. stack' = <<Native(Tail(todo))>> \o Tail(stack)
  BY <1>2
<1>5. /\ Shape(stack') /\ (HasEvent(stack') <=> HasEvent(stack)) /\ EventOK(stack', passed, due)
      /\ Head(stack') = Native(Tail(todo)) /\ stack' # <<>>
  <2>1. /\ Native(Tail(todo)) \in Frame /\ Native(Tail(todo)).kind = "native"
        /\ Ordered(Native(Tail(todo)).todo)
    BY <1>3, FramesMade
  <2>2. Shape(stack) /\ EventOK(stack, passed, due)
    BY DEF HookInv
  <2> HIDE DEF todo
  <2> QED
    BY <1>4, <2>1, <2>2, SwapNative
<1>6. SaveOK(stack', result, hooks["before_save"], passed, due)
  <2>1. /\ Head(stack').todo = Tail(todo)
        /\ HasEvent(stack') <=> HasEvent(stack)
    BY <1>3, <1>5, FramesMade
  <2>2. ASSUME ~HasEvent(stack), Tail(todo) # <<>>, Head(Tail(todo)) = "write" PROVE passed = due
    <3>1. Head(todo) = "before_save"
      BY <1>3, <2>2
    <3>2. due = hooks["before_save"] /\ passed = <<>>
      BY <2>2, <3>1 DEF HookInv, SaveOK
    <3>3. hooks["before_save"] = <<>>
      BY <2>2, <3>1
    <3> QED
      BY <3>2, <3>3
  <2> QED
    BY <1>3, <2>1, <2>2 DEF SaveOK
<1>7. ~Returned("event")'
  BY DEF Returned
<1>8. SaveOK(stack, result, hooks["before_save"], passed, due)'
  BY <1>6
<1> QED
  BY <1>5, <1>7, <1>8 DEF HookInv

\* An operation leaves the hooks of a save alone unless it is a save.
LEMMA OperationStep ==
    ASSUME HookInv, CanCall, NEW f \in Frame, f.kind # "event", f.kind = "native" => Ordered(f.todo),
           f.kind = "native" /\ f.todo # <<>> => Head(f.todo) \notin {"before_save", "write"},
           Call(f), UNCHANGED <<hooks, in_hook, due, passed>>
    PROVE  HookInv'
<1>1. stack # <<>> => Head(stack).kind = "callback"
  BY DEF CanCall, Top
<1> QED
  BY <1>1, CallStep

\* The invariant holds at the start, ...
LEMMA HookInvInit == Init => HookInv
<1> SUFFICES ASSUME Init PROVE HookInv
  OBVIOUS
<1>1. stack = <<>> /\ result = "none" /\ in_hook = FALSE /\ due = <<>> /\ passed = <<>>
  BY DEF Init
<1>2. hooks \in [Event -> Seq(Callbacks)]
  <2>1. hooks \in [Event -> {<<>>, Registered}]
    BY DEF Init
  <2>2. {<<>>, Registered} \subseteq Seq(Callbacks)
    BY PluginAssumption DEF PluginAssumption
  <2> QED
    BY <2>1, <2>2
<1>3. Shape(stack) /\ ~HasEvent(stack) /\ EventOK(stack, passed, due)
  BY <1>1 DEF Shape, HasEvent, EventOK
<1>4. SaveOK(stack, result, hooks["before_save"], passed, due)
  BY <1>1 DEF SaveOK
<1>5. due \in Seq(Callbacks) /\ passed \in Seq(Callbacks) /\ in_hook \in BOOLEAN
  <2>1. <<>> \in Seq(Callbacks)
    OBVIOUS
  <2>2. due = <<>> /\ passed = <<>> /\ in_hook = FALSE
    BY <1>1
  <2>3. in_hook \in BOOLEAN
    BY <2>2
  <2> QED
    BY <2>1, <2>2, <2>3
<1>6. ~Returned("event")
  BY <1>1 DEF Returned
<1>7. EventOK(stack, passed, due) /\ Shape(stack)
  BY <1>3
<1>8. Returned("event") => Top.rest # <<>>
  BY <1>6
<1>9. in_hook <=> HasEvent(stack)
  BY <1>1, <1>3
<1> QED
  BY <1>2, <1>4, <1>5, <1>7, <1>8, <1>9 DEF HookInv

\* ... and every step keeps it.
LEMMA HookInvStep == HookInv /\ [Next]_vars => HookInv'
<1> SUFFICES ASSUME HookInv, [Next]_vars PROVE HookInv'
  OBVIOUS
<1> DEFINE Quiet == UNCHANGED <<hooks, in_hook, due, passed>>
<1>1. ASSUME NEW refused \in BOOLEAN, Edit(refused) PROVE HookInv'
  <2>1. Native(<<"error">>) \in Frame /\ Native(<<"text_changed">>) \in Frame
    BY OrderedLists, FramesMade DEF Step, Event
  <2>2. Ordered(<<"error">>) /\ Ordered(<<"text_changed">>)
    BY OrderedLists DEF Step, Event
  <2>3. CanCall /\ Quiet
    BY <1>1 DEF Edit
  <2>4. CASE refused
    BY <1>1, <2>1, <2>2, <2>3, <2>4, OperationStep DEF Edit, Native
  <2>5. CASE ~refused
    BY <1>1, <2>1, <2>2, <2>3, <2>5, OperationStep DEF Edit, Native
  <2> QED
    BY <2>4, <2>5
<1>2. ASSUME Open PROVE HookInv'
  <2>1. Native(<<"after_open">>) \in Frame /\ Ordered(<<"after_open">>)
    BY OrderedLists, FramesMade DEF Step, Event
  <2> QED
    BY <1>2, <2>1, OperationStep DEF Open, Native
<1>3. ASSUME RunCommand PROVE HookInv'
  <2>1. Native(<<"error">>) \in Frame /\ Ordered(<<"error">>) /\ Command \in Frame
    BY OrderedLists, FramesMade DEF Step, Event
  <2>2. CASE command_depth >= MaxDepth
    BY <1>3, <2>1, <2>2, OperationStep DEF RunCommand, Native
  <2>3. CASE ~(command_depth >= MaxDepth)
    BY <1>3, <2>1, <2>3, OperationStep DEF RunCommand, Command
  <2> QED
    BY <2>2, <2>3
<1>4. ASSUME NEW changed \in BOOLEAN, Save(changed) PROVE HookInv'
  <2> DEFINE todo == IF changed THEN <<"before_save", "write", "after_open", "after_save">>
                                ELSE <<"before_save", "write", "after_save">>
  <2>1. todo \in Seq(Step) /\ Ordered(todo) /\ Head(todo) = "before_save"
    BY OrderedLists
  <2> HIDE DEF todo
  <2>2. /\ Native(todo) \in Frame /\ Native(todo).kind = "native" /\ Native(todo).todo = todo
    BY <2>1, FramesMade
  <2>3. /\ stack' = <<Native(todo)>> \o stack /\ result' = "none"
        /\ hooks' = hooks /\ in_hook' = in_hook
    BY <1>4 DEF Save, Call, todo
  <2>4. stack # <<>> => Head(stack).kind = "callback"
    BY <1>4 DEF Save, CanCall, Top
  <2>5. Dispatching <=> HasEvent(stack)
    BY DEF Dispatching, HasEvent
  <2>6. CASE Dispatching
    <3>1. due' = due /\ passed' = passed
      BY <1>4, <2>6 DEF Save
    <3>2. Shape(stack') /\ HasEvent(stack') /\ EventOK(stack', passed, due)
      <4>1. Shape(stack) /\ EventOK(stack, passed, due)
        BY DEF HookInv
      <4>2. Native(todo).kind # "event" /\ Ordered(Native(todo).todo)
        BY <2>1, <2>2
      <4>3. stack # <<>> => Head(stack).kind # "native" /\ Head(stack).kind # "event"
        BY <2>4
      <4>4. stack' = <<Native(todo)>> \o stack
        BY <2>3
      <4>5. Shape(stack') /\ (HasEvent(stack') <=> HasEvent(stack)) /\ EventOK(stack', passed, due)
        BY <2>2, <4>1, <4>2, <4>3, <4>4, PushOther
      <4> QED
        BY <2>5, <2>6, <4>5
    <3>3. SaveOK(stack', "none", hooks["before_save"], passed, due)
      BY <3>2 DEF SaveOK
    <3> QED
      BY <2>3, <2>5, <2>6, <3>1, <3>2, <3>3 DEF HookInv, Returned
  <2>7. CASE ~Dispatching
    <3>1. due' = hooks["before_save"] /\ passed' = <<>>
      BY <1>4, <2>7 DEF Save
    <3>2. EventOK(stack, <<>>, hooks["before_save"])
      BY <2>5, <2>7 DEF EventOK, HasEvent
    <3>3. /\ Shape(stack') /\ ~HasEvent(stack') /\ EventOK(stack', <<>>, hooks["before_save"])
          /\ Head(stack') = Native(todo)
      <4>1. Shape(stack)
        BY DEF HookInv
      <4>2. Native(todo).kind # "event" /\ Ordered(Native(todo).todo)
        BY <2>1, <2>2
      <4>3. stack # <<>> => Head(stack).kind # "native" /\ Head(stack).kind # "event"
        BY <2>4
      <4>4. stack' = <<Native(todo)>> \o stack
        BY <2>3
      <4>5. /\ Shape(stack') /\ (HasEvent(stack') <=> HasEvent(stack))
            /\ EventOK(stack', <<>>, hooks["before_save"]) /\ Head(stack') = Native(todo)
        BY <2>2, <3>2, <4>1, <4>2, <4>3, <4>4, PushOther, ZenonT(60)
      <4> QED
        BY <2>5, <2>7, <4>5
    <3>4. SaveOK(stack', "none", hooks["before_save"], <<>>, hooks["before_save"])
      BY <2>1, <2>2, <3>3 DEF SaveOK
    <3>5. hooks["before_save"] \in Seq(Callbacks) /\ <<>> \in Seq(Callbacks)
      BY DEF HookInv, Event
    <3> QED
      BY <2>3, <2>5, <2>7, <3>1, <3>3, <3>4, <3>5 DEF HookInv, Returned
  <2> QED
    BY <2>6, <2>7
<1>5. ASSUME NEW name \in Event, NEW c \in Callbacks, On(name, c) PROVE HookInv'
  <2>1. /\ stack # <<>> /\ Head(stack).kind = "callback"
        /\ UNCHANGED <<stack, result, in_hook, due, passed>>
    BY <1>5 DEF On, Running, Top, history
  <2>2. hooks' \in [Event -> Seq(Callbacks)]
    BY <1>5 DEF On, HookInv
  <2>3. SaveOK(stack, result, hooks'["before_save"], passed, due)
    BY <2>1 DEF SaveOK
  <2> QED
    BY <2>1, <2>2, <2>3 DEF HookInv, Returned, Top
<1>6. ASSUME NEW refused \in BOOLEAN, NativeCommand(refused) PROVE HookInv'
  <2>1. Native(<<"error">>) \in Frame /\ Native(<<"text_changed">>) \in Frame
    BY OrderedLists, FramesMade DEF Step, Event
  <2>2. Ordered(<<"error">>) /\ Ordered(<<"text_changed">>)
    BY OrderedLists DEF Step, Event
  <2>3. Head(stack).kind = "command" /\ Quiet
    BY <1>6 DEF NativeCommand, Running, Top, host
  <2>4. CASE refused
    BY <1>6, <2>1, <2>2, <2>3, <2>4, CallStep DEF NativeCommand, Native
  <2>5. CASE ~refused
    BY <1>6, <2>1, <2>2, <2>3, <2>5, CallStep DEF NativeCommand, Native
  <2> QED
    BY <2>4, <2>5
<1>7. ASSUME NEW c \in Callbacks, PythonCommand(c) PROVE HookInv'
  <2>1. Callback(c) \in Frame /\ Callback(c).kind = "callback"
    BY FramesMade
  <2>2. Head(stack).kind = "command" /\ Quiet /\ Call(Callback(c))
    BY <1>7 DEF PythonCommand, Running, Top, host, history
  <2> QED
    BY <2>1, <2>2, CallStep
<1>8. ASSUME NextHook PROVE HookInv'
  <2>1. stack # <<>> /\ Head(stack).kind = "event" /\ Head(stack).rest # <<>> /\ Quiet
        /\ Call(Callback(Head(Head(stack).rest)))
    BY <1>8 DEF NextHook, Running, Top, host, history
  <2>2. Head(stack) \in Frame
    BY <2>1 DEF HookInv, Shape
  <2>3. Head(Head(stack).rest) \in Callbacks
    <3>1. Head(stack).rest \in Seq(Callbacks)
      BY <2>1, <2>2, FrameKinds
    <3> QED
      BY <2>1, <3>1
  <2>4. Callback(Head(Head(stack).rest)) \in Frame /\ Callback(Head(Head(stack).rest)).kind = "callback"
    BY <2>3, FramesMade
  <2> QED
    BY <2>1, <2>4, CallStep
<1>9. ASSUME CommandReturns PROVE HookInv'
  BY <1>9, ReturnStep DEF CommandReturns, Returned, Top, history
<1>10. ASSUME NEW r \in {"ok", "error"}, CallbackReturns(r) PROVE HookInv'
  BY <1>10, ReturnStep DEF CallbackReturns, Running, Top, host, history
<1>11. ASSUME Fails PROVE HookInv'
  BY <1>11, ReturnStep DEF Fails, Running, Top, host, history
<1>12. ASSUME Done PROVE HookInv'
  BY <1>12, ReturnStep DEF Done, Running, Top, host, history
<1>13. ASSUME NativeContinues PROVE HookInv'
  <2>1. stack # <<>> /\ Head(stack).kind = "native" /\ Quiet
    BY <1>13 DEF NativeContinues, Returned, Top, host, history
  <2>2. CASE result = "error"
    BY <1>13, <2>1, <2>2, ReturnStep DEF NativeContinues
  <2>3. CASE result # "error"
    <3>1. result' = "none" /\ stack' = stack
      BY <1>13, <2>3 DEF NativeContinues
    <3>2. SaveOK(stack, "none", hooks["before_save"], passed, due)
      BY <2>3 DEF HookInv, SaveOK
    <3> QED
      BY <2>1, <3>1, <3>2 DEF HookInv, Returned
  <2> QED
    BY <2>2, <2>3
<1>14. ASSUME CallbackContinues PROVE HookInv'
  <2>1. /\ stack # <<>> /\ Head(stack).kind = "callback" /\ Quiet
        /\ result' = "none" /\ stack' = stack
    BY <1>14 DEF CallbackContinues, Returned, Top, host, history
  <2>2. SaveOK(stack, "none", hooks["before_save"], passed, due)
    BY <2>1 DEF SaveOK
  <2> QED
    BY <2>1, <2>2 DEF HookInv, Returned
<1>15. ASSUME Respond PROVE HookInv'
  <2>1. stack = <<>> /\ stack' = stack /\ Quiet
    BY <1>15 DEF Respond, host, history
  <2>2. SaveOK(stack, result', hooks["before_save"], passed, due)
    BY <2>1 DEF SaveOK
  <2> QED
    BY <2>1, <2>2 DEF HookInv, Returned
<1>16. ASSUME Emit PROVE HookInv'
  <2> DEFINE name == Head(Head(stack).todo)
             f == Native(Tail(Head(stack).todo))
             on == <<f>> \o Tail(stack)
  <2>1. /\ result = "none" /\ stack # <<>> /\ Head(stack).kind = "native"
        /\ Head(stack).todo # <<>> /\ name \in Event
        /\ UNCHANGED <<hooks, due, passed>> /\ result' = result
    BY <1>16 DEF Emit, Running, Top, history
  <2>2. CASE Suppressed(name)
    <3>1. /\ stack' = <<[Head(stack) EXCEPT !.todo = Tail(@)]>> \o Tail(stack)
          /\ in_hook' = in_hook
      BY <1>16, <2>2 DEF Emit, Top
    <3>2. name = "before_save" /\ ~HasEvent(stack) => hooks["before_save"] = <<>>
      BY <2>2 DEF Suppressed, HookInv
    <3> HIDE DEF name
    <3> QED
      BY <2>1, <3>1, <3>2, GoesOnStep DEF name
  <2>3. CASE ~Suppressed(name)
    <3>1. Head(stack) \in Frame /\ Ordered(Head(stack).todo) /\ Shape(stack) /\ EventOK(stack, passed, due)
      BY <2>1 DEF HookInv, Shape
    <3>2. /\ Head(stack).todo \in Seq(Step)
          /\ [Head(stack) EXCEPT !.todo = Tail(Head(stack).todo)] = f
      <4>1. Head(stack).todo \in Seq(Step)
        BY <2>1, <3>1, FrameKinds
      <4>2. Tail(Head(stack).todo) \in Seq(Step)
        BY <2>1, <4>1
      <4> QED
        <5>1. \A todo \in Seq(Step) : [Head(stack) EXCEPT !.todo = todo] = Native(todo)
          BY <2>1, <3>1, FrameKinds
        <5> QED
          BY <4>1, <4>2, <5>1
    <3>3. /\ Tail(Head(stack).todo) \in Seq(Step) /\ Ordered(Tail(Head(stack).todo))
          /\ Tail(Head(stack).todo) # <<>> => Head(Tail(Head(stack).todo)) # "before_save"
          /\ Tail(Head(stack).todo) # <<>> /\ name # "before_save" => Head(Tail(Head(stack).todo)) # "write"
      BY <2>1, <3>1, <3>2, OrderedTail
    <3>4. f \in Frame /\ f.kind = "native" /\ f.todo = Tail(Head(stack).todo)
      BY <3>3, FramesMade
    <3>5. stack' = <<Dispatch(name, hooks[name])>> \o on /\ in_hook' = TRUE
      BY <1>16, <2>3, <3>2 DEF Emit, Top
    <3>6. ~HasEvent(stack) /\ hooks[name] # <<>>
      BY <2>3 DEF Suppressed, HookInv
    <3>7. Shape(on) /\ ~HasEvent(on) /\ Head(on) = f /\ on # <<>>
      <4> HIDE DEF f, name
      <4> QED
        BY <2>1, <3>1, <3>3, <3>4, <3>6, SwapNative, ZenonT(60)
    <3>8. LET g == Dispatch(name, hooks[name])
          IN  /\ g \in Frame /\ g.kind = "event" /\ g.name = name
              /\ g.rest = hooks[name] /\ g.ok
      BY <2>1, FramesMade DEF HookInv
    <3>9. name = "before_save" => passed \o hooks[name] = due
      <4> SUFFICES ASSUME name = "before_save" PROVE passed \o hooks[name] = due
        OBVIOUS
      <4>1. due = hooks["before_save"] /\ passed = <<>>
        BY <2>1, <3>6 DEF HookInv, SaveOK
      <4>2. due \in Seq(Callbacks)
        BY DEF HookInv
      <4> QED
        BY <4>1, <4>2
    <3>10. Shape(stack') /\ HasEvent(stack') /\ EventOK(stack', passed, due)
      <4> HIDE DEF f, name, on
      <4> QED
        BY <3>3, <3>4, <3>5, <3>7, <3>8, <3>9, PushEvent, ZenonT(60)
    <3>11. SaveOK(stack', result, hooks["before_save"], passed, due)
      BY <3>10 DEF SaveOK
    <3> QED
      BY <2>1, <3>5, <3>10, <3>11 DEF HookInv, Returned
  <2> QED
    BY <2>2, <2>3
<1>17. ASSUME Write PROVE HookInv'
  <2>1. /\ result = "none" /\ stack # <<>> /\ Head(stack).kind = "native"
        /\ Head(stack).todo # <<>> /\ Head(Head(stack).todo) = "write"
        /\ stack' = <<[Head(stack) EXCEPT !.todo = Tail(@)]>> \o Tail(stack)
        /\ Quiet /\ result' = result
    BY <1>17 DEF Write, Running, Top, host
  <2> QED
    BY <2>1, GoesOnStep
<1>18. ASSUME HookReturned PROVE HookInv'
  <2> DEFINE b == Head(stack).ok /\ result = "ok"
             r == Tail(Head(stack).rest)
             f == [Head(stack) EXCEPT !.ok = b, !.rest = r]
  <2>1. /\ stack # <<>> /\ Head(stack).kind = "event" /\ Head(stack).rest # <<>>
        /\ UNCHANGED <<hooks, in_hook, due>> /\ result' = "none"
        /\ stack' = <<f>> \o Tail(stack)
    BY <1>18 DEF HookReturned, Returned, Top, host, HookInv
  <2>2. passed' = IF Head(stack).name = "before_save" /\ result = "ok"
                  THEN Append(passed, Head(Head(stack).rest)) ELSE passed
    BY <1>18 DEF HookReturned, Top, Strict
  <2>3. /\ Head(stack) \in Frame /\ Shape(stack) /\ EventOK(stack, passed, due)
        /\ passed \in Seq(Callbacks)
    BY <2>1 DEF HookInv, Shape
  <2>4. Head(stack).rest \in Seq(Callbacks) /\ Head(stack).ok \in BOOLEAN
    BY <2>1, <2>3, FrameKinds
  <2>5. r \in Seq(Callbacks) /\ b \in BOOLEAN /\ Head(Head(stack).rest) \in Callbacks
    BY <2>1, <2>4
  <2>6. /\ f \in Frame /\ f.kind = "event" /\ f.name = Head(stack).name
        /\ f.rest = r /\ f.ok = b
    <3>1. \A rest \in Seq(Callbacks), ok \in BOOLEAN :
             LET g == [Head(stack) EXCEPT !.ok = ok, !.rest = rest]
             IN  /\ g \in Frame /\ g.kind = "event" /\ g.name = Head(stack).name
                 /\ g.rest = rest /\ g.ok = ok
      BY <2>1, <2>3, FrameKinds
    <3> HIDE DEF r, b
    <3> QED
      BY <2>5, <3>1
  <2>7. Head(stack).name = "before_save" /\ Head(stack).ok => passed \o Head(stack).rest = due
    BY <2>1, <2>3, SMTT(60) DEF EventOK, Shape
  <2>8. f.name = "before_save" /\ f.ok => passed' \o f.rest = due
    <3> SUFFICES ASSUME Head(stack).name = "before_save", b PROVE passed' \o r = due
      BY <2>6
    <3>1. passed' = Append(passed, Head(Head(stack).rest))
      BY <2>2
    <3>2. Append(passed, Head(Head(stack).rest)) \o r = passed \o Head(stack).rest
      BY <2>1, <2>3, <2>4, AppendOn
    <3> QED
      BY <2>7, <3>1, <3>2
  <2>9. passed' \in Seq(Callbacks)
    BY <2>2, <2>3, <2>5
  <2>10. Shape(stack') /\ HasEvent(stack') /\ EventOK(stack', passed', due)
    <3> HIDE DEF f
    <3> QED
      BY <2>1, <2>3, <2>6, <2>8, SwapEvent
  <2>11. SaveOK(stack', "none", hooks["before_save"], passed', due)
    BY <2>10 DEF SaveOK
  <2>12. HasEvent(stack)
    BY <2>1, <2>3 DEF HasEvent, Shape
  <2> QED
    BY <2>1, <2>9, <2>10, <2>11, <2>12 DEF HookInv, Returned
<1>19. ASSUME EventReturns PROVE HookInv'
  <2>1. /\ stack # <<>> /\ Head(stack).kind = "event"
        /\ Head(stack).rest = <<>> \/ (Head(stack).name = "before_save" /\ ~Head(stack).ok)
        /\ UNCHANGED <<hooks, due, passed>> /\ in_hook' = FALSE
        /\ stack' = Tail(stack)
        /\ result' = IF Head(stack).ok \/ Head(stack).name # "before_save" THEN "ok" ELSE "error"
    BY <1>19 DEF EventReturns, EventOver, Return, Running, Top, history, Strict
  <2>2. Shape(stack) /\ EventOK(stack, passed, due) /\ passed \in Seq(Callbacks)
    BY DEF HookInv
  <2>3. /\ Shape(stack') /\ ~HasEvent(stack') /\ stack' # <<>>
        /\ Head(stack').todo # <<>> => Head(Head(stack').todo) # "before_save"
        /\ Head(stack).name # "before_save" /\ Head(stack').todo # <<>> => Head(Head(stack').todo) # "write"
        /\ Head(stack).name = "before_save" /\ Head(stack).ok => passed \o Head(stack).rest = due
    BY <2>1, <2>2, PopEvent
  <2>4. EventOK(stack', passed, due)
    BY <2>3 DEF EventOK, HasEvent
  <2>5. ASSUME Head(stack').todo # <<>>, Head(Head(stack').todo) = "write", result' # "error"
        PROVE  passed = due
    <3>1. Head(stack).name = "before_save" /\ Head(stack).ok
      BY <2>1, <2>3, <2>5
    <3>2. Head(stack).rest = <<>>
      BY <2>1, <3>1
    <3> QED
      BY <2>2, <2>3, <3>1, <3>2
  <2>6. SaveOK(stack', result', hooks["before_save"], passed, due)
    BY <2>3, <2>5 DEF SaveOK
  <2>7. stack' # <<>> => Head(stack').kind # "event"
    <3>1. 1 \in DOMAIN stack' /\ Head(stack') = stack'[1]
      BY <2>3 DEF Shape
    <3> QED
      BY <2>3, <3>1 DEF HasEvent
  <2> QED
    BY <2>1, <2>3, <2>4, <2>6, <2>7 DEF HookInv, Returned, Top
<1>20. ASSUME UNCHANGED vars PROVE HookInv'
  BY <1>20 DEF vars, host, history, HookInv, Returned, Top
<1> QED
  BY <1>1, <1>2, <1>3, <1>4, <1>5, <1>6, <1>7, <1>8, <1>9, <1>10, <1>11, <1>12, <1>13, <1>14,
     <1>15, <1>16, <1>17, <1>18, <1>19, <1>20 DEF Next

\* The flag against nested events, the order of a save and the hooks it has still to
\* call, for every nesting of calls (python.c: event; buffer.c: editor_save).
THEOREM HookInvariant == Spec => []HookInv
  BY HookInvInit, HookInvStep, PTL DEF Spec

\* No file is written before every hook registered for it has returned normally,
\* whatever the callbacks call, register and raise, and however deep.
THEOREM SavesAreGuarded == Spec => HooksGuardSaves
<1>1. HookInv /\ [Next]_vars => (writes' # writes /\ ~Dispatching => passed = due)
  <2> SUFFICES ASSUME HookInv, [Next]_vars, writes' # writes, ~Dispatching PROVE passed = due
    OBVIOUS
  <2>1. Write
    BY DEF Next, vars, history, host, Edit, Save, NativeCommand, Open, RunCommand, CommandReturns,
           PythonCommand, On, CallbackContinues, CallbackReturns, Emit, Fails, Done,
           NativeContinues, NextHook, HookReturned, EventReturns, Respond
  <2>2. ~HasEvent(stack)
    BY DEF HasEvent, Dispatching
  <2> QED
    BY <2>1, <2>2 DEF Write, Running, Top, HookInv, SaveOK
<1> QED
  BY <1>1, HookInvariant, PTL DEF HooksGuardSaves, Spec

-----------------------------------------------------------------------------
(***************************************************************************)
(* The depth of the stack.  Commands are counted, what the bound leaves    *)
(* room for is there, and a request that is a command has it at the bottom *)
(* until it is over.                                                       *)
(***************************************************************************)
CommandsIn(s) == Cardinality({i \in DOMAIN s : s[i].kind = "command"})

\* How many calls may stand on one of this kind without a new operation.
Room(kind) == IF kind = "command" THEN 3 ELSE IF kind = "native" THEN 2
              ELSE IF kind = "event" THEN 1 ELSE 0

Low(s) == \A i \in DOMAIN s : Len(s) - i + 1 + Room(s[i].kind) <= MaxStack

CommandBelow(s) == s # <<>> => s[Len(s)].kind = "command"

DepthInv ==
    /\ command_depth = CommandsIn(stack) /\ command_depth <= MaxDepth
    /\ result \in {"none", "ok", "error"}
    /\ Low(stack)
    /\ request.command => CommandBelow(stack)

\* The commands of a stack can be counted.
LEMMA CommandsFinite ==
    ASSUME NEW s \in Seq(Frame)
    PROVE  /\ IsFiniteSet({i \in DOMAIN s : s[i].kind = "command"})
           /\ CommandsIn(s) \in Nat
           /\ s # <<>> /\ CommandBelow(s) => CommandsIn(s) > 0
<1> DEFINE S == {i \in DOMAIN s : s[i].kind = "command"}
<1>1. Len(s) \in Nat /\ DOMAIN s = 1 .. Len(s)
  OBVIOUS
<1>2. IsFiniteSet(1 .. Len(s))
  BY <1>1, FS_Interval
<1>3. IsFiniteSet(S)
  <2>1. S \in SUBSET (1 .. Len(s))
    BY <1>1
  <2> HIDE DEF S
  <2> QED
    BY <1>2, <2>1, FS_Subset
<1>4. Cardinality(S) \in Nat
  <2> HIDE DEF S
  <2> QED
    BY <1>3, FS_CardinalityType
<1>5. S # {} => Cardinality(S) # 0
  <2> HIDE DEF S
  <2> QED
    BY <1>3, FS_EmptySet
<1>6. s # <<>> /\ CommandBelow(s) => Len(s) \in S
  BY <1>1 DEF CommandBelow
<1> QED
  BY <1>3, <1>4, <1>5, <1>6 DEF CommandsIn

\* A call adds to them if it is one.
LEMMA PushCommands ==
    ASSUME NEW s \in Seq(Frame), NEW f \in Frame, NEW t, t = <<f>> \o s
    PROVE  CommandsIn(t) = CommandsIn(s) + IF f.kind = "command" THEN 1 ELSE 0
<1> DEFINE S == {i \in DOMAIN s : s[i].kind = "command"}
           T == {i \in DOMAIN t : t[i].kind = "command"}
           U == {i \in T : i # 1}
           g == [i \in S |-> i + 1]
<1>1. /\ t \in Seq(Frame) /\ DOMAIN t = 1 .. Len(s) + 1
      /\ t[1] = f
      /\ \A i \in DOMAIN s : t[i+1] = s[i]
      /\ \A i \in DOMAIN t : i # 1 => i - 1 \in DOMAIN s /\ t[i] = s[i-1]
      /\ DOMAIN s = 1 .. Len(s) /\ Len(s) \in Nat
  BY PushFacts
<1>2. IsFiniteSet(S) /\ Cardinality(S) \in Nat
  BY CommandsFinite DEF CommandsIn
<1>3. g \in Bijection(S, U)
  <2>1. \A i \in S : i + 1 \in U
    BY <1>1
  <2>2. \A u \in U : u - 1 \in S /\ (u - 1) + 1 = u
    BY <1>1
  <2>3. g \in [S -> U]
    BY <2>1
  <2>4. \A i, j \in S : g[i] = g[j] => i = j
    BY <1>1
  <2>5. \A u \in U : \E i \in S : g[i] = u
    BY <2>2
  <2> HIDE DEF S, U, g
  <2> QED
    BY <2>3, <2>4, <2>5 DEF Bijection, Injection, Surjection, IsInjective
<1>4. IsFiniteSet(U) /\ Cardinality(U) = Cardinality(S)
  <2>1. ExistsBijection(S, U)
    <3> HIDE DEF S, U, g
    <3> QED
      BY <1>3 DEF ExistsBijection
  <2> HIDE DEF S, U
  <2> QED
    BY <1>2, <2>1, FS_Bijection
<1>5. T = IF f.kind = "command" THEN U \cup {1} ELSE U
  <2>1. 1 \in T <=> f.kind = "command"
    BY <1>1
  <2> HIDE DEF T
  <2> QED
    BY <2>1
<1>6. 1 \notin U
  OBVIOUS
<1>7. Cardinality(T) = Cardinality(S) + IF f.kind = "command" THEN 1 ELSE 0
  <2>1. Cardinality(U \cup {1}) = Cardinality(U) + 1
    <3> HIDE DEF U
    <3> QED
      BY <1>4, <1>6, FS_AddElement
  <2> HIDE DEF T, S, U
  <2>2. CASE f.kind = "command"
    BY <1>2, <1>4, <1>5, <2>1, <2>2
  <2>3. CASE f.kind # "command"
    BY <1>2, <1>4, <1>5, <2>3
  <2> QED
    BY <2>2, <2>3
<1> QED
  BY <1>7 DEF CommandsIn

\* A call takes its place on a stack low enough.
LEMMA PushLow ==
    ASSUME NEW s \in Seq(Frame), NEW f \in Frame, NEW t, t = <<f>> \o s,
           Low(s), Len(s) + 1 + Room(f.kind) <= MaxStack
    PROVE  Low(t)
<1>1. /\ t \in Seq(Frame) /\ DOMAIN t = 1 .. Len(s) + 1 /\ Len(t) = Len(s) + 1
      /\ t[1] = f
      /\ \A i \in DOMAIN t : i # 1 => i - 1 \in DOMAIN s /\ t[i] = s[i-1]
      /\ DOMAIN s = 1 .. Len(s) /\ Len(s) \in Nat
  BY PushFacts
<1> SUFFICES ASSUME NEW i \in DOMAIN t PROVE Len(t) - i + 1 + Room(t[i].kind) <= MaxStack
  BY DEF Low
<1>2. CASE i = 1
  <2>1. Len(t) - i + 1 = Len(s) + 1
    BY <1>1, <1>2
  <2> QED
    BY <1>1, <1>2, <2>1
<1>3. CASE i # 1
  <2>1. Len(s) - (i - 1) + 1 + Room(s[i-1].kind) <= MaxStack
    BY <1>1, <1>3 DEF Low
  <2>2. Len(t) - i + 1 = Len(s) - (i - 1) + 1
    BY <1>1
  <2> QED
    BY <1>1, <1>3, <2>1, <2>2
<1> QED
  BY <1>2, <1>3

LEMMA PopLow ==
    ASSUME NEW s \in Seq(Frame), s # <<>>, NEW t, t = Tail(s), Low(s)
    PROVE  Low(t)
<1>1. /\ t \in Seq(Frame) /\ DOMAIN t = 1 .. Len(s) - 1 /\ Len(t) = Len(s) - 1
      /\ \A i \in DOMAIN t : i + 1 \in DOMAIN s /\ t[i] = s[i+1]
      /\ Len(s) \in Nat
  BY PopFacts
<1> SUFFICES ASSUME NEW i \in DOMAIN t PROVE Len(t) - i + 1 + Room(t[i].kind) <= MaxStack
  BY DEF Low
<1>2. Len(s) - (i + 1) + 1 + Room(s[i+1].kind) <= MaxStack
  BY <1>1 DEF Low
<1>3. Len(t) - i + 1 = Len(s) - (i + 1) + 1
  BY <1>1
<1> QED
  BY <1>1, <1>2, <1>3

\* What is at the bottom stays there.
LEMMA BelowStays ==
    ASSUME NEW s \in Seq(Frame), NEW f \in Frame, NEW t, t = <<f>> \o s
    PROVE  /\ CommandBelow(t) => CommandBelow(s)
           /\ s # <<>> /\ CommandBelow(s) => CommandBelow(t)
           /\ s = <<>> => (CommandBelow(t) <=> f.kind = "command")
<1>1. /\ t \in Seq(Frame) /\ Len(t) = Len(s) + 1 /\ t # <<>>
      /\ t[1] = f
      /\ \A i \in DOMAIN s : t[i+1] = s[i]
      /\ DOMAIN s = 1 .. Len(s) /\ Len(s) \in Nat
  BY PushFacts
<1>2. CASE s = <<>>
  <2>1. Len(t) = 1
    BY <1>1, <1>2
  <2> QED
    BY <1>1, <1>2, <2>1 DEF CommandBelow
<1>3. CASE s # <<>>
  <2>1. Len(s) \in DOMAIN s
    BY <1>1, <1>3
  <2>2. t[Len(t)] = s[Len(s)]
    BY <1>1, <2>1
  <2> QED
    BY <1>1, <1>3, <2>2 DEF CommandBelow
<1> QED
  BY <1>2, <1>3

\* The stack is the call on top of those it was made from.
LEMMA TopOn ==
    ASSUME NEW s \in Seq(Frame), s # <<>>
    PROVE  Head(s) \in Frame /\ Tail(s) \in Seq(Frame) /\ s = <<Head(s)>> \o Tail(s)
  OBVIOUS

\* A call that there is room for leaves the depth as it says.
LEMMA CallDepth ==
    ASSUME DepthInv, stack \in Seq(Frame), NEW f \in Frame, Call(f),
           Len(stack) + 1 + Room(f.kind) <= MaxStack,
           command_depth' = command_depth + IF f.kind = "command" THEN 1 ELSE 0,
           command_depth' <= MaxDepth,
           stack # <<>> => request' = request,
           stack = <<>> /\ request'.command => f.kind = "command"
    PROVE  DepthInv'
<1>1. stack' = <<f>> \o stack /\ result' = "none"
  BY DEF Call
<1>2. command_depth' = CommandsIn(stack')
  BY <1>1, PushCommands DEF DepthInv
<1>3. Low(stack')
  BY <1>1, PushLow DEF DepthInv
<1>4. request'.command => CommandBelow(stack')
  BY <1>1, BelowStays DEF DepthInv
<1> QED
  BY <1>1, <1>2, <1>3, <1>4 DEF DepthInv

\* A return takes the call and nothing else from it.
LEMMA ReturnDepth ==
    ASSUME DepthInv, stack \in Seq(Frame), stack # <<>>,
           NEW r \in {"ok", "error"}, Return(r),
           command_depth' = IF Head(stack).kind = "command" THEN command_depth - 1
                            ELSE command_depth,
           request' = request
    PROVE  DepthInv'
<1>1. stack' = Tail(stack) /\ result' = r
  BY DEF Return
<1>2. Head(stack) \in Frame /\ stack' \in Seq(Frame) /\ stack = <<Head(stack)>> \o stack'
  BY <1>1, TopOn
<1>3. CommandsIn(stack') \in Nat
  BY <1>2, CommandsFinite
<1>4. CommandsIn(stack) = CommandsIn(stack') + IF Head(stack).kind = "command" THEN 1 ELSE 0
  BY <1>2, PushCommands
<1>5. command_depth' = CommandsIn(stack') /\ command_depth' <= MaxDepth
  <2>1. MaxDepth \in Nat
    BY PluginAssumption DEF PluginAssumption
  <2> QED
    BY <1>3, <1>4, <2>1 DEF DepthInv
<1>6. Low(stack')
  BY <1>1, PopLow DEF DepthInv
<1>7. request'.command => CommandBelow(stack')
  BY <1>2, BelowStays DEF DepthInv, CommandBelow
<1>8. result' \in {"none", "ok", "error"}
  BY <1>1
<1> QED
  BY <1>5, <1>6, <1>7, <1>8 DEF DepthInv

\* A call that goes on keeps its place.
LEMMA SwapDepth ==
    ASSUME NEW s \in Seq(Frame), s # <<>>, NEW f \in Frame, f.kind = Head(s).kind,
           NEW t, t = <<f>> \o Tail(s)
    PROVE  /\ t \in Seq(Frame) /\ t # <<>> /\ Len(t) = Len(s)
           /\ CommandsIn(t) = CommandsIn(s)
           /\ Low(s) => Low(t)
           /\ CommandBelow(s) => CommandBelow(t)
<1>1. /\ t \in Seq(Frame) /\ DOMAIN t = DOMAIN s /\ t # <<>>
      /\ \A i \in DOMAIN t : t[i].kind = s[i].kind
  BY SwapFacts
<1>2. Len(t) = Len(s) /\ Len(s) \in DOMAIN s
  BY <1>1
<1>3. {i \in DOMAIN t : t[i].kind = "command"} = {i \in DOMAIN s : s[i].kind = "command"}
  BY <1>1
<1>4. CommandsIn(t) = CommandsIn(s)
  BY <1>3 DEF CommandsIn
<1> QED
  BY <1>1, <1>2, <1>4 DEF Low, CommandBelow

\* The innermost call is as low as it must be.
LEMMA TopLow ==
    ASSUME NEW s \in Seq(Frame), s # <<>>, Low(s)
    PROVE  Len(s) \in Nat /\ Len(s) + Room(Head(s).kind) <= MaxStack
<1>1. Len(s) \in Nat /\ 1 \in DOMAIN s /\ Head(s) = s[1]
  OBVIOUS
<1>2. Len(s) - 1 + 1 + Room(s[1].kind) <= MaxStack
  BY <1>1 DEF Low
<1>3. Len(s) - 1 + 1 = Len(s)
  BY <1>1
<1> QED
  BY <1>1, <1>2, <1>3

LEMMA DepthInvInit == Init => DepthInv
<1> SUFFICES ASSUME Init PROVE DepthInv
  OBVIOUS
<1>1. stack = <<>> /\ result = "none" /\ command_depth = 0 /\ ~request.command
  BY DEF Init
<1>2. CommandsIn(stack) = 0
  <2>1. {i \in DOMAIN stack : stack[i].kind = "command"} = {}
    BY <1>1
  <2> QED
    BY <2>1, FS_EmptySet DEF CommandsIn
<1>3. MaxDepth \in Nat
  BY PluginAssumption DEF PluginAssumption
<1> QED
  BY <1>1, <1>2, <1>3 DEF DepthInv, Low

\* The operations that are called from outside or by Python.
LEMMA OperationDepth ==
    ASSUME DepthInv, stack \in Seq(Frame), Calls, NEW f \in Frame, Call(f),
           f.kind # "command", UNCHANGED command_depth, Requested(FALSE)
    PROVE  DepthInv'
<1>1. Len(stack) \in Nat
  OBVIOUS
<1>2. {MaxStack, MaxDepth} \subseteq Nat
  BY PluginAssumption DEF PluginAssumption
<1>3. command_depth = CommandsIn(stack) /\ command_depth <= MaxDepth /\ command_depth \in Nat
  BY CommandsFinite DEF DepthInv
<1>4. Len(stack) + 1 + Room(f.kind) <= MaxStack
  BY <1>1, <1>2 DEF Calls, Room
<1>5. stack # <<>> => request' = request
  BY DEF Requested
<1>6. stack = <<>> => ~request'.command
  BY DEF Requested
<1> QED
  BY <1>3, <1>4, <1>5, <1>6, CallDepth

LEMMA DepthInvStep == HookInv /\ DepthInv /\ [Next]_vars => DepthInv'
<1> SUFFICES ASSUME HookInv, DepthInv, [Next]_vars PROVE DepthInv'
  OBVIOUS
<1>1. stack \in Seq(Frame) /\ Len(stack) \in Nat
  BY DEF HookInv, Shape
<1>2. {MaxStack, MaxDepth} \subseteq Nat \ {0}
  BY PluginAssumption DEF PluginAssumption
<1>3. command_depth = CommandsIn(stack) /\ command_depth <= MaxDepth /\ command_depth \in Nat
  BY <1>1, CommandsFinite DEF DepthInv
<1>4. stack # <<>> => Len(stack) + Room(Head(stack).kind) <= MaxStack
  BY <1>1, TopLow DEF DepthInv
<1>5. /\ Native(<<"error">>) \in Frame /\ Native(<<"text_changed">>) \in Frame
      /\ Native(<<"after_open">>) \in Frame
      /\ Native(<<"before_save", "write", "after_open", "after_save">>) \in Frame
      /\ Native(<<"before_save", "write", "after_save">>) \in Frame
  BY OrderedLists, FramesMade DEF Step, Event
<1>6. \A todo : Native(todo).kind = "native"
  BY DEF Native
<1>7. ASSUME NEW refused \in BOOLEAN, Edit(refused) PROVE DepthInv'
  <2>1. Calls /\ Requested(FALSE) /\ UNCHANGED command_depth
    BY <1>7 DEF Edit
  <2>2. Call(Native(<<"error">>)) \/ Call(Native(<<"text_changed">>))
    BY <1>7 DEF Edit
  <2> QED
    BY <1>1, <1>5, <1>6, <2>1, <2>2, OperationDepth
<1>8. ASSUME NEW changed \in BOOLEAN, Save(changed) PROVE DepthInv'
  <2>1. Calls /\ Requested(FALSE) /\ UNCHANGED command_depth
    BY <1>8 DEF Save
  <2>2. \/ Call(Native(<<"before_save", "write", "after_open", "after_save">>))
        \/ Call(Native(<<"before_save", "write", "after_save">>))
    BY <1>8 DEF Save
  <2> QED
    BY <1>1, <1>5, <1>6, <2>1, <2>2, OperationDepth
<1>9. ASSUME Open PROVE DepthInv'
  BY <1>1, <1>5, <1>6, <1>9, OperationDepth DEF Open
<1>10. ASSUME RunCommand PROVE DepthInv'
  <2>1. Command \in Frame /\ Command.kind = "command"
    BY FramesMade
  <2>2. Len(stack) + 4 <= MaxStack /\ (stack # <<>> => request' = request)
    BY <1>10 DEF RunCommand, Calls, Requested
  <2>3. CASE command_depth >= MaxDepth
    <3>1. Call(Native(<<"error">>)) /\ command_depth' = command_depth
      BY <1>10, <2>3 DEF RunCommand
    <3>2. stack # <<>>
      <4>1. SUFFICES ASSUME stack = <<>> PROVE FALSE
        OBVIOUS
      <4>2. {i \in DOMAIN stack : stack[i].kind = "command"} = {}
        BY <4>1
      <4>3. command_depth = 0
        BY <1>3, <4>2, FS_EmptySet DEF CommandsIn
      <4> QED
        BY <1>2, <2>3, <4>3
    <3>3. Len(stack) + 1 + Room("native") <= MaxStack
      BY <1>1, <1>2, <2>2 DEF Room
    <3> QED
      BY <1>1, <1>3, <1>5, <1>6, <2>2, <3>1, <3>2, <3>3, CallDepth
  <2>4. CASE ~(command_depth >= MaxDepth)
    <3>1. Call(Command) /\ command_depth' = command_depth + 1
      BY <1>10, <2>4 DEF RunCommand
    <3>2. Len(stack) + 1 + Room("command") <= MaxStack
      BY <1>1, <1>2, <2>2 DEF Room
    <3>3. command_depth' <= MaxDepth
      BY <1>2, <1>3, <2>4, <3>1
    <3> QED
      BY <1>1, <2>1, <2>2, <3>1, <3>2, <3>3, CallDepth
  <2> QED
    BY <2>3, <2>4
<1>11. ASSUME NEW name \in Event, NEW c \in Callbacks, On(name, c) PROVE DepthInv'
  BY <1>11 DEF On, history, DepthInv
<1>12. ASSUME NEW f \in Frame, Call(f), stack # <<>>, Room(f.kind) < Room(Head(stack).kind),
              f.kind # "command", UNCHANGED <<command_depth, request>>
       PROVE  DepthInv'
  <2>1. Len(stack) + 1 + Room(f.kind) <= MaxStack
    BY <1>1, <1>2, <1>4, <1>12 DEF Room
  <2> QED
    BY <1>1, <1>3, <1>12, <2>1, CallDepth
<1>13. ASSUME NEW refused \in BOOLEAN, NativeCommand(refused) PROVE DepthInv'
  <2>1. /\ stack # <<>> /\ Head(stack).kind = "command" /\ UNCHANGED <<command_depth, request>>
        /\ Call(Native(<<"error">>)) \/ Call(Native(<<"text_changed">>))
    BY <1>13 DEF NativeCommand, Running, Top, host
  <2>2. Room("native") < Room("command")
    BY DEF Room
  <2> QED
    BY <1>5, <1>6, <1>12, <2>1, <2>2
<1>14. ASSUME NEW c \in Callbacks, PythonCommand(c) PROVE DepthInv'
  <2>1. /\ stack # <<>> /\ Head(stack).kind = "command" /\ UNCHANGED <<command_depth, request>>
        /\ Call(Callback(c))
    BY <1>14 DEF PythonCommand, Running, Top, host, history
  <2>2. Room("callback") < Room("command")
    BY DEF Room
  <2> QED
    BY <1>12, <2>1, <2>2, FramesMade
<1>15. ASSUME NextHook PROVE DepthInv'
  <2>1. /\ stack # <<>> /\ Head(stack).kind = "event" /\ Head(stack).rest # <<>>
        /\ UNCHANGED <<command_depth, request>>
        /\ Call(Callback(Head(Head(stack).rest)))
    BY <1>15 DEF NextHook, Running, Top, host, history
  <2>2. Head(stack).rest \in Seq(Callbacks)
    <3>1. Head(stack) \in Frame
      BY <1>1, <2>1
    <3> QED
      BY <2>1, <3>1, FrameKinds
  <2>3. Head(Head(stack).rest) \in Callbacks
    BY <2>1, <2>2
  <2>4. /\ Callback(Head(Head(stack).rest)) \in Frame
        /\ Callback(Head(Head(stack).rest)).kind = "callback"
    BY <2>3, FramesMade
  <2>5. Room("callback") < Room("event")
    BY DEF Room
  <2> QED
    BY <1>12, <2>1, <2>4, <2>5
<1>16. ASSUME CommandReturns PROVE DepthInv'
  <2>1. /\ stack # <<>> /\ Head(stack).kind = "command" /\ result # "none"
        /\ Return(result) /\ command_depth' = command_depth - 1 /\ request' = request
    BY <1>16 DEF CommandReturns, Returned, Top, history
  <2>2. result \in {"ok", "error"}
    BY <2>1 DEF DepthInv
  <2> QED
    BY <1>1, <2>1, <2>2, ReturnDepth
<1>17. ASSUME NEW r \in {"ok", "error"}, CallbackReturns(r) PROVE DepthInv'
  BY <1>1, <1>17, ReturnDepth DEF CallbackReturns, Running, Top, host, history
<1>18. ASSUME Fails PROVE DepthInv'
  BY <1>1, <1>18, ReturnDepth DEF Fails, Running, Top, host, history
<1>19. ASSUME Done PROVE DepthInv'
  BY <1>1, <1>19, ReturnDepth DEF Done, Running, Top, host, history
<1>20. ASSUME NativeContinues PROVE DepthInv'
  <2>1. /\ stack # <<>> /\ Head(stack).kind = "native" /\ UNCHANGED <<command_depth, request>>
    BY <1>20 DEF NativeContinues, Returned, Top, host, history
  <2>2. CASE result = "error"
    BY <1>1, <1>20, <2>1, <2>2, ReturnDepth DEF NativeContinues
  <2>3. CASE result # "error"
    BY <1>20, <2>1, <2>3 DEF NativeContinues, DepthInv
  <2> QED
    BY <2>2, <2>3
<1>21. ASSUME EventReturns PROVE DepthInv'
  <2>1. /\ stack # <<>> /\ Head(stack).kind = "event" /\ UNCHANGED <<command_depth, request>>
        /\ Return("ok") \/ Return("error")
    BY <1>21 DEF EventReturns, EventOver, Running, Top, history
  <2> QED
    BY <1>1, <2>1, ReturnDepth
<1>22. ASSUME CallbackContinues \/ Respond PROVE DepthInv'
  BY <1>22 DEF CallbackContinues, Respond, host, history, DepthInv
<1>23. ASSUME stack # <<>>, NEW f \in Frame, f.kind = Head(stack).kind,
              stack' = <<f>> \o Tail(stack), result' \in {"none", "ok", "error"},
              UNCHANGED <<command_depth, request>>
       PROVE  DepthInv'
  <2>1. /\ CommandsIn(stack') = CommandsIn(stack) /\ (Low(stack) => Low(stack'))
        /\ CommandBelow(stack) => CommandBelow(stack')
    BY <1>1, <1>23, SwapDepth
  <2> QED
    BY <1>23, <2>1 DEF DepthInv
<1>24. ASSUME stack # <<>>, Head(stack).kind = "native", Head(stack).todo # <<>>
       PROVE  /\ Native(Tail(Head(stack).todo)) \in Frame
              /\ [Head(stack) EXCEPT !.todo = Tail(@)] = Native(Tail(Head(stack).todo))
  <2>1. Head(stack) \in Frame
    BY <1>1, <1>24
  <2>2. Head(stack).todo \in Seq(Step)
    BY <1>24, <2>1, FrameKinds
  <2>3. Tail(Head(stack).todo) \in Seq(Step)
    BY <1>24, <2>2
  <2>4. \A todo \in Seq(Step) : [Head(stack) EXCEPT !.todo = todo] = Native(todo)
    BY <1>24, <2>1, FrameKinds
  <2>5. Native(Tail(Head(stack).todo)) \in Frame
    BY <2>3, FramesMade
  <2> QED
    BY <2>3, <2>4, <2>5
<1>25. ASSUME Write PROVE DepthInv'
  <2>1. /\ stack # <<>> /\ Head(stack).kind = "native" /\ Head(stack).todo # <<>>
        /\ stack' = <<[Head(stack) EXCEPT !.todo = Tail(@)]>> \o Tail(stack)
        /\ UNCHANGED <<command_depth, request>> /\ result' = result
    BY <1>25 DEF Write, Running, Top, host
  <2>2. result' \in {"none", "ok", "error"}
    BY <2>1 DEF DepthInv
  <2> QED
    BY <1>6, <1>23, <1>24, <2>1, <2>2
<1>26. ASSUME HookReturned PROVE DepthInv'
  <2> DEFINE f == [Head(stack) EXCEPT !.ok = @ /\ result = "ok", !.rest = Tail(@)]
  <2>1. /\ stack # <<>> /\ Head(stack).kind = "event" /\ Head(stack).rest # <<>>
        /\ UNCHANGED <<command_depth, request>> /\ result' = "none"
        /\ stack' = <<f>> \o Tail(stack)
    BY <1>26 DEF HookReturned, Returned, Top, host, HookInv
  <2>2. Head(stack) \in Frame
    BY <1>1, <2>1
  <2>3. /\ Head(stack).rest \in Seq(Callbacks) /\ Head(stack).ok \in BOOLEAN
    BY <2>1, <2>2, FrameKinds
  <2>4. Tail(Head(stack).rest) \in Seq(Callbacks) /\ (Head(stack).ok /\ result = "ok") \in BOOLEAN
    BY <2>1, <2>3
  <2>5. \A r \in Seq(Callbacks), b \in BOOLEAN :
           LET g == [Head(stack) EXCEPT !.ok = b, !.rest = r]
           IN  /\ g \in Frame /\ g.kind = "event" /\ g.name = Head(stack).name
               /\ g.rest = r /\ g.ok = b
    BY <2>1, <2>2, FrameKinds
  <2>6. f \in Frame /\ f.kind = "event"
    BY <2>4, <2>5, ZenonT(60)
  <2> HIDE DEF f
  <2> QED
    BY <1>23, <2>1, <2>6
<1>27. ASSUME Emit PROVE DepthInv'
  <2> DEFINE name == Head(Head(stack).todo)
             f == Native(Tail(Head(stack).todo))
             on == <<f>> \o Tail(stack)
             g == Dispatch(name, hooks[name])
  <2>1. /\ stack # <<>> /\ Head(stack).kind = "native" /\ Head(stack).todo # <<>>
        /\ name \in Event /\ UNCHANGED <<command_depth, request>> /\ result' = result
    BY <1>27 DEF Emit, Running, Top, history
  <2>2. f \in Frame /\ f.kind = "native" /\ [Head(stack) EXCEPT !.todo = Tail(@)] = f
    BY <1>6, <1>24, <2>1
  <2>3. stack' = on \/ stack' = <<g>> \o on
    BY <1>27, <2>2 DEF Emit, Top
  <2>4. g \in Frame /\ g.kind = "event"
    <3>1. hooks[name] \in Seq(Callbacks)
      BY <2>1 DEF HookInv
    <3> HIDE DEF name
    <3> QED
      BY <2>1, <3>1, FramesMade
  <2>5. /\ on \in Seq(Frame) /\ on # <<>> /\ Len(on) = Len(stack)
        /\ CommandsIn(on) = CommandsIn(stack)
        /\ Low(stack) => Low(on)
        /\ CommandBelow(stack) => CommandBelow(on)
    <3> HIDE DEF f
    <3> QED
      BY <1>1, <2>1, <2>2, SwapDepth
  <2>6. Len(on) + 1 + Room(g.kind) <= MaxStack
    BY <1>1, <1>2, <1>4, <2>1, <2>4, <2>5 DEF Room
  <2>7. ASSUME stack' = on PROVE DepthInv'
    BY <2>1, <2>5, <2>7 DEF DepthInv
  <2>8. ASSUME stack' = <<g>> \o on PROVE DepthInv'
    <3> HIDE DEF on, g
    <3>1. CommandsIn(stack') = CommandsIn(on)
      <4>1. CommandsIn(stack') = CommandsIn(on) + IF g.kind = "command" THEN 1 ELSE 0
        BY <2>4, <2>5, <2>8, PushCommands
      <4>2. CommandsIn(on) \in Nat
        BY <2>5, CommandsFinite
      <4> QED
        BY <2>4, <4>1, <4>2
    <3>2. Low(on) => Low(stack')
      BY <2>4, <2>5, <2>6, <2>8, PushLow
    <3>3. CommandBelow(on) => CommandBelow(stack')
      BY <2>4, <2>5, <2>8, BelowStays
    <3> QED
      BY <2>1, <2>5, <3>1, <3>2, <3>3 DEF DepthInv
  <2> QED
    BY <2>3, <2>7, <2>8
<1>28. ASSUME UNCHANGED vars PROVE DepthInv'
  BY <1>28 DEF vars, host, history, DepthInv
<1> QED
  BY <1>7, <1>8, <1>9, <1>10, <1>11, <1>13, <1>14, <1>15, <1>16, <1>17, <1>18, <1>19, <1>20,
     <1>21, <1>22, <1>25, <1>26, <1>27, <1>28 DEF Next

-----------------------------------------------------------------------------
(***************************************************************************)
(* Groups of edits.  Whatever was edited before this request is in an      *)
(* earlier group than the one there is now, and while a command is the     *)
(* request there is no other.                                              *)
(***************************************************************************)
EditOfSome == [request : Nat, command : BOOLEAN, group : Nat]
SomeRequest == [n : Nat, command : BOOLEAN]

\* The edit e in a request r whose group is now g.
EditOK(e, r, g) ==
    /\ e.request <= r.n
    /\ e.request < r.n => e.group < g
    /\ e.request = r.n => e.group <= g /\ e.command = r.command
    /\ e.request = r.n /\ r.command => e.group = g

\* Two edits keep to their requests.
Grouped(d, e) ==
    /\ d.request # e.request => d.group # e.group
    /\ d.request = e.request /\ d.command => d.group = e.group

EditsOK(es, r, g) ==
    /\ es \in Seq(EditOfSome) /\ r \in SomeRequest /\ g \in Nat
    /\ \A i \in DOMAIN es : EditOK(es[i], r, g)
    /\ \A i, j \in DOMAIN es : Grouped(es[i], es[j])

EditsInv == EditsOK(edits, request, group)

\* The next request is in a new group; a request that is a command has one only.
Moves(r, g, q, h) ==
    \/ q = r /\ h \in Nat /\ h >= g /\ (r.command => h = g)
    \/ q.n = r.n + 1 /\ q.command \in BOOLEAN /\ q \in SomeRequest /\ h = g + 1

LEMMA MovedEdits ==
    ASSUME NEW es, NEW r, NEW g, EditsOK(es, r, g), NEW q, NEW h, Moves(r, g, q, h)
    PROVE  EditsOK(es, q, h)
<1>1. r \in SomeRequest /\ g \in Nat /\ r.n \in Nat
  BY DEF EditsOK, SomeRequest
<1>2. q \in SomeRequest /\ h \in Nat /\ q.n \in Nat
  BY <1>1 DEF Moves, SomeRequest
<1>3. ASSUME NEW i \in DOMAIN es PROVE EditOK(es[i], q, h)
  <2>1. es[i] \in EditOfSome /\ EditOK(es[i], r, g)
    BY DEF EditsOK
  <2>2. es[i].request \in Nat /\ es[i].group \in Nat
    BY <2>1 DEF EditOfSome
  <2>3. CASE q = r /\ h >= g /\ (r.command => h = g)
    BY <1>1, <1>2, <2>1, <2>2, <2>3 DEF EditOK
  <2>4. CASE q.n = r.n + 1 /\ h = g + 1
    <3>1. es[i].request < q.n /\ es[i].group < h
      BY <1>1, <2>1, <2>2, <2>4 DEF EditOK
    <3> QED
      BY <1>2, <2>2, <3>1 DEF EditOK
  <2> QED
    BY <2>3, <2>4 DEF Moves
<1> QED
  BY <1>2, <1>3 DEF EditsOK

LEMMA AddedEdit ==
    ASSUME NEW es, NEW r, NEW g, EditsOK(es, r, g), NEW e \in EditOfSome,
           e.request = r.n, e.command = r.command, e.group = g
    PROVE  EditsOK(Append(es, e), r, g)
<1> DEFINE fs == Append(es, e)
<1>1. r \in SomeRequest /\ g \in Nat /\ r.n \in Nat /\ es \in Seq(EditOfSome)
  BY DEF EditsOK, SomeRequest
<1>2. /\ fs \in Seq(EditOfSome)
      /\ \A i \in DOMAIN fs : fs[i] = e \/ \E k \in DOMAIN es : fs[i] = es[k]
  BY <1>1
<1>3. EditOK(e, r, g) /\ Grouped(e, e)
  BY <1>1 DEF EditOK, Grouped
<1>4. ASSUME NEW k \in DOMAIN es
      PROVE  EditOK(es[k], r, g) /\ Grouped(es[k], e) /\ Grouped(e, es[k])
  <2>1. es[k] \in EditOfSome /\ EditOK(es[k], r, g)
    BY DEF EditsOK
  <2>2. es[k].request \in Nat /\ es[k].group \in Nat
    BY <2>1 DEF EditOfSome
  <2>3. es[k].request # e.request => es[k].group # e.group
    BY <1>1, <2>1, <2>2 DEF EditOK
  <2>4. es[k].request = e.request => es[k].command = e.command
    BY <1>1, <2>1 DEF EditOK
  <2>5. es[k].request = e.request /\ e.command => es[k].group = e.group
    BY <1>1, <2>1 DEF EditOK
  <2> QED
    BY <2>1, <2>3, <2>4, <2>5 DEF Grouped
<1>5. \A k, l \in DOMAIN es : Grouped(es[k], es[l])
  BY DEF EditsOK
<1> HIDE DEF fs
<1>6. \A i \in DOMAIN fs : EditOK(fs[i], r, g)
  BY <1>2, <1>3, <1>4
<1>7. \A i, j \in DOMAIN fs : Grouped(fs[i], fs[j])
  BY <1>2, <1>3, <1>4, <1>5
<1>8. EditsOK(fs, r, g)
  BY <1>1, <1>2, <1>6, <1>7 DEF EditsOK
<1> QED
  BY <1>8 DEF fs

LEMMA EditsInvInit == Init => EditsInv
<1> SUFFICES ASSUME Init PROVE EditsInv
  OBVIOUS
<1>1. edits = <<>> /\ group = 0 /\ request = [n |-> 0, command |-> FALSE]
  BY DEF Init
<1>2. edits \in Seq(EditOfSome) /\ DOMAIN edits = {}
  BY <1>1
<1>3. request \in SomeRequest /\ group \in Nat
  BY <1>1 DEF SomeRequest
<1> QED
  BY <1>2, <1>3 DEF EditsInv, EditsOK

LEMMA EditsInvStep == HookInv /\ DepthInv /\ EditsInv /\ [Next]_vars => EditsInv'
<1> SUFFICES ASSUME HookInv, DepthInv, EditsInv, [Next]_vars PROVE EditsInv'
  OBVIOUS
<1>1. /\ edits \in Seq(EditOfSome) /\ group \in Nat /\ request \in SomeRequest
      /\ EditsOK(edits, request, group)
  BY DEF EditsInv, EditsOK
<1>2. request.n \in Nat /\ request.command \in BOOLEAN
  BY <1>1 DEF SomeRequest
<1>3. ASSUME NEW e, EditsOK(edits, request', group'), e = EditOf(request', group'),
             edits' = edits \/ edits' = Append(edits, e)
      PROVE  EditsInv'
  <2>1. request' \in SomeRequest /\ group' \in Nat
    BY <1>3 DEF EditsOK
  <2>2. /\ e \in EditOfSome /\ e.request = request'.n
        /\ e.command = request'.command /\ e.group = group'
    BY <1>3, <2>1 DEF EditOf, EditOfSome, SomeRequest
  <2>3. EditsOK(Append(edits, e), request', group')
    BY <1>3, <2>2, AddedEdit
  <2>4. EditsOK(edits', request', group')
    BY <1>3, <2>3
  <2> QED
    BY <2>4 DEF EditsInv
<1>4. ASSUME Requested(FALSE), group' = NewGroup
      PROVE  EditsOK(edits, request', group')
  <2>1. Moves(request, group, request', group')
    <3>1. CASE stack = <<>>
      BY <1>1, <1>2, <1>4, <3>1 DEF Moves, Requested, NewGroup, SomeRequest
    <3>2. CASE stack # <<>>
      BY <1>1, <1>4, <3>2 DEF Moves, Requested, NewGroup
    <3> QED
      BY <3>1, <3>2
  <2> QED
    BY <1>1, <2>1, MovedEdits
<1>5. ASSUME NEW refused \in BOOLEAN, Edit(refused) PROVE EditsInv'
  <2>1. EditsOK(edits, request', group')
    BY <1>4, <1>5 DEF Edit
  <2> QED
    BY <1>3, <1>5, <2>1 DEF Edit
<1>6. ASSUME (\E b \in BOOLEAN : Save(b)) \/ Open PROVE EditsInv'
  <2>1. EditsOK(edits, request', group') /\ edits' = edits
    BY <1>4, <1>6 DEF Save, Open
  <2> QED
    BY <2>1 DEF EditsInv
<1>7. ASSUME NEW refused \in BOOLEAN, NativeCommand(refused) PROVE EditsInv'
  <2>1. request' = request /\ group' = group
    BY <1>7 DEF NativeCommand, host
  <2> QED
    BY <1>1, <1>3, <1>7, <2>1 DEF NativeCommand
<1>8. ASSUME RunCommand PROVE EditsInv'
  <2>1. Requested(TRUE) /\ edits' = edits
    BY <1>8 DEF RunCommand
  <2>2. /\ stack \in Seq(Frame) /\ command_depth = CommandsIn(stack)
        /\ CommandsIn(stack) \in Nat /\ MaxDepth \in Nat \ {0}
    BY CommandsFinite, PluginAssumption DEF HookInv, Shape, DepthInv, PluginAssumption
  <2>3. CASE stack = <<>>
    <3>1. command_depth = 0
      <4>1. {i \in DOMAIN stack : stack[i].kind = "command"} = {}
        BY <2>3
      <4> QED
        BY <2>2, <4>1, FS_EmptySet DEF CommandsIn
    <3>2. group' = group + 1
      BY <1>8, <2>2, <3>1 DEF RunCommand, BeginsGroup
    <3>3. Moves(request, group, request', group')
      BY <1>2, <2>1, <2>3, <3>2 DEF Moves, Requested, SomeRequest
    <3> QED
      BY <1>1, <2>1, <3>3, MovedEdits DEF EditsInv
  <2>4. CASE stack # <<>>
    <3>1. request' = request
      BY <2>1, <2>4 DEF Requested
    <3>2. request.command => command_depth # 0
      <4> SUFFICES ASSUME request.command PROVE command_depth # 0
        OBVIOUS
      <4>1. CommandBelow(stack)
        BY DEF DepthInv
      <4>2. CommandsIn(stack) > 0
        BY <2>2, <2>4, <4>1, CommandsFinite
      <4> QED
        BY <2>2, <4>2
    <3>3. group' = group \/ (group' = group + 1 /\ command_depth = 0)
      BY <1>8 DEF RunCommand, BeginsGroup
    <3>4. Moves(request, group, request', group')
      BY <1>1, <3>1, <3>2, <3>3 DEF Moves
    <3> QED
      BY <1>1, <2>1, <3>4, MovedEdits DEF EditsInv
  <2> QED
    BY <2>3, <2>4
<1>9. ASSUME UNCHANGED <<edits, request, group>> PROVE EditsInv'
  BY <1>9 DEF EditsInv
<1>10. CASE \/ CommandReturns \/ \E c \in Callbacks : PythonCommand(c) \/ \E name \in Event : On(name, c)
  BY <1>9, <1>10 DEF CommandReturns, PythonCommand, On, host, history
<1>11. CASE \/ CallbackContinues \/ \E r \in {"ok", "error"} : CallbackReturns(r)
            \/ Emit \/ Write \/ Fails \/ Done
  BY <1>9, <1>11 DEF CallbackContinues, CallbackReturns, Emit, Write, Fails, Done, host, history
<1>12. CASE NativeContinues \/ NextHook \/ HookReturned \/ EventReturns \/ Respond \/ UNCHANGED vars
  BY <1>9, <1>12 DEF NativeContinues, NextHook, HookReturned, EventReturns, Respond, vars,
                     host, history
<1> QED
  BY <1>5, <1>6, <1>7, <1>8, <1>10, <1>11, <1>12 DEF Next

\* There is one event at most.
LEMMA OneEvent ==
    ASSUME HookInv
    PROVE  Cardinality({i \in DOMAIN stack : stack[i].kind = "event"}) <= 1
<1> DEFINE S == {i \in DOMAIN stack : stack[i].kind = "event"}
<1>1. \A i, j \in S : i = j
  BY DEF HookInv, EventOK
<1>2. CASE S = {}
  BY <1>2, FS_EmptySet
<1>3. CASE S # {}
  <2>1. PICK i : S = {i}
    BY <1>1, <1>3
  <2> HIDE DEF S
  <2>2. Cardinality(S) = 1
    BY <2>1, FS_Singleton
  <2> QED
    BY <2>2 DEF S
<1> QED
  BY <1>2, <1>3

\* What a command edits is one group, that of no other request, however it calls
\* commands and hooks and however they fail; and the flag, the depth and the stack
\* say the same (python.c: event, commands.c: editor_command).
THEOREM CommandsAreGroups == Spec => []CommandIsOneGroup
<1>1. HookInv /\ DepthInv => TypeOK
  <2> SUFFICES ASSUME HookInv, DepthInv PROVE TypeOK
    OBVIOUS
  <2>1. Cardinality({i \in DOMAIN stack : stack[i].kind = "event"}) <= 1
    BY OneEvent
  <2>2. in_hook = Dispatching
    BY DEF HookInv, HasEvent, Dispatching
  <2>3. command_depth = Commands /\ command_depth <= MaxDepth /\ result \in {"none", "ok", "error"}
    BY DEF DepthInv, Commands, CommandsIn
  <2>4. Len(stack) <= MaxStack
    <3>1. MaxStack \in Nat
      BY PluginAssumption DEF PluginAssumption
    <3>2. stack \in Seq(Frame)
      BY DEF HookInv, Shape
    <3>3. CASE stack = <<>>
      BY <3>1, <3>3
    <3>4. CASE stack # <<>>
      <4>1. Len(stack) \in Nat /\ Len(stack) + Room(Head(stack).kind) <= MaxStack
        BY <3>2, <3>4, TopLow DEF DepthInv
      <4>2. Room(Head(stack).kind) \in Nat
        BY DEF Room
      <4> QED
        BY <3>1, <4>1, <4>2
    <3> QED
      BY <3>3, <3>4
  <2> QED
    BY <2>1, <2>2, <2>3, <2>4 DEF TypeOK
<1>2. EditsInv /\ TypeOK => CommandIsOneGroup
  BY DEF EditsInv, EditsOK, Grouped, CommandIsOneGroup
<1> QED
  BY <1>1, <1>2, HookInvariant, DepthInvInit, DepthInvStep, EditsInvInit, EditsInvStep, PTL DEF Spec

=============================================================================
