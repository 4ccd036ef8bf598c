-------------------------- MODULE StatusFileProofs --------------------------
(***************************************************************************)
(* Proofs about StatusFile, for any number of inodes, readers, starts and  *)
(* any sizes of the snapshots: its types, that a reader never sees a torn  *)
(* or mixed file, that a run never shows the file of an earlier one, and   *)
(* that the protocol implements the register of StatusRegister.            *)
(***************************************************************************)
EXTENDS StatusFile, TLAPS

Writing == {"write", "sync", "rename"}

(* the inode holds all the lines of the snapshot it was opened for, no others *)
Whole(i) == stamp[i] \in Snapshots /\ data[i] = Snapshot(stamp[i])

(* what can be opened under the name of the status file is whole *)
PathWhole ==
  /\ path # None => Whole(path) /\ stamp[path] <= newest
  /\ newest <= ver

(* the temporary file is the writer's alone: no reader has ever seen it *)
TmpPrivate == tmp # None => tmp # path /\ \A r \in Readers : rfd[r] # tmp

(* the writer holds the temporary file, which has what was written so far *)
WriterInStep ==
  /\ pc \in Writing =>
       /\ fd # None /\ fd = tmp
       /\ ver \in Snapshots /\ newest < ver /\ birth < ver
       /\ stamp[fd] = ver /\ data[fd] = [k \in 1 .. off |-> ver]
  /\ pc \in {"sync", "rename"} => off = Lines[ver]
  /\ pc \notin Writing => fd = None /\ off = 0

(* a reader's file is whole, and what it has read is a prefix of it *)
ReaderInStep(r) ==
  /\ view[r] <= newest
  /\ rfd[r] = None => seen[r] = <<>> /\ ~eof[r]
  /\ rfd[r] # None =>
       /\ Whole(rfd[r]) /\ view[r] = stamp[rfd[r]]
       /\ Len(seen[r]) <= Lines[view[r]]
       /\ \A k \in 1 .. Len(seen[r]) : seen[r][k] = view[r]
       /\ eof[r] => Len(seen[r]) = Lines[view[r]]

ReadersInStep == \A r \in Readers : ReaderInStep(r)

(* svlopp runs in a directory that it made itself, empty *)
OwnDirectory ==
  /\ ~dir => path = None /\ tmp = None
  /\ pc \in Writing \cup {"idle"} => dir /\ (path # None => stamp[path] > birth)

Inv ==
  /\ TypeOK /\ PathWhole /\ TmpPrivate /\ WriterInStep /\ ReadersInStep /\ OwnDirectory

-----------------------------------------------------------------------------
(* Lemmas about snapshots and lines *)

(* A snapshot is a sequence of its own number, one per line. *)
LEMMA SnapshotLines ==
  ASSUME NEW v \in Snapshots
  PROVE  /\ Lines[v] \in Nat
         /\ Snapshot(v) \in Seq(Snapshots)
         /\ Len(Snapshot(v)) = Lines[v]
         /\ \A k \in 1 .. Lines[v] : Snapshot(v)[k] = v
<1>1. Lines[v] \in Nat
  BY StatusFileAssumption DEF Snapshots
<1> QED  BY <1>1 DEF Snapshot

(* A sequence of v, as long as the v-th snapshot, is that snapshot. *)
LEMMA AllLinesRead ==
  ASSUME NEW v \in Snapshots, NEW s \in Seq(Snapshots), Len(s) = Lines[v],
         \A k \in 1 .. Len(s) : s[k] = v
  PROVE  s = Snapshot(v)
<1>1. s = [k \in 1 .. Len(s) |-> s[k]]
  OBVIOUS
<1> QED  BY <1>1 DEF Snapshot

(* what a reader has after n more lines of the v-th snapshot *)
ReadMore(s, v, n) == s \o SubSeq(Snapshot(v), Len(s) + 1, Len(s) + n)

(* Reading n more lines of a whole file. *)
LEMMA ReadOn ==
  ASSUME NEW v \in Snapshots, NEW s \in Seq(Snapshots),
         NEW n \in Nat, Len(s) + n <= Lines[v],
         \A k \in 1 .. Len(s) : s[k] = v
  PROVE  /\ ReadMore(s, v, n) \in Seq(Snapshots)
         /\ Len(ReadMore(s, v, n)) = Len(s) + n
         /\ \A k \in 1 .. Len(s) + n : ReadMore(s, v, n)[k] = v
<1>1. /\ Lines[v] \in Nat
      /\ Snapshot(v) \in Seq(Snapshots)
      /\ Len(Snapshot(v)) = Lines[v]
      /\ \A k \in 1 .. Lines[v] : Snapshot(v)[k] = v
  BY SnapshotLines
<1>2. Len(s) \in Nat /\ n \in Nat /\ Len(s) + n <= Lines[v]
  BY <1>1
<1> DEFINE u == SubSeq(Snapshot(v), Len(s) + 1, Len(s) + n)
<1>3. u \in Seq(Snapshots) /\ Len(u) = n
  BY <1>1, <1>2
<1>4. \A k \in 1 .. n : u[k] = v
  BY <1>1, <1>2
<1> HIDE DEF u
<1>5. s \o u \in Seq(Snapshots) /\ Len(s \o u) = Len(s) + n
  BY <1>2, <1>3
<1>6. \A k \in 1 .. Len(s) + n : (s \o u)[k] = v
  BY <1>2, <1>3, <1>4
<1> QED  BY <1>5, <1>6 DEF u, ReadMore

-----------------------------------------------------------------------------
(* The inductive invariant *)

(* Init establishes the invariant. *)
LEMMA InitInv == Init => Inv
<1> SUFFICES ASSUME Init PROVE Inv
  OBVIOUS
<1> USE StatusFileAssumption DEF Init
<1>0. <<>> \in Seq(Snapshots) /\ Len(Lines) \in Nat
  OBVIOUS
<1>1. TypeOK
  <2>1. data \in [Inodes -> Seq(Snapshots)] /\ seen \in [Readers -> Seq(Snapshots)]
    BY <1>0
  <2>2. dir \in BOOLEAN /\ eof \in [Readers -> BOOLEAN]
    BY Zenon
  <2>3. /\ stamp \in [Inodes -> 0 .. Len(Lines)] /\ view \in [Readers -> 0 .. Len(Lines)]
        /\ rfd \in [Readers -> Inodes \cup {None}]
        /\ ver \in 0 .. Len(Lines) /\ newest \in 0 .. Len(Lines)
        /\ starts \in 0 .. MaxStarts /\ birth \in 0 .. ver /\ off \in 0 .. 0
    BY <1>0
  <2> QED  BY <2>1, <2>2, <2>3 DEF TypeOK
<1>2. PathWhole /\ TmpPrivate /\ WriterInStep /\ OwnDirectory
  BY DEF PathWhole, TmpPrivate, WriterInStep, OwnDirectory, Writing
<1>3. ReadersInStep
  BY DEF ReadersInStep, ReaderInStep
<1> QED  BY <1>1, <1>2, <1>3 DEF Inv

(* Numbers of lines are natural numbers. *)
LEMMA Counts ==
  ASSUME TypeOK
  PROVE  /\ Len(Lines) \in Nat /\ ver \in Nat /\ newest \in Nat /\ birth \in Nat
         /\ off \in Nat
         /\ (IF ver = 0 THEN 0 ELSE Lines[ver]) \in Nat
<1> USE StatusFileAssumption DEF TypeOK
<1>1. Len(Lines) \in Nat /\ ver \in Nat /\ newest \in Nat /\ birth \in Nat
  OBVIOUS
<1>2. (IF ver = 0 THEN 0 ELSE Lines[ver]) \in Nat
  BY <1>1
<1> QED  BY <1>1, <1>2

(* The offset and the birth keep their types where no snapshot is begun. *)
LEMMA CountsKept ==
  ASSUME TypeOK, off' \in {0, off}, birth' \in {birth, ver}, ver' = ver
  PROVE  off' \in 0 .. (IF ver' = 0 THEN 0 ELSE Lines[ver']) /\ birth' \in 0 .. ver'
<1>1. PICK m \in Nat : m = IF ver = 0 THEN 0 ELSE Lines[ver]
  BY Counts
<1>2. off \in 0 .. m /\ birth \in 0 .. ver /\ ver \in Nat
  BY <1>1, Counts DEF TypeOK
<1>3. off' \in 0 .. m /\ birth' \in 0 .. ver
  BY <1>2
<1> QED  BY <1>1, <1>3

(* A file that is not written to stays whole. *)
LEMMA WholeKept ==
  ASSUME NEW i, Whole(i), data'[i] = data[i], stamp'[i] = stamp[i]
  PROVE  stamp'[i] \in Snapshots /\ data'[i] = Snapshot(stamp'[i])
BY DEF Whole

(* Readers are not concerned by a step that leaves them, and every inode    *)
(* they can see, alone.                                                     *)
LEMMA ReadersUntouched ==
  ASSUME Inv, UNCHANGED readerVars, newest' >= newest,
         \A i \in Inodes : i # tmp => data'[i] = data[i] /\ stamp'[i] = stamp[i],
         newest' \in Nat
  PROVE  ReadersInStep'
<1> SUFFICES ASSUME NEW r \in Readers PROVE ReaderInStep(r)'
  BY DEF ReadersInStep
<1>1. ReaderInStep(r) /\ rfd[r] \in Inodes \cup {None} /\ view[r] \in Nat /\ newest \in Nat
  BY DEF Inv, ReadersInStep, TypeOK
<1>2. view'[r] <= newest'
  BY <1>1 DEF ReaderInStep, readerVars
<1>3. rfd[r] # None => rfd[r] # tmp
  BY <1>1 DEF Inv, TmpPrivate
<1>4. rfd[r] # None => (Whole(rfd[r])' /\ stamp'[rfd[r]] = stamp[rfd[r]])
  BY <1>1, <1>3 DEF ReaderInStep, Whole, readerVars, Snapshot, Snapshots
<1> QED  BY <1>1, <1>2, <1>4 DEF ReaderInStep, readerVars

(* The steps of main that change no file. *)
LEMMA MainInv ==
  ASSUME Inv, Start \/ RemoveEntry \/ RemoveReturns \/ Mkdir \/ RunReturns \/ Crash
  PROVE  Inv'
<1> USE StatusFileAssumption DEF entries, writerVars
<1>0. UNCHANGED <<data, stamp, newest, ver, readerVars>>
  BY DEF Start, RemoveEntry, RemoveReturns, Mkdir, RunReturns, Crash
<1>1. /\ TypeOK'
      /\ path' \in {path, None} /\ tmp' \in {tmp, None}
  <2>1. dir' \in BOOLEAN /\ eof' \in [Readers -> BOOLEAN]
    BY <1>0, Zenon DEF Inv, TypeOK, readerVars,
         Start, RemoveEntry, RemoveReturns, Mkdir, RunReturns, Crash
  <2>2. off' \in {0, off} /\ fd' \in {None, fd} /\ birth' \in {birth, ver}
    BY DEF Start, RemoveEntry, RemoveReturns, Mkdir, RunReturns, Crash
  <2>3. /\ path' \in {path, None} /\ tmp' \in {tmp, None}
        /\ pc' \in {"down", "clear", "mkdir", "idle", "cleanup", pc}
    BY DEF Start, RemoveEntry, RemoveReturns, Mkdir, RunReturns, Crash
  <2>4. starts' \in 0 .. MaxStarts
    <3>1. starts' = starts \/ (starts < MaxStarts /\ starts' = starts + 1)
      BY Zenon DEF Start, RemoveEntry, RemoveReturns, Mkdir, RunReturns, Crash
    <3>2. starts \in 0 .. MaxStarts
      BY DEF Inv, TypeOK
    <3> QED  BY <3>1, <3>2
  <2>5. off' \in 0 .. (IF ver' = 0 THEN 0 ELSE Lines[ver']) /\ birth' \in 0 .. ver'
    BY <1>0, <2>2, CountsKept, Zenon DEF Inv
  <2> QED  BY <1>0, <2>1, <2>2, <2>3, <2>4, <2>5 DEF Inv, TypeOK, readerVars
<1>2. PathWhole' /\ TmpPrivate'
  BY <1>0, <1>1 DEF Inv, PathWhole, TmpPrivate, Whole, Snapshot, Snapshots, readerVars
<1>3. WriterInStep'
  BY <1>0 DEF Inv, WriterInStep, Writing,
       Start, RemoveEntry, RemoveReturns, Mkdir, RunReturns, Crash
<1>4. ReadersInStep'
  BY <1>0, ReadersUntouched DEF Inv, TypeOK
<1>5. OwnDirectory'
  BY <1>0 DEF Inv, OwnDirectory, Writing,
       Start, RemoveEntry, RemoveReturns, Mkdir, RunReturns, Crash
<1> QED  BY <1>1, <1>2, <1>3, <1>4, <1>5 DEF Inv

(* Opening the temporary file, new or left over, and truncating it. *)
LEMMA OpenTmpInv ==
  ASSUME Inv, OpenTmp
  PROVE  Inv'
<1> USE StatusFileAssumption
<1>1. PICK i \in Inodes :
        /\ i # path /\ \A r \in Readers : rfd[r] # i
        /\ tmp # None => i = tmp
        /\ fd' = i /\ tmp' = i
        /\ data' = [data EXCEPT ![i] = <<>>]
        /\ stamp' = [stamp EXCEPT ![i] = ver + 1]
  <2>1. path \in Inodes \cup {None} /\ tmp \in Inodes \cup {None}
    BY DEF Inv, TypeOK
  <2>2. PICK i \in IF tmp = None THEN FreeInodes ELSE {tmp} :
          /\ fd' = i /\ tmp' = i
          /\ data' = [data EXCEPT ![i] = <<>>]
          /\ stamp' = [stamp EXCEPT ![i] = ver + 1]
    BY DEF OpenTmp, Opened, Truncated
  <2>3. i \in Inodes /\ i # path /\ (tmp # None => i = tmp) /\ \A r \in Readers : rfd[r] # i
    BY <2>1, <2>2 DEF Inv, TmpPrivate, FreeInodes
  <2> QED  BY <2>2, <2>3
<1>2. /\ pc = "idle" /\ ver < Len(Lines) /\ ver' = ver + 1 /\ off' = 0 /\ pc' = "write"
      /\ UNCHANGED <<dir, path, newest, starts, birth, readerVars>>
  BY DEF OpenTmp
<1>3. ver' \in Snapshots /\ Lines[ver'] \in Nat
  BY <1>2 DEF Inv, TypeOK, Snapshots
<1>4. TypeOK'
  <2>1. data' \in [Inodes -> Seq(Snapshots)]
    BY <1>1 DEF Inv, TypeOK
  <2>2. stamp' \in [Inodes -> 0 .. Len(Lines)]
    BY <1>1, <1>2 DEF Inv, TypeOK
  <2>3. /\ off' \in 0 .. (IF ver' = 0 THEN 0 ELSE Lines[ver'])
        /\ birth' \in 0 .. ver' /\ ver' \in 0 .. Len(Lines)
    BY <1>2, <1>3, Counts DEF Inv, TypeOK, Snapshots
  <2>4. /\ fd' \in Inodes /\ tmp' \in Inodes /\ pc' = "write"
        /\ UNCHANGED <<dir, path, newest, starts, rfd, seen, eof, view>>
    BY <1>1, <1>2 DEF readerVars
  <2> QED  BY <2>1, <2>2, <2>3, <2>4 DEF Inv, TypeOK
<1>5. \A j \in Inodes : j # i => data'[j] = data[j] /\ stamp'[j] = stamp[j]
  BY <1>1 DEF Inv, TypeOK
<1>6. PathWhole'
  <2>1. path \in Inodes \cup {None} /\ ver \in Nat /\ newest \in Nat
    BY Counts DEF Inv, TypeOK
  <2>2. path # None => Whole(path) /\ stamp[path] <= newest
    BY DEF Inv, PathWhole
  <2>3. path # None => /\ stamp'[path] \in Snapshots /\ data'[path] = Snapshot(stamp'[path])
                       /\ stamp'[path] <= newest
    BY <1>1, <1>5, <2>1, <2>2, WholeKept
  <2> QED  BY <1>2, <2>1, <2>3 DEF Inv, PathWhole, Whole, Snapshot, Snapshots
<1>7. TmpPrivate'
  BY <1>1, <1>2 DEF TmpPrivate, readerVars
<1>8. WriterInStep'
  <2>1. data'[i] = <<>> /\ stamp'[i] = ver + 1
    BY <1>1 DEF Inv, TypeOK
  <2>2. [k \in 1 .. 0 |-> ver'] = <<>>
    OBVIOUS
  <2> QED  BY <1>1, <1>2, <1>3, <2>1, <2>2 DEF Inv, TypeOK, PathWhole, WriterInStep, Writing
<1>9. ReadersInStep'
  <2> SUFFICES ASSUME NEW r \in Readers PROVE ReaderInStep(r)'
    BY DEF ReadersInStep
  <2>1. ReaderInStep(r) /\ rfd[r] \in Inodes \cup {None}
    BY DEF Inv, ReadersInStep, TypeOK
  <2>2. rfd[r] # None => (Whole(rfd[r])' /\ stamp'[rfd[r]] = stamp[rfd[r]])
    <3>1. rfd[r] # None => /\ stamp'[rfd[r]] \in Snapshots /\ stamp'[rfd[r]] = stamp[rfd[r]]
                           /\ data'[rfd[r]] = Snapshot(stamp'[rfd[r]])
      BY <1>1, <1>5, <2>1, WholeKept DEF ReaderInStep
    <3> QED  BY <1>2, <3>1 DEF Whole, readerVars, Snapshot, Snapshots
  <2> QED  BY <1>2, <2>1, <2>2 DEF ReaderInStep, readerVars
<1>10. OwnDirectory'
  BY <1>1, <1>2, <1>5 DEF Inv, TypeOK, OwnDirectory, Writing
<1> QED  BY <1>4, <1>6, <1>7, <1>8, <1>9, <1>10 DEF Inv

(* A flush that cannot open its file. *)
LEMMA OpenFailsInv ==
  ASSUME Inv, OpenFails
  PROVE  Inv'
<1> USE StatusFileAssumption DEF OpenFails, entries
<1>1. TypeOK'
  BY DEF Inv, TypeOK, WriterInStep, Writing, readerVars
<1>2. PathWhole' /\ TmpPrivate'
  BY DEF Inv, TypeOK, PathWhole, TmpPrivate, Whole, Snapshot, Snapshots, readerVars
<1>3. WriterInStep' /\ OwnDirectory'
  BY DEF Inv, WriterInStep, OwnDirectory, Writing
<1>4. ReadersInStep'
  BY ReadersUntouched DEF Inv, TypeOK
<1> QED  BY <1>1, <1>2, <1>3, <1>4 DEF Inv

(* A write(), complete or short. *)
LEMMA WriteInv ==
  ASSUME Inv, Write
  PROVE  Inv'
<1> USE StatusFileAssumption
<1>1. /\ pc = "write" /\ ver \in Snapshots /\ fd = tmp /\ fd \in Inodes
      /\ stamp[fd] = ver /\ data[fd] = [k \in 1 .. off |-> ver]
      /\ off \in Nat /\ Lines[ver] \in Nat
      /\ UNCHANGED <<entries, pc, fd, ver, stamp, newest, starts, birth, readerVars>>
  BY SnapshotLines DEF Write, Inv, TypeOK, WriterInStep, Writing, Snapshots
<1>2. PICK n \in 1 .. Lines[ver] - off :
        /\ data' = [data EXCEPT ![fd] = WriteAt(data[fd], off, n, ver)]
        /\ off' = off + n
  BY DEF Write, write_all
<1>3. n \in Nat /\ off + n <= Lines[ver]
  BY <1>1
<1>4. data' = [data EXCEPT ![fd] = [k \in 1 .. off + n |-> ver]]
  <2>1. Len(data[fd]) = off /\ \A k \in 1 .. off : data[fd][k] = ver
    BY <1>1
  <2>2. WriteAt(data[fd], off, n, ver)
          = [k \in 1 .. off + n |-> IF k \in off + 1 .. off + n THEN ver ELSE data[fd][k]]
    BY <1>1, <1>3, <2>1 DEF WriteAt
  <2>3. \A k \in 1 .. off + n : (IF k \in off + 1 .. off + n THEN ver ELSE data[fd][k]) = ver
    BY <1>1, <1>3, <2>1
  <2>4. WriteAt(data[fd], off, n, ver) = [k \in 1 .. off + n |-> ver]
    BY <2>2, <2>3
  <2> QED  BY <1>1, <1>2, <2>4
<1>5. TypeOK'
  <2>1. [k \in 1 .. off + n |-> ver] \in Seq(Snapshots)
    <3> SUFFICES ASSUME NEW v \in Snapshots, NEW m \in Nat
                 PROVE  [k \in 1 .. m |-> v] \in Seq(Snapshots)
      BY <1>1, <1>3
    <3> QED  OBVIOUS
  <2>2. data' \in [Inodes -> Seq(Snapshots)]
    BY <1>1, <1>4, <2>1 DEF Inv, TypeOK
  <2>3. off' \in 0 .. (IF ver' = 0 THEN 0 ELSE Lines[ver'])
    BY <1>1, <1>2, <1>3 DEF Snapshots
  <2>4. UNCHANGED <<dir, path, tmp, pc, fd, ver, stamp, newest, starts, birth, rfd, seen, eof, view>>
    BY <1>1 DEF readerVars, entries
  <2> QED  BY <2>2, <2>3, <2>4 DEF Inv, TypeOK
<1>6. \A j \in Inodes : j # tmp => data'[j] = data[j]
  BY <1>1, <1>4 DEF Inv, TypeOK
<1>7. PathWhole'
  BY <1>1, <1>6 DEF Inv, TypeOK, PathWhole, TmpPrivate, Whole, Snapshot, Snapshots, entries
<1>8. TmpPrivate' /\ OwnDirectory'
  BY <1>1 DEF Inv, TmpPrivate, OwnDirectory, readerVars, entries
<1>9. WriterInStep'
  <2>1. data'[fd] = [k \in 1 .. off' |-> ver]
    BY <1>1, <1>2, <1>4 DEF Inv, TypeOK
  <2> QED  BY <1>1, <2>1 DEF Inv, WriterInStep, Writing, entries
<1>10. ReadersInStep'
  BY <1>1, <1>6, ReadersUntouched DEF Inv, TypeOK
<1> QED  BY <1>5, <1>7, <1>8, <1>9, <1>10 DEF Inv

(* The write is complete, the file is synced, or one of the calls fails. *)
LEMMA SyncInv ==
  ASSUME Inv, Written \/ Fsync \/ WriteFails
  PROVE  Inv'
<1> USE StatusFileAssumption DEF Written, Fsync, WriteFails, entries, writerVars
<1>1. TypeOK'
  <2>1. /\ UNCHANGED <<data, dir, path, tmp, ver, stamp, newest, starts, birth, readerVars>>
        /\ off' \in {0, off} /\ fd' \in {None, fd} /\ pc' \in {"sync", "rename", "idle"}
    OBVIOUS
  <2>2. off' \in 0 .. (IF ver' = 0 THEN 0 ELSE Lines[ver']) /\ birth' \in 0 .. ver'
    BY <2>1, CountsKept DEF Inv
  <2>3. UNCHANGED <<rfd, seen, eof, view>>
    BY <2>1 DEF readerVars
  <2> HIDE DEF Written, Fsync, WriteFails, entries, writerVars
  <2> QED  BY <2>1, <2>2, <2>3 DEF Inv, TypeOK
<1>2. PathWhole' /\ TmpPrivate' /\ OwnDirectory'
  <2>1. UNCHANGED <<data, dir, path, tmp, ver, stamp, newest, birth, readerVars>>
    OBVIOUS
  <2>2. pc \in Writing /\ pc' \in Writing \cup {"idle"}
    BY DEF Writing
  <2> HIDE DEF Written, Fsync, WriteFails, entries, writerVars
  <2>3. PathWhole'
    BY <2>1 DEF Inv, PathWhole, Whole, Snapshot, Snapshots
  <2> QED  BY <2>1, <2>2, <2>3 DEF Inv, TmpPrivate, OwnDirectory, readerVars
<1>3. WriterInStep'
  BY DEF Inv, WriterInStep, Writing
<1>4. ReadersInStep'
  BY ReadersUntouched DEF Inv, TypeOK
<1> QED  BY <1>1, <1>2, <1>3, <1>4 DEF Inv

(* The rename publishes a file that is whole. *)
LEMMA RenameInv ==
  ASSUME Inv, Rename
  PROVE  Inv'
<1> USE StatusFileAssumption
<1>1. /\ path' = tmp /\ tmp' = None /\ newest' = ver /\ fd' = None /\ off' = 0 /\ pc' = "idle"
      /\ UNCHANGED <<data, dir, ver, stamp, starts, birth, readerVars>>
      /\ tmp \in Inodes /\ ver \in Snapshots /\ newest < ver /\ birth < ver
      /\ stamp[tmp] = ver /\ data[tmp] = [k \in 1 .. Lines[ver] |-> ver] /\ dir
  BY DEF Rename, Inv, TypeOK, WriterInStep, OwnDirectory, Writing
<1>2. stamp'[path'] = ver /\ data'[path'] = [k \in 1 .. Lines[ver] |-> ver]
  BY <1>1
<1>3. TypeOK'
  <2>1. off' \in 0 .. (IF ver' = 0 THEN 0 ELSE Lines[ver']) /\ birth' \in 0 .. ver'
    BY <1>1, CountsKept DEF Inv
  <2>2. /\ path' \in Inodes /\ newest' = ver /\ tmp' = None /\ fd' = None /\ pc' = "idle"
        /\ UNCHANGED <<data, dir, ver, stamp, starts, rfd, seen, eof, view>>
    BY <1>1 DEF readerVars
  <2> QED  BY <2>1, <2>2 DEF Inv, TypeOK
<1>4. PathWhole' /\ TmpPrivate' /\ WriterInStep' /\ OwnDirectory'
  <2>1. PathWhole'
    BY <1>1, <1>2, Counts DEF Inv, PathWhole, Whole, Snapshot, Snapshots
  <2> QED  BY <1>1, <2>1, Counts DEF Inv, TmpPrivate, WriterInStep, OwnDirectory, Writing
<1>5. ReadersInStep'
  BY <1>1, ReadersUntouched DEF Inv, TypeOK
<1> QED  BY <1>3, <1>4, <1>5 DEF Inv

(* A reader opens the status file. *)
LEMMA OpenStatusInv ==
  ASSUME Inv, NEW r \in Readers, OpenStatus(r)
  PROVE  Inv'
<1> USE StatusFileAssumption DEF entries, writerVars
<1>1. /\ rfd[r] = None /\ path \in Inodes /\ Whole(path) /\ stamp[path] <= newest
      /\ rfd' = [rfd EXCEPT ![r] = path]
      /\ view' = [view EXCEPT ![r] = stamp[path]]
      /\ UNCHANGED <<data, entries, pc, writerVars, seen, eof>>
  BY DEF OpenStatus, Inv, TypeOK, PathWhole
<1>2. TypeOK'
  BY <1>1 DEF Inv, TypeOK
<1>3. PathWhole' /\ WriterInStep' /\ OwnDirectory'
  BY <1>1 DEF Inv, PathWhole, Whole, WriterInStep, OwnDirectory, Snapshot, Snapshots
<1>4. TmpPrivate'
  BY <1>1 DEF Inv, TypeOK, TmpPrivate
<1>5. ReadersInStep'
  <2> SUFFICES ASSUME NEW q \in Readers PROVE ReaderInStep(q)'
    BY DEF ReadersInStep
  <2>1. ReaderInStep(q)
    BY DEF Inv, ReadersInStep
  <2>2. CASE q # r
    BY <1>1, <2>1, <2>2 DEF Inv, TypeOK, ReaderInStep, Whole, Snapshot, Snapshots
  <2>3. CASE q = r
    <3>1. rfd'[q] = path /\ view'[q] = stamp[path] /\ seen'[q] = <<>> /\ ~eof'[q]
      BY <1>1, <2>1, <2>3 DEF Inv, TypeOK, ReaderInStep
    <3>2. Lines[stamp[path]] \in Nat
      BY <1>1, SnapshotLines DEF Whole
    <3>3. Whole(rfd[q])'
      BY <1>1, <3>1 DEF Whole, Snapshot, Snapshots
    <3> QED  BY <1>1, <3>1, <3>2, <3>3 DEF ReaderInStep
  <2> QED  BY <2>2, <2>3
<1> QED  BY <1>2, <1>3, <1>4, <1>5 DEF Inv

(* A reader reads some lines, or finds the end. *)
LEMMA ReadLinesInv ==
  ASSUME Inv, NEW r \in Readers, ReadLines(r)
  PROVE  Inv'
<1> USE StatusFileAssumption DEF entries, writerVars
<1>1. /\ rfd[r] # None /\ ~eof[r]
      /\ UNCHANGED <<data, entries, pc, writerVars, rfd, view>>
  BY DEF ReadLines
<1>2. /\ ReaderInStep(r) /\ seen[r] \in Seq(Snapshots) /\ view[r] \in Snapshots
      /\ data[rfd[r]] = Snapshot(view[r]) /\ Len(data[rfd[r]]) = Lines[view[r]]
      /\ Lines[view[r]] \in Nat /\ Len(seen[r]) \in Nat
  <2>1. ReaderInStep(r) /\ seen[r] \in Seq(Snapshots)
    BY DEF Inv, ReadersInStep, TypeOK
  <2>2. view[r] \in Snapshots /\ data[rfd[r]] = Snapshot(view[r])
    BY <1>1, <2>1 DEF ReaderInStep, Whole
  <2> QED  BY <2>1, <2>2, SnapshotLines
<1>3. /\ seen' \in [Readers -> Seq(Snapshots)] /\ eof' \in [Readers -> BOOLEAN]
      /\ \A q \in Readers : q # r => seen'[q] = seen[q] /\ eof'[q] = eof[q]
      /\ Len(seen'[r]) <= Lines[view[r]]
      /\ \A k \in 1 .. Len(seen'[r]) : seen'[r][k] = view[r]
      /\ eof'[r] => Len(seen'[r]) = Lines[view[r]]
  <2>1. CASE \E n \in 1 .. Lines[view[r]] - Len(seen[r]) :
               /\ seen' = [seen EXCEPT ![r] =
                    seen[r] \o SubSeq(Snapshot(view[r]), Len(seen[r]) + 1, Len(seen[r]) + n)]
               /\ UNCHANGED eof
    <3>1. PICK n \in 1 .. Lines[view[r]] - Len(seen[r]) :
               /\ seen' = [seen EXCEPT ![r] =
                    seen[r] \o SubSeq(Snapshot(view[r]), Len(seen[r]) + 1, Len(seen[r]) + n)]
               /\ UNCHANGED eof
      BY <2>1
    <3>2. PICK v \in Snapshots : v = view[r]
      BY <1>2
    <3>3. PICK s \in Seq(Snapshots) : s = seen[r]
      BY <1>2
    <3> DEFINE t == ReadMore(s, v, n)
    <3>4. t \in Seq(Snapshots) /\ Len(t) = Len(s) + n /\ \A k \in 1 .. Len(s) + n : t[k] = v
      <4>1. n \in Nat /\ Len(s) + n <= Lines[v] /\ \A k \in 1 .. Len(s) : s[k] = v
        BY <1>1, <1>2, <3>2, <3>3 DEF ReaderInStep
      <4> QED  BY <4>1, ReadOn, Zenon
    <3>5. seen' = [seen EXCEPT ![r] = t]
      BY <3>1, <3>2, <3>3 DEF ReadMore
    <3> HIDE DEF t
    <3>6. Len(t) <= Lines[view[r]] /\ \A k \in 1 .. Len(t) : t[k] = view[r]
      BY <1>2, <3>2, <3>3, <3>4
    <3>7. seen \in [Readers -> Seq(Snapshots)] /\ eof \in [Readers -> BOOLEAN]
      BY DEF Inv, TypeOK
    <3> QED  BY <1>1, <3>1, <3>4, <3>5, <3>6, <3>7
  <2>2. CASE /\ Lines[view[r]] - Len(seen[r]) <= 0
             /\ eof' = [eof EXCEPT ![r] = TRUE] /\ UNCHANGED seen
    <3>1. eof' \in [Readers -> BOOLEAN]
      BY <2>2, Zenon DEF Inv, TypeOK
    <3>2. Len(seen[r]) = Lines[view[r]] /\ \A k \in 1 .. Len(seen[r]) : seen[r][k] = view[r]
      BY <1>1, <1>2, <2>2 DEF ReaderInStep
    <3>3. \A q \in Readers : q # r => eof'[q] = eof[q]
      BY <2>2 DEF Inv, TypeOK
    <3> QED  BY <1>2, <2>2, <3>1, <3>2, <3>3 DEF Inv, TypeOK
  <2> QED  BY <1>2, <2>1, <2>2 DEF ReadLines
<1>4. TypeOK'
  BY <1>1, <1>3 DEF Inv, TypeOK
<1>5. PathWhole' /\ WriterInStep' /\ OwnDirectory' /\ TmpPrivate'
  BY <1>1 DEF Inv, PathWhole, Whole, WriterInStep, OwnDirectory, TmpPrivate, Snapshot, Snapshots
<1>6. ReadersInStep'
  <2> SUFFICES ASSUME NEW q \in Readers PROVE ReaderInStep(q)'
    BY DEF ReadersInStep
  <2>1. ReaderInStep(q)
    BY DEF Inv, ReadersInStep
  <2>2. CASE q # r
    BY <1>1, <1>3, <2>1, <2>2 DEF ReaderInStep, Whole, Snapshot, Snapshots
  <2>3. CASE q = r
    <3>1. Whole(rfd[q])' /\ view'[q] = stamp'[rfd'[q]] /\ view'[q] <= newest'
      BY <1>1, <2>1, <2>3 DEF ReaderInStep, Whole, Snapshot, Snapshots
    <3> QED  BY <1>1, <1>3, <2>3, <3>1 DEF ReaderInStep
  <2> QED  BY <2>2, <2>3
<1> QED  BY <1>4, <1>5, <1>6 DEF Inv

(* A reader closes the file. *)
LEMMA CloseStatusInv ==
  ASSUME Inv, NEW r \in Readers, CloseStatus(r)
  PROVE  Inv'
<1> USE StatusFileAssumption DEF entries, writerVars
<1>1. /\ rfd' = [rfd EXCEPT ![r] = None]
      /\ seen' = [seen EXCEPT ![r] = <<>>]
      /\ eof' = [eof EXCEPT ![r] = FALSE]
      /\ UNCHANGED <<data, entries, pc, writerVars, view>>
  BY DEF CloseStatus
<1>2. eof' \in [Readers -> BOOLEAN]
  BY <1>1, Zenon DEF Inv, TypeOK
<1>3. TypeOK'
  BY <1>1, <1>2 DEF Inv, TypeOK
<1>4. PathWhole' /\ WriterInStep' /\ OwnDirectory'
  BY <1>1 DEF Inv, PathWhole, Whole, WriterInStep, OwnDirectory, Snapshot, Snapshots
<1>5. TmpPrivate'
  BY <1>1 DEF Inv, TypeOK, TmpPrivate
<1>6. ReadersInStep'
  <2> SUFFICES ASSUME NEW q \in Readers PROVE ReaderInStep(q)'
    BY DEF ReadersInStep
  <2>1. ReaderInStep(q)
    BY DEF Inv, ReadersInStep
  <2>2. CASE q # r
    BY <1>1, <2>1, <2>2 DEF Inv, TypeOK, ReaderInStep, Whole, Snapshot, Snapshots
  <2>3. CASE q = r
    BY <1>1, <2>1, <2>3 DEF Inv, TypeOK, ReaderInStep
  <2> QED  BY <2>2, <2>3
<1> QED  BY <1>3, <1>4, <1>5, <1>6 DEF Inv

(* A step that changes nothing. *)
LEMMA StutterInv ==
  ASSUME Inv, UNCHANGED vars
  PROVE  Inv'
<1> USE DEF vars, entries, writerVars, readerVars
<1>1. TypeOK'
  BY DEF Inv, TypeOK
<1>2. PathWhole' /\ WriterInStep' /\ OwnDirectory' /\ TmpPrivate'
  BY DEF Inv, PathWhole, Whole, WriterInStep, OwnDirectory, TmpPrivate, Snapshot, Snapshots
<1>3. ReadersInStep'
  BY DEF Inv, ReadersInStep, ReaderInStep, Whole, Snapshot, Snapshots
<1> QED  BY <1>1, <1>2, <1>3 DEF Inv

(* Every step preserves the invariant. *)
LEMMA NextInv == Inv /\ [Next]_vars => Inv'
<1> SUFFICES ASSUME Inv, [Next]_vars PROVE Inv'
  OBVIOUS
<1>1. CASE Main
  BY <1>1, MainInv DEF Main
<1>2. CASE Flush
  BY <1>2, OpenTmpInv, OpenFailsInv, WriteInv, SyncInv, RenameInv DEF Flush
<1>3. CASE ReaderStep
  BY <1>3, OpenStatusInv, ReadLinesInv, CloseStatusInv DEF ReaderStep
<1>4. CASE UNCHANGED vars
  BY <1>4, StutterInv
<1> QED  BY <1>1, <1>2, <1>3, <1>4 DEF Next

(* The invariant holds in every reachable state. *)
LEMMA Invariance == Spec => []Inv
BY InitInv, NextInv, PTL DEF Spec

-----------------------------------------------------------------------------
(* The theorems *)

(* Every variable has its type. *)
THEOREM StatusTypeCorrect == Spec => []TypeOK
<1>1. Inv => TypeOK
  BY DEF Inv
<1> QED  BY <1>1, Invariance, PTL

(* Whoever opens the status file and reads it to the end has exactly one     *)
(* snapshot, the one that was published when it opened the file: write to a  *)
(* temporary file, then rename, is enough for any number of readers and any  *)
(* sizes, although every call may fail and svlopp may be killed anywhere.    *)
THEOREM ReadersAreSafe == Spec => []ReadersSeeWholeSnapshots
<1>1. Inv => ReadersSeeWholeSnapshots
  <2> SUFFICES ASSUME Inv, NEW r \in Readers, eof[r] PROVE seen[r] = Snapshot(view[r])
    BY DEF ReadersSeeWholeSnapshots
  <2>1. ReaderInStep(r) /\ seen[r] \in Seq(Snapshots)
    BY DEF Inv, ReadersInStep, TypeOK
  <2>2. /\ view[r] \in Snapshots /\ Len(seen[r]) = Lines[view[r]]
        /\ \A k \in 1 .. Len(seen[r]) : seen[r][k] = view[r]
    BY <2>1 DEF ReaderInStep, Whole
  <2> QED  BY <2>1, <2>2, AllLinesRead
<1> QED  BY <1>1, Invariance, PTL

(* A svlopp that runs never leaves the file of an earlier one, dead or       *)
(* killed, under the name of the status file: it only runs in a directory    *)
(* that it has created.                                                      *)
THEOREM DirectoryIsFresh == Spec => []FreshDirectory
<1>1. Inv => FreshDirectory
  BY DEF Inv, OwnDirectory, FreshDirectory, Writing
<1> QED  BY <1>1, Invariance, PTL

(* A whole file under path is the snapshot it was opened for. *)
LEMMA PublishedWhole ==
  ASSUME Inv
  PROVE  /\ path = None => Published = 0
         /\ path # None => Published = stamp[path] /\ stamp[path] \in Snapshots
BY DEF Inv, PathWhole, Whole, Published

(* An inode that stays under path, and whole, stays published. *)
LEMMA PublishedKept ==
  ASSUME Inv, Inv', path' = path, path # None => stamp'[path] = stamp[path]
  PROVE  Published' = Published
<1>1. /\ path' = None => Published' = 0
      /\ path' # None => Published' = stamp'[path']
  BY DEF Inv, PathWhole, Whole, Published, Snapshot, Snapshots
<1> QED  BY <1>1, PublishedWhole

(* The writes, syncs, renames, unlinks and crashes of svlopp, as its readers *)
(* see them, are a register that is replaced or emptied in one step: the     *)
(* file system protocol implements StatusRegister.                           *)
THEOREM FileIsARegister == Spec => RegisterSpec
<1>1. Init => Register!Init
  BY DEF Init, Register!Init, Published, Register!NoSnapshot
<1>2. Inv /\ Inv' /\ [Next]_vars => [Register!Next]_(Register!vars)
  <2> SUFFICES ASSUME Inv, Inv', [Next]_vars PROVE [Register!Next]_(Register!vars)
    OBVIOUS
  <2> USE DEF Register!vars
  <2>1. CASE Rename
    <3>1. path' = tmp /\ newest' = ver /\ newest < ver /\ stamp' = stamp /\ view' = view
      BY <2>1 DEF Rename, Inv, WriterInStep, Writing, readerVars
    <3>2. Published' = ver
      BY <2>1, <3>1 DEF Rename, Inv, WriterInStep, Writing, PathWhole, Whole, Published,
           Snapshot, Snapshots
    <3>3. Register!Publish
      BY <3>1, <3>2 DEF Register!Publish
    <3> QED  BY <3>3 DEF Register!Next
  <2>2. CASE RemoveEntry
    <3>1. CASE path' = None
      <4>1. Published' = 0 /\ UNCHANGED <<newest, view>>
        BY <2>2, <3>1 DEF Published, RemoveEntry, writerVars, readerVars
      <4> QED  BY <4>1 DEF Register!Clear, Register!Next, Register!NoSnapshot
    <3>2. CASE path' = path
      BY <2>2, <3>2, PublishedKept DEF RemoveEntry, writerVars, readerVars
    <3> QED  BY <2>2, <3>1, <3>2 DEF RemoveEntry
  <2>3. CASE OpenTmp
    <3>1. path # None => stamp'[path] = stamp[path]
      BY <2>3 DEF OpenTmp, Opened, FreeInodes, Inv, TypeOK, TmpPrivate
    <3> QED  BY <2>3, <3>1, PublishedKept DEF OpenTmp, readerVars
  <2>4. ASSUME NEW r \in Readers, OpenStatus(r) PROVE Register!Next
    <3>1. /\ path # None /\ view' = [view EXCEPT ![r] = stamp[path]]
          /\ UNCHANGED <<path, stamp, newest>>
      BY <2>4 DEF OpenStatus, entries, writerVars
    <3>2. Published = stamp[path] /\ Published # 0 /\ Published' = Published
      BY <3>1, PublishedWhole, PublishedKept DEF Snapshots
    <3>3. Register!Sample(r)
      BY <3>1, <3>2 DEF Register!Sample, Register!NoSnapshot
    <3> QED  BY <2>4, <3>3 DEF Register!Next
  <2>5. CASE \/ Start \/ RemoveReturns \/ Mkdir \/ RunReturns \/ Crash
             \/ OpenFails \/ Write \/ Written \/ Fsync \/ WriteFails
    <3>1. UNCHANGED <<path, stamp, newest, view>>
      BY <2>5 DEF Start, RemoveReturns, Mkdir, RunReturns, Crash, OpenFails, Write, Written,
           Fsync, WriteFails, entries, writerVars, readerVars
    <3> QED  BY <3>1, PublishedKept
  <2>6. ASSUME NEW r \in Readers, ReadLines(r) \/ CloseStatus(r) PROVE UNCHANGED Register!vars
    <3>1. UNCHANGED <<path, stamp, newest, view>>
      BY <2>6 DEF ReadLines, CloseStatus, entries, writerVars
    <3> QED  BY <3>1, PublishedKept
  <2>7. CASE UNCHANGED vars
    <3>1. UNCHANGED <<path, stamp, newest, view>>
      BY <2>7 DEF vars, entries, writerVars, readerVars
    <3> QED  BY <3>1, PublishedKept
  <2> QED  BY <2>1, <2>2, <2>3, <2>4, <2>5, <2>6, <2>7 DEF Next, Main, Flush, ReaderStep
<1> QED  BY <1>1, <1>2, Invariance, PTL DEF Spec, RegisterSpec, Register!Spec

=============================================================================
