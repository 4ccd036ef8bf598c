----------------------------- MODULE StatusFile -----------------------------
(***************************************************************************)
(* How svlopp replaces its status file under the eyes of its readers:      *)
(* write_status_file (src/status.rs) with write_all (src/utils.rs), and    *)
(* the run directory the file lives in (`main` of src/main.rs).            *)
(*                                                                         *)
(* Files are inodes; the run directory has two entries, path and tmp_path. *)
(* An inode lives as long as an entry or a descriptor refers to it.  Any   *)
(* system call may fail, and svlopp may be killed between any two of them. *)
(* The lines of a snapshot are represented by its number: a file that      *)
(* mixes two snapshots, or lacks a line, shows.                            *)
(***************************************************************************)
EXTENDS Integers, Sequences

CONSTANTS
  Inodes,     \* inodes of the file system
  Readers,    \* processes that read the status file
  None,       \* no inode
  Lines,      \* Lines[v]: the lines of the v-th snapshot, one per service
  MaxStarts   \* bound: how often svlopp is started

Snapshots == 1 .. Len(Lines)
Snapshot(v) == [k \in 1 .. Lines[v] |-> v]

ASSUME StatusFileAssumption ==
  /\ None \notin Inodes
  /\ Lines \in Seq(Nat)
  /\ MaxStarts \in Nat

VARIABLES
  (* the file system *)
  data,    \* inode -> its lines
  dir,     \* whether the run directory exists
  path,    \* the inode under the name of the status file
  tmp,     \* the inode under the temporary name
  (* svlopp *)
  pc,      \* where it is, "down" when it does not run
  fd,      \* the inode write_status_file writes to
  off,     \* lines it has written
  ver,     \* history: the number of the snapshot it took last
  stamp,   \* history: inode -> the snapshot it was opened for
  newest,  \* history: the snapshot published last
  starts,  \* history: how often svlopp was started
  birth,   \* history: the last snapshot taken before it was started
  (* readers *)
  rfd,     \* reader -> the inode it has open
  seen,    \* reader -> the lines it has read from it
  eof,     \* reader -> whether it has read to the end
  view     \* history: reader -> the snapshot it opened last

entries    == <<dir, path, tmp>>
writerVars == <<fd, off, ver, stamp, newest, starts, birth>>
readerVars == <<rfd, seen, eof, view>>
vars == <<data, entries, pc, writerVars, readerVars>>

Init ==
  /\ data = [i \in Inodes |-> <<>>]
  /\ dir = FALSE /\ path = None /\ tmp = None
  /\ pc = "down" /\ fd = None /\ off = 0 /\ ver = 0
  /\ stamp = [i \in Inodes |-> 0]
  /\ newest = 0 /\ starts = 0 /\ birth = 0
  /\ rfd = [r \in Readers |-> None]
  /\ seen = [r \in Readers |-> <<>>]
  /\ eof = [r \in Readers |-> FALSE]
  /\ view = [r \in Readers |-> 0]

-----------------------------------------------------------------------------
(* main: the run directory is emptied and created anew, and removed at the end *)

Start ==
  /\ pc = "down"
  /\ starts < MaxStarts
  /\ starts' = starts + 1
  /\ birth' = ver
  /\ pc' = "clear"
  /\ UNCHANGED <<data, entries, fd, off, ver, stamp, newest, readerVars>>

(* remove_dir_all unlinks the entries one by one, in any order *)
RemoveEntry ==
  /\ pc \in {"clear", "cleanup"}
  /\ \/ path # None /\ path' = None /\ UNCHANGED tmp
     \/ tmp # None /\ tmp' = None /\ UNCHANGED path
  /\ UNCHANGED <<data, dir, pc, writerVars, readerVars>>

(* an error, other than a missing directory, is only logged *)
RemoveReturns ==
  /\ pc \in {"clear", "cleanup"}
  /\ \/ path = None /\ tmp = None /\ dir' = FALSE
     \/ dir /\ UNCHANGED dir
  /\ pc' = IF pc = "clear" THEN "mkdir" ELSE "down"
  /\ UNCHANGED <<data, path, tmp, writerVars, readerVars>>

(* mutant: a directory that exists already is used as it is *)
MutMkdir ==
  /\ pc = "mkdir"
  /\ dir' = TRUE /\ pc' = "idle"
  /\ UNCHANGED <<data, path, tmp, writerVars, readerVars>>

(* a directory that is still there, or cannot be made, ends the program *)
Mkdir ==
  /\ pc = "mkdir"
  /\ \/ ~dir /\ dir' = TRUE /\ pc' = "idle"
     \/ UNCHANGED dir /\ pc' = "down"
  /\ UNCHANGED <<data, path, tmp, writerVars, readerVars>>

(* `run` returns *)
RunReturns ==
  /\ pc = "idle"
  /\ pc' = "cleanup"
  /\ UNCHANGED <<data, entries, writerVars, readerVars>>

(* svlopp is killed; its descriptor is closed, the files stay *)
Crash ==
  /\ pc # "down"
  /\ pc' = "down"
  /\ fd' = None /\ off' = 0
  /\ UNCHANGED <<data, entries, ver, stamp, newest, starts, birth, readerVars>>

-----------------------------------------------------------------------------
(* flush_status_file *)

(* inodes that nothing refers to *)
FreeInodes == Inodes \ ({path, tmp} \cup {rfd[r] : r \in Readers})

(* mutant: the file is not truncated when it is opened *)
MutTruncated(i) == IF i = tmp THEN data[i] ELSE <<>>

(* O_TRUNC *)
Truncated(i) == <<>>

(* mutant: the status file itself is opened and rewritten *)
MutOpened == IF path # None THEN path ELSE None

(* O_CREAT opens the inode under tmp_path, which a failed write may have left *)
Opened == tmp

OpenTmp ==
  /\ pc = "idle"
  /\ ver < Len(Lines)
  /\ ver' = ver + 1
  /\ off' = 0
  /\ \E i \in IF Opened = None THEN FreeInodes ELSE {Opened} :
       /\ fd' = i
       /\ tmp' = i
       /\ data' = [data EXCEPT ![i] = Truncated(i)]
       /\ stamp' = [stamp EXCEPT ![i] = ver + 1]
  /\ pc' = "write"
  /\ UNCHANGED <<dir, path, newest, starts, birth, readerVars>>

OpenFails ==
  /\ pc = "idle"
  /\ ver < Len(Lines)
  /\ ver' = ver + 1
  /\ UNCHANGED <<data, entries, pc, fd, off, stamp, newest, starts, birth, readerVars>>

(* the lines of a file after n lines of snapshot v are written at offset o *)
WriteAt(lines, o, n, v) ==
  [k \in 1 .. (IF o + n > Len(lines) THEN o + n ELSE Len(lines)) |->
     IF k \in o + 1 .. o + n THEN v ELSE lines[k]]

(* mutants: one too many is skipped; what was written is written again *)
MutWriteAll(n) == off' = off + n + 1
MutWriteAgain(n) == off' = off

(* write_all goes on after the n lines a write() took *)
write_all(n) == off' = off + n

(* A write() takes some of the lines.  On a regular file it never returns 0, *)
(* on which the loop of write_all would go on for ever.                       *)
Write ==
  /\ pc = "write"
  /\ \E n \in 1 .. Lines[ver] - off :
       /\ data' = [data EXCEPT ![fd] = WriteAt(@, off, n, ver)]
       /\ write_all(n)
  /\ UNCHANGED <<entries, pc, fd, ver, stamp, newest, starts, birth, readerVars>>

Written ==
  /\ pc = "write"
  /\ off = Lines[ver]
  /\ pc' = "sync"
  /\ UNCHANGED <<data, entries, writerVars, readerVars>>

Fsync ==
  /\ pc = "sync"
  /\ pc' = "rename"
  /\ UNCHANGED <<data, entries, writerVars, readerVars>>

(* the rename, the return and the close of the descriptor *)
Rename ==
  /\ pc = "rename"
  /\ path' = tmp /\ tmp' = None
  /\ newest' = ver
  /\ fd' = None /\ off' = 0
  /\ pc' = "idle"
  /\ UNCHANGED <<data, dir, ver, stamp, starts, birth, readerVars>>

(* write, fsync or rename fails: an early return, and the error is logged *)
WriteFails ==
  /\ pc \in {"write", "sync", "rename"}
  /\ fd' = None /\ off' = 0
  /\ pc' = "idle"
  /\ UNCHANGED <<data, entries, ver, stamp, newest, starts, birth, readerVars>>

-----------------------------------------------------------------------------
(* Readers: open, read until the end, close *)

OpenStatus(r) ==
  /\ rfd[r] = None
  /\ path # None
  /\ rfd' = [rfd EXCEPT ![r] = path]
  /\ view' = [view EXCEPT ![r] = stamp[path]]
  /\ UNCHANGED <<data, entries, pc, writerVars, seen, eof>>

ReadLines(r) ==
  LET lines == data[rfd[r]]
      left == Len(lines) - Len(seen[r]) IN
  /\ rfd[r] # None
  /\ ~eof[r]
  /\ \/ \E n \in 1 .. left :
          /\ seen' = [seen EXCEPT ![r] = @ \o SubSeq(lines, Len(@) + 1, Len(@) + n)]
          /\ UNCHANGED eof
     \/ left <= 0 /\ eof' = [eof EXCEPT ![r] = TRUE] /\ UNCHANGED seen
  /\ UNCHANGED <<data, entries, pc, writerVars, rfd, view>>

CloseStatus(r) ==
  /\ rfd[r] # None
  /\ rfd' = [rfd EXCEPT ![r] = None]
  /\ seen' = [seen EXCEPT ![r] = <<>>]
  /\ eof' = [eof EXCEPT ![r] = FALSE]
  /\ UNCHANGED <<data, entries, pc, writerVars, view>>

-----------------------------------------------------------------------------
Flush == OpenTmp \/ OpenFails \/ Write \/ Written \/ Fsync \/ Rename \/ WriteFails
Main == Start \/ RemoveEntry \/ RemoveReturns \/ Mkdir \/ RunReturns \/ Crash

ReaderStep == \E r \in Readers : OpenStatus(r) \/ ReadLines(r) \/ CloseStatus(r)

Next == Main \/ Flush \/ ReaderStep

(* a flush that was begun is continued; no call need fail, and nothing else *)
(* need happen                                                              *)
Spec == Init /\ [][Next]_vars /\ WF_vars(Write \/ Written \/ Fsync \/ Rename)

-----------------------------------------------------------------------------
(* Properties *)

(* Every variable has its type. *)
TypeOK ==
  /\ data \in [Inodes -> Seq(Snapshots)]
  /\ dir \in BOOLEAN
  /\ path \in Inodes \cup {None} /\ tmp \in Inodes \cup {None}
  /\ pc \in {"down", "clear", "mkdir", "idle", "write", "sync", "rename", "cleanup"}
  /\ fd \in Inodes \cup {None}
  /\ ver \in 0 .. Len(Lines) /\ newest \in 0 .. Len(Lines)
  /\ off \in 0 .. (IF ver = 0 THEN 0 ELSE Lines[ver])
  /\ stamp \in [Inodes -> 0 .. Len(Lines)]
  /\ starts \in 0 .. MaxStarts
  /\ birth \in 0 .. ver
  /\ rfd \in [Readers -> Inodes \cup {None}]
  /\ seen \in [Readers -> Seq(Snapshots)]
  /\ eof \in [Readers -> BOOLEAN]
  /\ view \in [Readers -> 0 .. Len(Lines)]

(* A reader that opened the status file and read it to the end has exactly  *)
(* the lines of the snapshot that was published when it opened it: none is  *)
(* missing, none is of another snapshot, although the file is replaced any  *)
(* number of times, and the directory removed, while it reads.              *)
ReadersSeeWholeSnapshots ==
  \A r \in Readers : eof[r] => seen[r] = Snapshot(view[r])

(* the snapshot a reader would find now; -1 for a file that is not whole *)
Published ==
  IF path = None THEN 0
  ELSE IF stamp[path] \in Snapshots /\ data[path] = Snapshot(stamp[path]) THEN stamp[path]
  ELSE -1

Register == INSTANCE StatusRegister WITH current <- Published

(* Replacing the file in one step is what all of this amounts to: the       *)
(* register that Supervisor's flush_status_file assumes.  Opening the file  *)
(* again never shows an older state than before, across failed writes,      *)
(* crashes and restarts of svlopp.                                          *)
RegisterSpec == Register!Spec

(* A file that a dead svlopp left behind is never shown as the status of    *)
(* the one that runs now: what `run` publishes replaces an empty directory. *)
FreshDirectory ==
  pc \in {"idle", "write", "sync", "rename"} /\ path # None => stamp[path] > birth

(* A flush ends, with the file replaced or not: write_all makes progress    *)
(* with every write, however short.                                         *)
FlushEnds == pc = "write" ~> pc \in {"idle", "down"}
=============================================================================
