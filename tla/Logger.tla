------------------------------- MODULE Logger -------------------------------
(***************************************************************************)
(* The log that every thread writes to: Logger::log with one               *)
(* FileLogDestination (Common/src/Logger.cpp).  When the file has grown    *)
(* past its limit the next writer renames it and its backups one after the *)
(* other; the program may be killed and started again between any two of   *)
(* these system calls.                                                     *)
(*                                                                         *)
(* A line is abstracted to the moment its timestamp was taken, which is    *)
(* before the mutex is locked.  std::endl flushes every line.  The console *)
(* destination keeps no state.  Lines below the minimum level never get    *)
(* here; the level is set before the threads start.                        *)
(***************************************************************************)
EXTENDS Naturals, Sequences, SequencesExt

CONSTANTS
  Thread,          (* The threads of the program.                          *)
  Free,            (* The owner of m_logMutex when nobody holds it.        *)
  MaxFileSize,     (* m_maxFileSize, in lines.                             *)
  MaxBackupFiles,  (* m_maxBackupFiles.                                    *)
  MaxLines,        (* Bound: lines that are logged.                        *)
  MaxCrashes       (* Bound: times the program is killed.                  *)

ASSUME LoggerAssumption ==
  /\ Free \notin Thread
  /\ MaxFileSize \in Nat /\ MaxBackupFiles \in Nat
  /\ MaxLines \in Nat /\ MaxCrashes \in Nat

Current == 0                                  (* The index of m_filename,   *)
Oldest  == IF MaxBackupFiles > 1 THEN MaxBackupFiles ELSE 1
Index   == Current .. Oldest                  (* of m_filename.i otherwise. *)

VARIABLES
  pc,       (* "idle", "lock", "write", "rename", "reopen" or "append".    *)
  stamp,    (* The thread's entry.timestamp.                               *)
  mutex,    (* The thread that holds m_logMutex, or Free.                  *)
  clock,    (* The last timestamp taken.                                   *)
  opened,   (* m_file.is_open()                                            *)
  disk,     (* The lines of each file that exists, by its index.           *)
  step,     (* i, the backup that is renamed next, Current after the last. *)
  written,  (* History: the lines in the order in which they were written. *)
  failed,   (* History: a file could not be renamed.                       *)
  crashes   (* How often the program was killed.                           *)

logVars == <<mutex, opened, disk, step, written, failed, crashes>>
vars == <<pc, stamp, clock, logVars>>

(* m_file.open with ios::app and with ios::trunc.                          *)
OpenTruncated(files) ==
  [i \in DOMAIN files \cup {Current} |-> IF i = Current THEN <<>> ELSE files[i]]

OpenToAppend(files) ==
  [i \in DOMAIN files \cup {Current} |-> IF i \in DOMAIN files THEN files[i] ELSE <<>>]

Moves(t, from, to) == pc[t] = from /\ pc' = [pc EXCEPT ![t] = to]

-----------------------------------------------------------------------------
(* Logger::log                                                             *)

TakeTimestamp(t) ==
  /\ clock < MaxLines
  /\ Moves(t, "idle", "lock")
  /\ clock' = clock + 1
  /\ stamp' = [stamp EXCEPT ![t] = clock']
  /\ UNCHANGED logVars

(* Mutant: writers do not exclude each other.                              *)
LockShared(t) ==
  /\ mutex' = t
  /\ Moves(t, "lock", "write")
  /\ UNCHANGED <<stamp, clock, opened, disk, step, written, failed, crashes>>

Lock(t) ==
  /\ mutex = Free
  /\ mutex' = t
  /\ Moves(t, "lock", "write")
  /\ UNCHANGED <<stamp, clock, opened, disk, step, written, failed, crashes>>

Unlock == mutex' = Free

-----------------------------------------------------------------------------
(* FileLogDestination::write, and the end of log, which ignores the result *)

WriteRefused(t) ==
  /\ ~opened
  /\ Moves(t, "write", "idle")
  /\ Unlock
  /\ UNCHANGED <<stamp, clock, opened, disk, step, written, failed, crashes>>

SizeExceeded == Len(disk[Current]) > MaxFileSize

AppendLine(t, from) ==
  /\ Moves(t, from, "idle")
  /\ disk' = [disk EXCEPT ![Current] = Append(@, stamp[t])]
  /\ written' = Append(written, stamp[t])
  /\ Unlock
  /\ UNCHANGED <<stamp, clock, opened, step, failed, crashes>>

(* Mutant: the size is not looked at.                                      *)
WriteUnchecked(t) == opened /\ AppendLine(t, "write")

Write(t) == opened /\ ~SizeExceeded /\ AppendLine(t, "write")

(* Mutant: the line that made the file rotate is forgotten.                *)
WriteRotatedNothing(t) ==
  /\ opened
  /\ Moves(t, "append", "idle")
  /\ Unlock
  /\ UNCHANGED <<stamp, clock, opened, disk, step, written, failed, crashes>>

WriteRotated(t) == opened /\ AppendLine(t, "append")

(* The file could not be opened again: m_file drops the line.              *)
LineDropped(t) ==
  /\ ~opened
  /\ Moves(t, "append", "idle")
  /\ Unlock
  /\ UNCHANGED <<stamp, clock, opened, disk, step, written, failed, crashes>>

-----------------------------------------------------------------------------
(* FileLogDestination::rotateFile                                          *)

CloseFor(t, first) ==
  /\ opened /\ SizeExceeded
  /\ Moves(t, "write", "rename")
  /\ opened' = FALSE
  /\ step' = first
  /\ UNCHANGED <<stamp, mutex, clock, disk, written, failed, crashes>>

(* Mutant: only the current file is renamed.                               *)
RotateFileOnce(t) == CloseFor(t, Current)

RotateFile(t) == CloseFor(t, Oldest - 1)

(* Mutant: the file is copied and not moved.                               *)
CopiedInstead(files, from, to) ==
  IF from \notin DOMAIN files THEN files ELSE (to :> files[from]) @@ files

(* std::rename: does nothing if there is no such file, and replaces the one
   that has the new name.                                                  *)
Renamed(files, from, to) ==
  IF from \notin DOMAIN files THEN files
  ELSE [i \in (DOMAIN files \ {from}) \cup {to} |->
          files[IF i = to THEN from ELSE i]]

(* Nobody looks at the result: a file that cannot be renamed stays, and the
   next one takes its place.                                               *)
RenameBackup(t) ==
  /\ pc[t] = "rename"
  /\ \/ disk' = Renamed(disk, step, step + 1) /\ failed' = failed
     \/ step \in DOMAIN disk /\ failed' = TRUE /\ disk' = disk
  /\ IF step = Current
     THEN step' = step /\ pc' = [pc EXCEPT ![t] = "reopen"]
     ELSE step' = step - 1 /\ UNCHANGED pc
  /\ UNCHANGED <<stamp, clock, mutex, opened, written, crashes>>

OpenNew(t) ==
  /\ Moves(t, "reopen", "append")
  /\ \E ok \in BOOLEAN :
        /\ opened' = ok
        /\ disk' = IF ok THEN OpenTruncated(disk) ELSE disk
  /\ UNCHANGED <<stamp, clock, mutex, step, written, failed, crashes>>

-----------------------------------------------------------------------------
Init ==
  /\ pc = [t \in Thread |-> "idle"]
  /\ stamp = [t \in Thread |-> 0]
  /\ mutex = Free /\ clock = 0
  /\ opened = TRUE
  /\ disk = OpenToAppend(<<>>)
  /\ step = Current
  /\ written = <<>> /\ crashes = 0 /\ failed = FALSE

(* The program is killed, and started again.                               *)
RestartWith(files) ==
  /\ crashes < MaxCrashes
  /\ crashes' = crashes + 1
  /\ pc' = [t \in Thread |-> "idle"]
  /\ mutex' = Free /\ opened' = TRUE /\ step' = Current
  /\ disk' = files
  /\ UNCHANGED <<stamp, clock, written, failed>>

(* Mutant: the constructor opens the file as rotateFile does.              *)
RestartTruncating == RestartWith(OpenTruncated(disk))

Restart == RestartWith(OpenToAppend(disk))

ThreadStep(t) ==
  \/ TakeTimestamp(t) \/ Lock(t) \/ Write(t) \/ WriteRefused(t)
  \/ RotateFile(t) \/ RenameBackup(t) \/ OpenNew(t)
  \/ WriteRotated(t) \/ LineDropped(t)

Next == Restart \/ \E t \in Thread : ThreadStep(t)

Spec == Init /\ [][Next]_vars

-----------------------------------------------------------------------------
Timestamp == 1 .. MaxLines

(* Every variable stays in its range, and one thread at most is inside the
   destination: the one that holds the mutex.                              *)
TypeOK ==
  /\ pc \in [Thread -> {"idle", "lock", "write", "rename", "reopen", "append"}]
  /\ \A t \in Thread : pc[t] \notin {"idle", "lock"} <=> mutex = t
  /\ stamp \in [Thread -> Timestamp \cup {0}] /\ clock \in Timestamp \cup {0}
  /\ opened \in BOOLEAN /\ step \in Index
  /\ DOMAIN disk \subseteq Index
  /\ \A i \in DOMAIN disk : disk[i] \in Seq(Timestamp)
  /\ written \in Seq(Timestamp) /\ crashes \in 0 .. MaxCrashes /\ failed \in BOOLEAN

(* What a reader of all log files sees, from the oldest backup on.         *)
Retained ==
  LET file(i) == IF i \in DOMAIN disk THEN disk[i] ELSE <<>>
  IN  FlattenSeq([k \in 1 .. Oldest + 1 |-> file(Oldest + 1 - k)])

(* s holds elements of t in their order, each where t has it.              *)
IsThinned(s, t) ==
  /\ ToSet(s) \subseteq ToSet(t)
  /\ \A i, j \in DOMAIN s : i < j =>
       \E m, n \in DOMAIN t : m < n /\ t[m] = s[i] /\ t[n] = s[j]

(* Whatever is interrupted and whatever file cannot be renamed, no line is
   in the files twice or out of order; and as long as every file could be
   renamed they hold the end of what was written, without a gap.           *)
NoGapInLog ==
  /\ IsThinned(Retained, written)
  /\ ~failed => IsSuffix(Retained, written)

(* No file grows past the limit by more than the line that exceeded it.    *)
FilesBounded == \A i \in DOMAIN disk : Len(disk[i]) <= MaxFileSize + 1

(* Rotation throws away nothing but the oldest backup: as long as the
   program was not killed and no file refused its new name, all but the
   current file are full.                                                  *)
BackupsKept ==
  crashes = 0 /\ ~failed =>
    \/ Len(Retained) = Len(written)
    \/ Len(Retained) >= Oldest * (MaxFileSize + 1)

(* log reports nothing, but a line is lost only if the file could not be
   opened again after a rotation: in a program that runs since it was first
   started and whose file is open, every line has been written unless its
   thread is still on the way.                                             *)
LinesArriveWhileOpen ==
  crashes = 0 /\ opened =>
    \A line \in 1 .. clock :
      line \in ToSet(written) \/ \E t \in Thread : pc[t] # "idle" /\ stamp[t] = line

(* A kill loses no line: what the files held when the program was killed,
   they hold when it runs again.                                           *)
RestartKeepsLog == [][crashes' # crashes => Retained' = Retained]_vars

(* The files are as many, as large and as full as configured.            *)
FilesKept == TypeOK /\ FilesBounded /\ BackupsKept
=============================================================================
