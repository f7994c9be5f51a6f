----------------------------- MODULE RotatingLog -----------------------------
(***************************************************************************)
(* The log file of one model: RotatingFileWriter                           *)
(* (internal/vllm/logwriter.go) and its use by Manager.Start               *)
(* (internal/vllm/runtime.go, 138-158).  exec copies the child's stdout    *)
(* and stderr in two goroutines, each of which ends at the first error of  *)
(* a write; the process is started again and again on the same files.      *)
(*                                                                         *)
(* The contents of a file are a sequence of bytes, and a byte is its place *)
(* in the log: 1 for the first byte ever put into a file.  Write holds     *)
(* w.mu, so one write is under way at a time; its system calls are steps   *)
(* of their own, between which jukebox may die and leave the files as they *)
(* are.                                                                    *)
(***************************************************************************)
EXTENDS Integers, Sequences

CONSTANTS
    MaxBytes,       \* log_max_size_mb; never 0, which applyDefaults replaces
    MaxFiles,       \* log_max_files: the rotated files that are kept
    MaxChunk,       \* the longest write: exec copies through a fixed buffer
    MaxWritten,     \* a bound on the log: no write begins beyond it
    Streams,        \* the copying goroutines: stdout's and stderr's
    Absent,         \* what a name without a file holds
    Faults          \* the system calls that may fail

ASSUME LogAssumption ==
    /\ MaxFiles \in Nat \ {0}
    /\ MaxChunk \in Nat \ {0}
    /\ MaxBytes \in Nat /\ MaxChunk <= MaxBytes
    /\ MaxWritten \in Nat
    /\ Absent \notin Seq(Nat)
    /\ Faults \subseteq {"shift", "rename", "open", "write"}

VARIABLES
    files,      \* what is stored under path (0) and under path.1, path.2 ..
    open,       \* w.file # nil
    size,       \* w.currentSize
    copying,    \* the streams that are still copied; none without a process
    stage,      \* the write under way: where it is in Write and rotate
    shift,      \* the backup rotate renames next
    chunk,      \* the write under way: its length and the stream it is for
    written,    \* history: the number of bytes put into a file
    failed,     \* history: the failures that rotate ignores, and kills
    err         \* history: the error of the last open or write; none once
                \* one succeeds or a rotation has closed the file

fileVars  == <<files, open, size>>
writeVars == <<stage, shift, chunk>>
history   == <<written, failed, err>>
vars      == <<fileVars, copying, writeVars, history>>

Slots  == 0 .. MaxFiles
NoChunk == [len |-> 0, stream |-> Absent]

Init ==
    /\ files = [i \in Slots |-> Absent]
    /\ open = FALSE
    /\ size = 0
    /\ copying = {}
    /\ stage = "idle"
    /\ shift = 0
    /\ chunk = NoChunk
    /\ written = 0
    /\ failed = {}
    /\ err = "none"

MayFail(kind) == kind \in Faults

-----------------------------------------------------------------------------
(* openFile *)

(* O_CREATE and O_APPEND, then the size of what is there. *)
OpenFile ==
    /\ files' = [files EXCEPT ![0] = IF @ = Absent THEN <<>> ELSE @]
    /\ open' = TRUE
    /\ size' = IF files[0] = Absent THEN 0 ELSE Len(files[0])
    /\ err' = "none"

(* NewRotatingFileWriter and the start of the process.  When the file cannot  *)
(* be opened the process is started without one, which changes nothing here.  *)
StartProcess ==
    /\ copying = {} /\ ~open /\ stage = "idle"
    /\ OpenFile
    /\ copying' = Streams
    /\ UNCHANGED <<writeVars, written, failed>>

-----------------------------------------------------------------------------
(* Write *)

Chunks == 1 .. MaxChunk

Bytes(n) == [k \in 1 .. n |-> written + k]

(* w.file.Write(p): all of it, or less of it and an error, at which the       *)
(* stream's copying ends.  Any bytes may be lost with the disk full.          *)
WriteBytes(s, n) ==
    \E k \in IF MayFail("write") THEN 0 .. n ELSE {n} :
        /\ files' = [files EXCEPT ![0] = @ \o Bytes(k)]
        /\ size' = size + k
        /\ written' = written + k
        /\ copying' = IF k = n THEN copying ELSE copying \ {s}
        /\ err' = IF k = n THEN "none" ELSE "write"
        /\ UNCHANGED failed

\* Fault: the test forgets the bytes about to be written.
FullOnceExceeded(n) == size > MaxBytes

\* Fault: the limit itself is out of bounds.
FullAtLimit(n) == size + n >= MaxBytes

Full(n) == size + n > MaxBytes

WriteFits(s, n) ==
    /\ stage = "idle" /\ open /\ written < MaxWritten
    /\ ~Full(n)
    /\ WriteBytes(s, n)
    /\ UNCHANGED <<open, writeVars>>

(* "log file is closed": a rotation could not reopen it. *)
WriteRefused(s) ==
    /\ stage = "idle" /\ ~open
    /\ copying' = copying \ {s}
    /\ UNCHANGED <<fileVars, writeVars, history>>

\* Fault: the newest backup that must be kept goes too.
OldestIsOneTooNew == MaxFiles - 1

Oldest == MaxFiles

(* rotate closes the file and removes the oldest backup; an error of the      *)
(* removal is ignored, and the next rename then replaces the file.            *)
RotationBegins(s, n) ==
    /\ stage = "idle" /\ open /\ written < MaxWritten
    /\ Full(n)
    /\ open' = FALSE
    /\ \/ files' = [files EXCEPT ![Oldest] = Absent]
       \/ MayFail("shift") /\ UNCHANGED files
    /\ chunk' = [len |-> n, stream |-> s]
    /\ shift' = MaxFiles - 1
    /\ stage' = "shift"
    /\ err' = "none"
    /\ UNCHANGED <<size, copying, written, failed>>

(* os.Rename(path.i, path.i+1), whose error is ignored. *)
ShiftBackup ==
    /\ stage = "shift" /\ shift >= 1
    /\ \/ /\ files' = IF files[shift] = Absent THEN files
                      ELSE [files EXCEPT ![shift + 1] = files[shift], ![shift] = Absent]
          /\ UNCHANGED failed
       \/ /\ MayFail("shift") /\ files[shift] # Absent
          /\ failed' = failed \cup {"shift"}
          /\ UNCHANGED files
    /\ shift' = shift - 1
    /\ UNCHANGED <<open, size, copying, stage, chunk, written, err>>

\* Fault: a rotation that failed leaves the writer without a file.
RenameCurrentOrGiveUp ==
    /\ stage = "shift" /\ shift = 0
    /\ \/ /\ files' = IF files[0] = Absent THEN files
                      ELSE [files EXCEPT ![1] = files[0], ![0] = Absent]
          /\ size' = 0
          /\ stage' = "reopen"
          /\ UNCHANGED <<failed, copying, chunk>>
       \/ /\ MayFail("rename") /\ files[0] # Absent
          /\ failed' = failed \cup {"rename"}
          /\ copying' = copying \ {chunk.stream}
          /\ stage' = "idle"
          /\ chunk' = NoChunk
          /\ UNCHANGED <<files, size>>
    /\ UNCHANGED <<open, shift, written, err>>

(* os.Rename(path, path.1).  A missing file is no error. *)
RenameCurrent ==
    /\ stage = "shift" /\ shift = 0
    /\ \/ /\ files' = IF files[0] = Absent THEN files
                      ELSE [files EXCEPT ![1] = files[0], ![0] = Absent]
          /\ size' = 0
          /\ UNCHANGED failed
       \/ /\ MayFail("rename") /\ files[0] # Absent
          /\ failed' = failed \cup {"rename"}
          /\ UNCHANGED <<files, size>>
    /\ stage' = "reopen"
    /\ UNCHANGED <<open, copying, shift, chunk, written, err>>

(* The new file, or after a failed rename the one there was. *)
Reopen ==
    /\ stage = "reopen"
    /\ OpenFile
    /\ stage' = "append"
    /\ UNCHANGED <<copying, shift, chunk, written, failed>>

WriteEnds ==
    /\ stage' = "idle"
    /\ chunk' = NoChunk
    /\ UNCHANGED shift

(* w.file stays nil, and a write to a nil *os.File is an error. *)
ReopenFails ==
    /\ stage = "reopen" /\ MayFail("open")
    /\ copying' = copying \ {chunk.stream}
    /\ err' = "open"
    /\ WriteEnds
    /\ UNCHANGED <<fileVars, written, failed>>

WriteAfterRotation ==
    /\ stage = "append"
    /\ WriteBytes(chunk.stream, chunk.len)
    /\ WriteEnds
    /\ UNCHANGED open

-----------------------------------------------------------------------------
(* The end of the process, and of jukebox *)

(* Both copies have ended and the waiter closes the file. *)
ProcessExits ==
    /\ stage = "idle" /\ open
    /\ open' = FALSE
    /\ copying' = {}
    /\ UNCHANGED <<files, size, writeVars, history>>

(* The same when a rotation has left no file to close. *)
ProcessExitsUnlogged ==
    /\ stage = "idle" /\ ~open
    /\ copying' = {}
    /\ UNCHANGED <<fileVars, writeVars, history>>

(* jukebox is killed between two system calls. *)
Killed ==
    /\ stage # "idle"
    /\ open' = FALSE
    /\ copying' = {}
    /\ failed' = failed \cup {"killed"}
    /\ WriteEnds
    /\ UNCHANGED <<files, size, written, err>>

Next ==
    \/ StartProcess
    \/ \E s \in copying : WriteRefused(s)
    \/ \E s \in copying, n \in Chunks : WriteFits(s, n) \/ RotationBegins(s, n)
    \/ ShiftBackup \/ RenameCurrent \/ Reopen \/ ReopenFails \/ WriteAfterRotation
    \/ ProcessExits \/ ProcessExitsUnlogged \/ Killed

Spec == Init /\ [][Next]_vars

-----------------------------------------------------------------------------
(* Properties that need no more than the model *)

LogTypeOK ==
    /\ files \in [Slots -> Seq(Nat) \cup {Absent}]
    /\ open \in BOOLEAN
    /\ size \in Nat
    /\ copying \subseteq Streams
    /\ stage \in {"idle", "shift", "reopen", "append"}
    /\ shift \in 0 .. MaxFiles
    /\ chunk \in [len : 0 .. MaxChunk, stream : Streams \cup {Absent}]
    /\ written \in Nat
    /\ failed \subseteq {"shift", "rename", "killed"}
    /\ err \in {"none", "open", "write"}

Length(i) == IF files[i] = Absent THEN 0 ELSE Len(files[i])

(* No file exceeds log_max_size_mb, across restarts on what an earlier        *)
(* process left and kills in the middle of a rotation; only a file that could *)
(* not be renamed grows on.                                                   *)
SizeBounded == "rename" \notin failed => \A i \in Slots : Length(i) <= MaxBytes

(* The size that Write tests is that of the file, of which it keeps count     *)
(* without asking again.                                                      *)
SizeTracked == open => files[0] # Absent /\ size = Len(files[0])
=============================================================================
