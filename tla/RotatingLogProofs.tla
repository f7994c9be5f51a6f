-------------------------- MODULE RotatingLogProofs --------------------------
(***************************************************************************)
(* Theorems about the log writer, for every size and number of files,      *)
(* every length of a write and every set of failures.                      *)
(***************************************************************************)
EXTENDS RotatingLogProperties, TLAPS

-----------------------------------------------------------------------------
(* Sequences of bytes *)

(* The length of what an append leaves.                                       *)
LEMMA AppendLength ==
    ASSUME NEW s \in Seq(Nat), NEW t \in Seq(Nat)
    PROVE  s \o t \in Seq(Nat) /\ Len(s \o t) = Len(s) + Len(t)
  OBVIOUS

(* A write of n bytes is n bytes.                                             *)
LEMMA BytesFacts ==
    ASSUME LogTypeOK, NEW n \in Nat
    PROVE  Bytes(n) \in Seq(Nat) /\ Len(Bytes(n)) = n
  BY DEF LogTypeOK, Bytes

(* What the append of n bytes makes of the current file.                      *)
LEMMA AppendFacts ==
    ASSUME LogTypeOK, NEW n \in Nat, files[0] # Absent
    PROVE  /\ files[0] \o Bytes(n) \in Seq(Nat)
           /\ Len(files[0] \o Bytes(n)) = Len(files[0]) + n
           /\ files[0] \o Bytes(n) # Absent
<1>1. files[0] \in Seq(Nat)
  BY LogAssumption DEF LogTypeOK, Slots
<1>2. Bytes(n) \in Seq(Nat) /\ Len(Bytes(n)) = n
  BY BytesFacts
<1> DEFINE b == Bytes(n)
<1>3. b \in Seq(Nat) /\ Len(b) = n
  BY <1>2
<1> HIDE DEF b
<1>4. files[0] \o b \in Seq(Nat) /\ Len(files[0] \o b) = Len(files[0]) + Len(b)
  BY <1>1, <1>3, AppendLength
<1> QED
  BY <1>3, <1>4, LogAssumption DEF b

-----------------------------------------------------------------------------
(* The inductive invariant *)

(* Where a rotation is: the file is closed until it has been reopened, the    *)
(* backups are renamed from the last to the first, and what is appended to    *)
(* after a rotation is empty, unless the renaming failed.                     *)
RotationInv ==
    /\ stage \in {"shift", "reopen"} => ~open
    /\ stage = "append" => open
    /\ stage = "shift" => shift < MaxFiles
    /\ stage = "reopen" /\ "rename" \notin failed => files[0] = Absent
    /\ stage = "append" /\ "rename" \notin failed => size = 0

LogInd == LogTypeOK /\ RotationInv /\ SizeTracked /\ SizeBounded

(* A writer that has not been opened has no files.                            *)
LEMMA InitLog == Init => LogInd
  BY LogAssumption DEF Init, LogInd, LogTypeOK, RotationInv, SizeTracked, SizeBounded,
     Length, Slots, NoChunk

(* OpenFile takes the size of what it finds.                                  *)
LEMMA OpenFacts ==
    ASSUME LogTypeOK, OpenFile
    PROVE  /\ files' \in [Slots -> Seq(Nat) \cup {Absent}]
           /\ open' = TRUE /\ err' = "none"
           /\ files'[0] # Absent /\ size' = Len(files'[0]) /\ size' \in Nat
           /\ \A i \in Slots \ {0} : files'[i] = files[i]
           /\ files[0] # Absent => files' = files
           /\ files[0] = Absent => files'[0] = <<>> /\ size' = 0
<1>1. 0 \in Slots
  BY LogAssumption DEF Slots
<1>2. files[0] \in Seq(Nat) \cup {Absent}
  BY <1>1 DEF LogTypeOK
<1>3. <<>> \in Seq(Nat) /\ Len(<<>>) = 0
  OBVIOUS
<1> DEFINE found == IF files[0] = Absent THEN <<>> ELSE files[0]
<1>4. found \in Seq(Nat) /\ found # Absent
  BY <1>2, <1>3, LogAssumption
<1>5. open' = TRUE /\ err' = "none" /\ files' = [files EXCEPT ![0] = found] /\ size' = Len(found)
  BY <1>3 DEF OpenFile
<1> HIDE DEF found
<1>6. files' \in [Slots -> Seq(Nat) \cup {Absent}] /\ files'[0] = found
  BY <1>1, <1>4, <1>5 DEF LogTypeOK
<1>7. \A i \in Slots \ {0} : files'[i] = files[i]
  BY <1>5 DEF LogTypeOK
<1>8. files[0] # Absent => files' = files
  BY <1>1, <1>5 DEF found, LogTypeOK
<1>9. files[0] = Absent => files'[0] = <<>> /\ size' = 0
  BY <1>3, <1>5, <1>6 DEF found
<1>10. size' = Len(files'[0]) /\ size' \in Nat
  BY <1>4, <1>5, <1>6
<1> QED
  BY <1>4, <1>5, <1>6, <1>7, <1>8, <1>9, <1>10

(* The end of a write, in a file whose size is known and that has the room.   *)
LEMMA WriteStep ==
    ASSUME LogInd, open, NEW s \in Streams \cup {Absent}, NEW n \in 0 .. MaxChunk,
           WriteBytes(s, n),
           "rename" \notin failed => size + n <= MaxBytes
    PROVE  /\ files' \in [Slots -> Seq(Nat) \cup {Absent}]
           /\ size' \in Nat /\ written' \in Nat
           /\ copying' \subseteq Streams
           /\ failed' = failed /\ err' \in {"none", "open", "write"}
           /\ files'[0] # Absent /\ size' = Len(files'[0])
           /\ SizeBounded'
<1> USE DEF LogInd
<1>1. PICK k \in 0 .. n :
        /\ files' = [files EXCEPT ![0] = @ \o Bytes(k)]
        /\ size' = size + k
        /\ written' = written + k
        /\ copying' = IF k = n THEN copying ELSE copying \ {s}
        /\ failed' = failed /\ err' = IF k = n THEN "none" ELSE "write"
  <2>1. n \in 0 .. n
    BY LogAssumption
  <2>2. (IF MayFail("write") THEN 0 .. n ELSE {n}) \subseteq 0 .. n
    BY <2>1
  <2> QED
    BY <2>2 DEF WriteBytes
<1>2. k \in Nat /\ k <= n /\ 0 \in Slots
  BY LogAssumption DEF Slots
<1>3. files[0] # Absent /\ size = Len(files[0])
  BY DEF SizeTracked
<1>4. /\ files[0] \o Bytes(k) \in Seq(Nat)
      /\ Len(files[0] \o Bytes(k)) = Len(files[0]) + k
      /\ files[0] \o Bytes(k) # Absent
  BY <1>2, <1>3, AppendFacts
<1> DEFINE content == files[0] \o Bytes(k)
<1> HIDE DEF content
<1>5. files' = [files EXCEPT ![0] = content]
  BY <1>1 DEF content
<1>6. content \in Seq(Nat) /\ content # Absent /\ Len(content) = size + k
  BY <1>3, <1>4 DEF content
<1>7. files' \in [Slots -> Seq(Nat) \cup {Absent}] /\ files'[0] = content
  BY <1>2, <1>5, <1>6 DEF LogTypeOK
<1>8. size' \in Nat /\ written' \in Nat
  BY <1>1, <1>2 DEF LogTypeOK
<1>9. /\ copying' \subseteq Streams
      /\ failed' = failed /\ err' \in {"none", "open", "write"}
  BY <1>1 DEF LogTypeOK
<1>10. SizeBounded'
  <2> SUFFICES ASSUME "rename" \notin failed', NEW i \in Slots
               PROVE  Length(i)' <= MaxBytes
    BY DEF SizeBounded
  <2>1. CASE i = 0
    BY <2>1, <1>1, <1>2, <1>6, <1>7, <1>9, LogAssumption DEF Length, LogTypeOK
  <2>2. CASE i # 0
    BY <2>2, <1>5, <1>9 DEF Length, SizeBounded, LogTypeOK
  <2> QED
    BY <2>1, <2>2
<1> QED
  BY <1>1, <1>6, <1>7, <1>8, <1>9, <1>10

(* No step of the writer, of its process or of a kill breaks the invariant.   *)
LEMMA NextLog == LogInd /\ [Next]_vars => LogInd'
<1> SUFFICES ASSUME LogInd, [Next]_vars PROVE LogInd'
  OBVIOUS
<1> USE DEF LogInd
<1>0. 0 \in Slots /\ MaxFiles \in Nat \ {0} /\ NoChunk \in [len : 0 .. MaxChunk, stream : Streams \cup {Absent}]
  BY LogAssumption DEF Slots, NoChunk
<1>1. CASE StartProcess
  <2>1. /\ files' \in [Slots -> Seq(Nat) \cup {Absent}] /\ open' = TRUE /\ err' = "none"
        /\ files'[0] # Absent /\ size' = Len(files'[0]) /\ size' \in Nat
        /\ \A i \in Slots \ {0} : files'[i] = files[i]
        /\ files[0] # Absent => files' = files
        /\ files[0] = Absent => files'[0] = <<>> /\ size' = 0
    BY <1>1, OpenFacts DEF StartProcess
  <2>2. LogTypeOK' /\ RotationInv' /\ SizeTracked'
    BY <1>1, <2>1 DEF StartProcess, writeVars, history, LogTypeOK, RotationInv, SizeTracked
  <2>3. SizeBounded'
    BY <1>0, <1>1, <2>1, LogAssumption
       DEF StartProcess, writeVars, history, SizeBounded, Length
  <2> QED
    BY <2>2, <2>3
<1>2. ASSUME NEW s \in copying, WriteRefused(s) PROVE LogInd'
  BY <1>2 DEF WriteRefused, fileVars, writeVars, history, LogTypeOK, RotationInv, SizeTracked,
     SizeBounded, Length
<1>3. ASSUME NEW s \in copying, NEW n \in Chunks, WriteFits(s, n) PROVE LogInd'
  <2>1. n \in 0 .. MaxChunk /\ s \in Streams \cup {Absent} /\ open /\ size + n <= MaxBytes
    BY <1>3, LogAssumption DEF Chunks, WriteFits, Full, LogTypeOK
  <2>2. /\ files' \in [Slots -> Seq(Nat) \cup {Absent}]
        /\ size' \in Nat /\ written' \in Nat
        /\ copying' \subseteq Streams
        /\ failed' = failed /\ err' \in {"none", "open", "write"}
        /\ files'[0] # Absent /\ size' = Len(files'[0])
        /\ SizeBounded'
    BY <1>3, <2>1, WriteStep DEF WriteFits
  <2> QED
    BY <1>3, <2>2 DEF WriteFits, writeVars, LogTypeOK, RotationInv, SizeTracked
<1>4. ASSUME NEW s \in copying, NEW n \in Chunks, RotationBegins(s, n) PROVE LogInd'
  <2>1. n \in 0 .. MaxChunk /\ s \in Streams
    BY <1>4 DEF Chunks, LogTypeOK
  <2>2. files' \in [Slots -> Seq(Nat) \cup {Absent}]
    BY <1>0, <1>4 DEF RotationBegins, Oldest, LogTypeOK, Slots
  <2>3. LogTypeOK' /\ RotationInv' /\ SizeTracked'
    <3>1. LogTypeOK'
      <4>1. open' \in BOOLEAN
        BY <1>4 DEF RotationBegins
      <4>2. chunk' \in [len : 0 .. MaxChunk, stream : Streams \cup {Absent}]
        BY <1>4, <2>1 DEF RotationBegins
      <4>3. shift' \in 0 .. MaxFiles /\ stage' \in {"idle", "shift", "reopen", "append"}
        BY <1>0, <1>4 DEF RotationBegins
      <4> QED
        BY <1>4, <2>2, <4>1, <4>2, <4>3 DEF RotationBegins, history, LogTypeOK
    <3>2. RotationInv' /\ SizeTracked'
      BY <1>0, <1>4 DEF RotationBegins, RotationInv, SizeTracked
    <3> QED
      BY <3>1, <3>2
  <2>4. \A i \in Slots : files'[i] = files[i] \/ files'[i] = Absent
    BY <1>0, <1>4 DEF RotationBegins, Oldest, LogTypeOK
  <2>5. SizeBounded'
    BY <1>4, <2>4, LogAssumption DEF RotationBegins, history, SizeBounded, Length
  <2> QED
    BY <2>3, <2>5
<1>5. CASE ShiftBackup
  <2>1. shift \in 1 .. MaxFiles - 1 /\ shift \in Slots /\ shift + 1 \in Slots
        /\ shift + 1 # 0 /\ shift # 0
    BY <1>0, <1>5 DEF ShiftBackup, LogTypeOK, RotationInv, Slots
  <2>2. /\ files' \in [Slots -> Seq(Nat) \cup {Absent}]
        /\ files'[0] = files[0]
        /\ \A i \in Slots : \E j \in Slots : files'[i] = files[j] \/ files'[i] = Absent
    BY <1>0, <1>5, <2>1 DEF ShiftBackup, LogTypeOK
  <2>3. "rename" \in failed <=> "rename" \in failed'
    BY <1>5 DEF ShiftBackup
  <2>4. LogTypeOK' /\ RotationInv' /\ SizeTracked'
    <3>1. LogTypeOK'
      <4>1. open' \in BOOLEAN
        BY <1>5 DEF ShiftBackup, LogTypeOK
      <4>2. shift' \in 0 .. MaxFiles
        BY <1>0, <1>5, <2>1 DEF ShiftBackup
      <4>3. failed' \subseteq {"shift", "rename", "killed"}
        BY <1>5 DEF ShiftBackup, LogTypeOK
      <4> QED
        BY <1>5, <2>2, <4>1, <4>2, <4>3 DEF ShiftBackup, LogTypeOK
    <3>2. RotationInv' /\ SizeTracked'
      BY <1>0, <1>5, <2>1, <2>2 DEF ShiftBackup, RotationInv, SizeTracked
    <3> QED
      BY <3>1, <3>2
  <2>5. SizeBounded'
    BY <2>2, <2>3, LogAssumption DEF SizeBounded, Length
  <2> QED
    BY <2>4, <2>5
<1>6. CASE RenameCurrent
  <2>1. 1 \in Slots
    BY <1>0 DEF Slots
  <2>2. /\ files' \in [Slots -> Seq(Nat) \cup {Absent}]
        /\ "rename" \notin failed' => files'[0] = Absent
        /\ \A i \in Slots : \E j \in Slots : files'[i] = files[j] \/ files'[i] = Absent
    BY <1>0, <1>6, <2>1 DEF RenameCurrent, LogTypeOK
  <2>3. "rename" \in failed => "rename" \in failed'
    BY <1>6 DEF RenameCurrent
  <2>4. LogTypeOK' /\ RotationInv' /\ SizeTracked'
    <3>1. LogTypeOK'
      <4>1. open' \in BOOLEAN
        BY <1>6 DEF RenameCurrent, LogTypeOK
      <4>2. size' \in Nat /\ stage' \in {"idle", "shift", "reopen", "append"}
        BY <1>6 DEF RenameCurrent, LogTypeOK
      <4>3. failed' \subseteq {"shift", "rename", "killed"}
        BY <1>6 DEF RenameCurrent, LogTypeOK
      <4> QED
        BY <1>6, <2>2, <4>1, <4>2, <4>3 DEF RenameCurrent, LogTypeOK
    <3>2. RotationInv' /\ SizeTracked'
      BY <1>0, <1>6, <2>2 DEF RenameCurrent, RotationInv, SizeTracked
    <3> QED
      BY <3>1, <3>2
  <2>5. SizeBounded'
    BY <2>2, <2>3, LogAssumption DEF SizeBounded, Length
  <2> QED
    BY <2>4, <2>5
<1>7. CASE Reopen
  <2>1. /\ files' \in [Slots -> Seq(Nat) \cup {Absent}] /\ open' = TRUE /\ err' = "none"
        /\ files'[0] # Absent /\ size' = Len(files'[0]) /\ size' \in Nat
        /\ \A i \in Slots \ {0} : files'[i] = files[i]
        /\ files[0] # Absent => files' = files
        /\ files[0] = Absent => files'[0] = <<>> /\ size' = 0
    BY <1>7, OpenFacts DEF Reopen
  <2>2. LogTypeOK' /\ RotationInv' /\ SizeTracked'
    BY <1>7, <2>1 DEF Reopen, history, LogTypeOK, RotationInv, SizeTracked
  <2>3. SizeBounded'
    BY <1>0, <1>7, <2>1, LogAssumption DEF Reopen, history, SizeBounded, Length
  <2> QED
    BY <2>2, <2>3
<1>8. CASE ReopenFails
  BY <1>0, <1>8 DEF ReopenFails, WriteEnds, fileVars, LogTypeOK, RotationInv, SizeTracked,
     SizeBounded, Length
<1>9. CASE WriteAfterRotation
  <2>1. /\ chunk.len \in 0 .. MaxChunk /\ chunk.stream \in Streams \cup {Absent} /\ open
        /\ "rename" \notin failed => size + chunk.len <= MaxBytes
    BY <1>9, LogAssumption DEF WriteAfterRotation, LogTypeOK, RotationInv
  <2>2. /\ files' \in [Slots -> Seq(Nat) \cup {Absent}]
        /\ size' \in Nat /\ written' \in Nat
        /\ copying' \subseteq Streams
        /\ failed' = failed /\ err' \in {"none", "open", "write"}
        /\ files'[0] # Absent /\ size' = Len(files'[0])
        /\ SizeBounded'
    BY <1>9, <2>1, WriteStep DEF WriteAfterRotation
  <2> QED
    BY <1>0, <1>9, <2>2 DEF WriteAfterRotation, WriteEnds, LogTypeOK, RotationInv, SizeTracked
<1>10. CASE ProcessExits \/ ProcessExitsUnlogged
  <2>1. LogTypeOK' /\ SizeBounded'
    BY <1>10 DEF ProcessExits, ProcessExitsUnlogged, fileVars, writeVars, history, LogTypeOK,
       SizeBounded, Length
  <2>2. RotationInv' /\ SizeTracked'
    BY <1>10 DEF ProcessExits, ProcessExitsUnlogged, fileVars, writeVars, history,
       RotationInv, SizeTracked
  <2> QED
    BY <2>1, <2>2
<1>11. CASE Killed
  BY <1>0, <1>11 DEF Killed, WriteEnds, LogTypeOK, RotationInv, SizeTracked, SizeBounded, Length
<1>12. CASE UNCHANGED vars
  BY <1>12 DEF vars, fileVars, writeVars, history, LogTypeOK, RotationInv, SizeTracked,
     SizeBounded, Length
<1> QED
  BY <1>1, <1>2, <1>3, <1>4, <1>5, <1>6, <1>7, <1>8, <1>9, <1>10, <1>11, <1>12 DEF Next

-----------------------------------------------------------------------------
(* Theorems *)

(* The invariant holds in every reachable state, so in particular the size    *)
(* that Write tests is that of the file.                                      *)
THEOREM LogInductive == Spec => []LogInd
<1>1. Init => LogInd
  BY InitLog
<1>2. LogInd /\ [Next]_vars => LogInd'
  BY NextLog
<1> QED
  BY <1>1, <1>2, PTL DEF Spec

(* No file outgrows log_max_size_mb, over restarts, failed renames of the     *)
(* backups, disks that fill up and kills in the middle of a rotation.         *)
THEOREM SizeIsBounded == Spec => []SizeBounded
<1>1. LogInd => SizeBounded
  BY DEF LogInd
<1> QED
  BY <1>1, LogInductive, PTL

(* The writer's count of the bytes never differs from the file's size.        *)
THEOREM SizeIsTracked == Spec => []SizeTracked
<1>1. LogInd => SizeTracked
  BY DEF LogInd
<1> QED
  BY <1>1, LogInductive, PTL

-----------------------------------------------------------------------------
(* What is left of the log *)

(* Every byte that a file holds has been written.                             *)
OnlyWritten == Held \subseteq 1 .. written

(* As long as no renaming of a backup has failed: nothing is missing but the  *)
(* oldest part, and the backup that rotate renames next goes to a name that   *)
(* is free, or to the last, whose file it replaces.                           *)
OldestInd ==
    "shift" \notin failed =>
        /\ OnlyWritten /\ InOrder /\ Unbroken
        /\ stage = "shift" /\ shift + 1 < MaxFiles => files[shift + 1] = Absent

(* A byte of an append is in the first part or in the second.                 *)
LEMMA AppendElements ==
    ASSUME NEW s \in Seq(Nat), NEW t \in Seq(Nat), NEW p \in 1 .. Len(s) + Len(t)
    PROVE  (s \o t)[p] = IF p <= Len(s) THEN s[p] ELSE t[p - Len(s)]
  OBVIOUS

(* A file is as long as its contents, which are numbers.                      *)
LEMMA ByteFacts ==
    ASSUME LogTypeOK, NEW i \in Slots
    PROVE  /\ Length(i) \in Nat
           /\ \A k \in 1 .. Length(i) :
                 files[i] # Absent /\ files[i] \in Seq(Nat) /\ files[i][k] \in Nat
<1>1. files[i] \in Seq(Nat) \cup {Absent}
  BY DEF LogTypeOK
<1>2. CASE files[i] = Absent
  BY <1>2 DEF Length
<1>3. CASE files[i] # Absent
  BY <1>1, <1>3 DEF Length
<1> QED
  BY <1>2, <1>3

(* A byte is held where a file has it, before a step and after it.            *)
LEMMA HeldFacts ==
    ASSUME NEW b
    PROVE  /\ b \in Held <=> \E i \in Slots : \E k \in 1 .. Length(i) : b = files[i][k]
           /\ b \in Held' <=> \E i \in Slots : \E k \in 1 .. Length(i)' : b = files'[i][k]
<1>1. b \in Held <=> \E i \in Slots : b \in {files[i][k] : k \in 1 .. Length(i)}
  BY DEF Held
<1>2. b \in Held' <=> \E i \in Slots : b \in {files'[i][k] : k \in 1 .. Length(i)'}
  BY DEF Held
<1> QED
  BY <1>1, <1>2

(* A step after which the files have the bytes that they had.                 *)
LEMMA SameBytes ==
    ASSUME \A i \in Slots : Length(i)' = Length(i),
           \A i \in Slots : \A k \in 1 .. Length(i) : files'[i][k] = files[i][k],
           written' = written
    PROVE  Held' = Held /\ (InOrder => InOrder') /\ (Unbroken => Unbroken')
<1>1. Held' = Held
  <2>1. ASSUME NEW b PROVE b \in Held' <=> b \in Held
    <3>1. /\ b \in Held <=> \E i \in Slots : \E k \in 1 .. Length(i) : b = files[i][k]
          /\ b \in Held' <=> \E i \in Slots : \E k \in 1 .. Length(i)' : b = files'[i][k]
      BY HeldFacts
    <3> QED
      BY <3>1
  <2> QED
    BY <2>1
<1>2. InOrder => InOrder'
  BY DEF InOrder
<1> QED
  BY <1>1, <1>2 DEF Unbroken

(* A step that gives files other names, in the order they had, and that loses *)
(* none but the oldest: from[i] is the name of what is then under i.          *)
LEMMA RenamedBytes ==
    ASSUME LogTypeOK, LogTypeOK', InOrder, Unbroken, written' = written,
           NEW from \in [Slots -> Slots],
           \A i \in Slots : files'[i] # Absent => files'[i] = files[from[i]],
           \A i, j \in Slots :
               i > j /\ files'[i] # Absent /\ files'[j] # Absent => from[i] > from[j],
           \A m \in Slots : files[m] # Absent /\ m # MaxFiles =>
               \E i \in Slots : files'[i] = files[m],
           \/ \E i \in Slots : files'[i] = files[MaxFiles]
           \/ \A i \in Slots : files'[i] # Absent => from[i] # MaxFiles
    PROVE  InOrder' /\ Unbroken' /\ Held' \subseteq Held
<1>1. \A i \in Slots : \A k \in 1 .. Length(i)' :
          /\ files'[i] # Absent /\ from[i] \in Slots
          /\ k \in 1 .. Length(from[i]) /\ files'[i][k] = files[from[i]][k]
  BY DEF Length
<1>2. InOrder'
  <2> SUFFICES ASSUME NEW i \in Slots, NEW j \in Slots,
                      NEW k \in 1 .. Length(i)', NEW l \in 1 .. Length(j)',
                      ReadBefore(i, k, j, l)
               PROVE  files'[i][k] < files'[j][l]
    BY DEF InOrder, ReadBefore
  <2>1. /\ from[i] \in Slots /\ k \in 1 .. Length(from[i])
        /\ files'[i][k] = files[from[i]][k] /\ files'[i] # Absent
    BY <1>1
  <2>2. /\ from[j] \in Slots /\ l \in 1 .. Length(from[j])
        /\ files'[j][l] = files[from[j]][l] /\ files'[j] # Absent
    BY <1>1
  <2>3. ReadBefore(from[i], k, from[j], l)
    BY <2>1, <2>2 DEF ReadBefore
  <2> QED
    BY <2>1, <2>2, <2>3 DEF InOrder
<1>3. Unbroken'
  <2> SUFFICES ASSUME NEW b \in Held', NEW c \in b .. written
               PROVE  c \in Held'
    BY DEF Unbroken
  <2>1. PICK i \in Slots : \E k \in 1 .. Length(i)' : b = files'[i][k]
    BY HeldFacts
  <2>2. PICK k \in 1 .. Length(i)' : b = files'[i][k]
    BY <2>1
  <2>3. /\ from[i] \in Slots /\ k \in 1 .. Length(from[i]) /\ b = files[from[i]][k]
        /\ files'[i] # Absent
    BY <1>1, <2>2
  <2>4. b \in Held
    BY <2>3, HeldFacts
  <2>5. c \in Held
    BY <2>4 DEF Unbroken
  <2>6. PICK m \in Slots : \E l \in 1 .. Length(m) : c = files[m][l]
    BY <2>5, HeldFacts
  <2>7. PICK l \in 1 .. Length(m) : c = files[m][l]
    BY <2>6
  <2>8. files[m] # Absent
    BY <2>7, ByteFacts
  <2>9. ASSUME NEW j \in Slots, files'[j] = files[m] PROVE c \in Held'
    <3>1. Length(j)' = Length(m)
      BY <2>9 DEF Length
    <3>2. l \in 1 .. Length(j)' /\ c = files'[j][l]
      BY <2>7, <2>9, <3>1
    <3> QED
      BY <3>2, HeldFacts
  <2>10. CASE m # MaxFiles
    BY <2>8, <2>9, <2>10
  <2>11. CASE m = MaxFiles /\ \A j \in Slots : files'[j] # Absent => from[j] # MaxFiles
    <3>1. from[i] < MaxFiles
      BY <2>3, <2>11, LogAssumption DEF Slots
    <3>2. c < b
      <4>1. ReadBefore(m, l, from[i], k)
        BY <2>11, <3>1, LogAssumption DEF ReadBefore
      <4> QED
        BY <2>3, <2>7, <4>1 DEF InOrder
    <3>3. b \in Nat /\ c \in Nat
      BY <2>3, <2>7, ByteFacts
    <3> QED
      BY <3>2, <3>3
  <2> QED
    BY <2>9, <2>10, <2>11
<1>4. Held' \subseteq Held
  <2> SUFFICES ASSUME NEW b \in Held' PROVE b \in Held
    OBVIOUS
  <2>1. PICK i \in Slots : \E k \in 1 .. Length(i)' : b = files'[i][k]
    BY HeldFacts
  <2> QED
    BY <1>1, <2>1, HeldFacts
<1> QED
  BY <1>2, <1>3, <1>4

(* A step that moves one file to the next name, which is free or the last.    *)
LEMMA MovedBytes ==
    ASSUME LogTypeOK, LogTypeOK', InOrder, Unbroken, written' = written,
           NEW i \in 0 .. MaxFiles - 1,
           files[i + 1] = Absent \/ i + 1 = MaxFiles,
           files' = IF files[i] = Absent THEN files
                    ELSE [files EXCEPT ![i + 1] = files[i], ![i] = Absent]
    PROVE  InOrder' /\ Unbroken' /\ Held' \subseteq Held
<1>1. i \in Slots /\ i + 1 \in Slots /\ i + 1 # i
  BY LogAssumption DEF Slots
<1>2. CASE files[i] = Absent
  BY <1>2, SameBytes DEF Length
<1>3. CASE files[i] # Absent
  <2> DEFINE from == [j \in Slots |-> IF j = i + 1 THEN i ELSE j]
  <2>1. from \in [Slots -> Slots] /\ \A j \in Slots : from[j] = IF j = i + 1 THEN i ELSE j
    BY <1>1
  <2> HIDE DEF from
  <2>2. /\ files'[i] = Absent /\ files'[i + 1] = files[i]
        /\ \A j \in Slots : j # i /\ j # i + 1 => files'[j] = files[j]
    BY <1>1, <1>3 DEF LogTypeOK
  <2>3. \A j \in Slots : files'[j] # Absent => files'[j] = files[from[j]]
    BY <2>1, <2>2
  <2>4. \A j, m \in Slots :
            j > m /\ files'[j] # Absent /\ files'[m] # Absent => from[j] > from[m]
    <3> SUFFICES ASSUME NEW j \in Slots, NEW m \in Slots, j > m,
                        files'[j] # Absent, files'[m] # Absent
                 PROVE  from[j] > from[m]
      OBVIOUS
    <3>1. j # i /\ m # i
      BY <2>2
    <3>2. i \in Int /\ j \in Int /\ m \in Int
      BY LogAssumption DEF Slots
    <3> QED
      BY <2>1, <3>1, <3>2
  <2>5. \A m \in Slots : files[m] # Absent /\ m # MaxFiles =>
            \E j \in Slots : files'[j] = files[m]
    BY <1>1, <2>2
  <2>6. \/ \E j \in Slots : files'[j] = files[MaxFiles]
        \/ \A j \in Slots : files'[j] # Absent => from[j] # MaxFiles
    <3>1. CASE i + 1 = MaxFiles
      BY <1>1, <2>1, <3>1, LogAssumption DEF Slots
    <3>2. CASE i + 1 # MaxFiles
      <4>1. MaxFiles \in Slots /\ MaxFiles # i /\ MaxFiles # i + 1
        BY <3>2, LogAssumption DEF Slots
      <4> QED
        BY <2>2, <4>1
    <3> QED
      BY <3>1, <3>2
  <2> QED
    BY <2>1, <2>3, <2>4, <2>5, <2>6, RenamedBytes
<1> QED
  BY <1>2, <1>3

(* What a write adds to the current file: the next bytes of the log.          *)
LEMMA WrittenAtEnd ==
    ASSUME LogInd, open, NEW s, NEW n \in Nat, WriteBytes(s, n)
    PROVE  \E k \in Nat :
             /\ written' = written + k
             /\ Length(0)' = Length(0) + k
             /\ \A p \in 1 .. Length(0) : files'[0][p] = files[0][p]
             /\ \A p \in 1 .. k : files'[0][Length(0) + p] = written + p
             /\ \A i \in Slots \ {0} : files'[i] = files[i]
<1> USE DEF LogInd
<1>1. PICK k \in 0 .. n :
        files' = [files EXCEPT ![0] = @ \o Bytes(k)] /\ written' = written + k
  <2>1. (IF MayFail("write") THEN 0 .. n ELSE {n}) \subseteq 0 .. n
    OBVIOUS
  <2> QED
    BY <2>1 DEF WriteBytes
<1>2. files[0] # Absent /\ 0 \in Slots
  BY LogAssumption DEF SizeTracked, Slots
<1>3. k \in Nat /\ files[0] \in Seq(Nat) /\ Bytes(k) \in Seq(Nat) /\ Len(Bytes(k)) = k
  BY <1>2, BytesFacts DEF LogTypeOK
<1>4. \A p \in 1 .. k : Bytes(k)[p] = written + p
  BY DEF Bytes
<1> DEFINE s0 == files[0]
           b == Bytes(k)
           content == s0 \o b
<1>5. /\ content \in Seq(Nat) /\ content # Absent /\ Len(content) = Len(s0) + k
      /\ \A p \in 1 .. Len(s0) + k : content[p] = IF p <= Len(s0) THEN s0[p] ELSE b[p - Len(s0)]
  <2>1. s0 \in Seq(Nat) /\ b \in Seq(Nat) /\ Len(b) = k
    BY <1>3
  <2> HIDE DEF s0, b
  <2>2. content \in Seq(Nat) /\ Len(content) = Len(s0) + k
    BY <2>1, AppendLength
  <2>3. \A p \in 1 .. Len(s0) + k : content[p] = IF p <= Len(s0) THEN s0[p] ELSE b[p - Len(s0)]
    BY <2>1, AppendElements
  <2> QED
    BY <2>2, <2>3, LogAssumption
<1> HIDE DEF content
<1>6. files' = [files EXCEPT ![0] = content]
  BY <1>1 DEF content
<1>7. files'[0] = content /\ \A i \in Slots \ {0} : files'[i] = files[i]
  BY <1>2, <1>6 DEF LogTypeOK
<1>8. Length(0) = Len(files[0]) /\ Length(0) \in Nat /\ Length(0)' = Length(0) + k
  BY <1>2, <1>3, <1>5, <1>7 DEF Length
<1>9. Length(0) = Len(s0) /\ k \in Nat /\ s0 = files[0] /\ \A p \in 1 .. k : b[p] = written + p
  BY <1>3, <1>4, <1>8
<1> DEFINE len == Length(0)
<1>10. len = Len(s0) /\ len \in Nat
  BY <1>8, <1>9
<1> HIDE DEF s0, b, len
<1>11. \A p \in 1 .. len : content[p] = s0[p]
  <2> TAKE p \in 1 .. len
  <2>1. p \in 1 .. len + k /\ p <= len
    BY <1>9, <1>10
  <2> QED
    BY <2>1, <1>5, <1>10
<1>12. \A p \in 1 .. k : content[len + p] = written + p
  <2> TAKE p \in 1 .. k
  <2>1. len + p \in 1 .. len + k /\ ~(len + p <= len) /\ len + p - len = p
    BY <1>9, <1>10
  <2>2. content[len + p] = b[len + p - len]
    BY <2>1, <1>5, <1>10
  <2>3. b[p] = written + p
    BY <1>9
  <2> QED
    BY <2>1, <2>2, <2>3
<1> QED
  BY <1>1, <1>7, <1>8, <1>9, <1>11, <1>12 DEF len

(* So a write keeps the order of the bytes and leaves no gap, and what was    *)
(* lost after it was lost before.                                             *)
LEMMA WrittenBytes ==
    ASSUME LogInd, OnlyWritten, open, NEW s, NEW n \in Nat, WriteBytes(s, n)
    PROVE  /\ OnlyWritten'
           /\ InOrder => InOrder'
           /\ Unbroken => Unbroken'
           /\ Lost' => Lost
           /\ \A i \in Slots \ {0} : files'[i] = files[i]
<1>1. PICK k \in Nat :
        /\ written' = written + k
        /\ Length(0)' = Length(0) + k
        /\ \A p \in 1 .. Length(0) : files'[0][p] = files[0][p]
        /\ \A p \in 1 .. k : files'[0][Length(0) + p] = written + p
        /\ \A i \in Slots \ {0} : files'[i] = files[i]
  BY WrittenAtEnd
<1>2. LogTypeOK /\ written \in Nat /\ 0 \in Slots /\ Length(0) \in Nat
  BY ByteFacts, LogAssumption DEF LogInd, LogTypeOK, Slots
<1>3. \A i \in Slots \ {0} : Length(i)' = Length(i)
  BY <1>1 DEF Length
<1>4. \A i \in Slots : \A p \in 1 .. Length(i)' :
        \/ p \in 1 .. Length(i) /\ files'[i][p] = files[i][p]
        \/ i = 0 /\ p > Length(0) /\ files'[i][p] = written + (p - Length(0))
           /\ p - Length(0) \in 1 .. k
  <2> TAKE i \in Slots
  <2> TAKE p \in 1 .. Length(i)'
  <2>1. CASE i # 0
    BY <1>1, <1>3, <2>1
  <2>2. CASE i = 0 /\ p <= Length(0)
    BY <1>1, <1>2, <2>2
  <2>3. CASE i = 0 /\ p > Length(0)
    <3>1. p - Length(0) \in 1 .. k /\ Length(0) + (p - Length(0)) = p
      BY <1>1, <1>2, <2>3
    <3> QED
      BY <1>1, <2>3, <3>1
  <2> QED
    BY <1>2, <2>1, <2>2, <2>3
<1>5. \A i \in Slots : \A p \in 1 .. Length(i) :
        p \in 1 .. Length(i)' /\ files'[i][p] = files[i][p]
  BY <1>1, <1>2, <1>3
<1>6. \A i \in Slots : \A p \in 1 .. Length(i) : files[i][p] \in 1 .. written
  <2> TAKE i \in Slots
  <2> TAKE p \in 1 .. Length(i)
  <2> QED
    BY HeldFacts DEF OnlyWritten
<1>7. Held \subseteq Held'
  <2> SUFFICES ASSUME NEW b \in Held PROVE b \in Held'
    OBVIOUS
  <2> QED
    BY <1>5, HeldFacts
<1>8. written + 1 .. written' \subseteq Held'
  <2> SUFFICES ASSUME NEW b \in written + 1 .. written' PROVE b \in Held'
    OBVIOUS
  <2>1. b - written \in 1 .. k /\ written + (b - written) = b
    BY <1>1, <1>2
  <2>2. /\ Length(0) + (b - written) \in 1 .. Length(0)'
        /\ files'[0][Length(0) + (b - written)] = b
    BY <1>1, <1>2, <2>1
  <2> QED
    BY <1>2, <2>2, HeldFacts
<1>9. Held' \subseteq Held \cup (written + 1 .. written')
  <2> SUFFICES ASSUME NEW b \in Held' PROVE b \in Held \cup (written + 1 .. written')
    OBVIOUS
  <2>1. PICK i \in Slots : \E p \in 1 .. Length(i)' : b = files'[i][p]
    BY HeldFacts
  <2>2. PICK p \in 1 .. Length(i)' : b = files'[i][p]
    BY <2>1
  <2>3. CASE p \in 1 .. Length(i) /\ files'[i][p] = files[i][p]
    BY <2>2, <2>3, HeldFacts
  <2>4. CASE files'[i][p] = written + (p - Length(0)) /\ p - Length(0) \in 1 .. k
    BY <1>1, <1>2, <2>2, <2>4
  <2> QED
    BY <1>4, <2>3, <2>4
<1>10. OnlyWritten'
  <2>1. 1 .. written \subseteq 1 .. written' /\ written + 1 .. written' \subseteq 1 .. written'
    BY <1>1, <1>2
  <2> QED
    BY <1>9, <2>1 DEF OnlyWritten
<1>11. InOrder => InOrder'
  <2> SUFFICES ASSUME InOrder, NEW i \in Slots, NEW j \in Slots,
                      NEW p \in 1 .. Length(i)', NEW q \in 1 .. Length(j)',
                      ReadBefore(i, p, j, q)
               PROVE  files'[i][p] < files'[j][q]
    BY DEF InOrder, ReadBefore
  <2>1. CASE p \in 1 .. Length(i) /\ q \in 1 .. Length(j)
    BY <1>5, <2>1 DEF InOrder
  <2>2. CASE p \in 1 .. Length(i) /\ q \notin 1 .. Length(j)
    <3>1. files'[j][q] = written + (q - Length(0)) /\ q - Length(0) \in 1 .. k
      BY <1>4, <2>2
    <3>2. files'[i][p] \in 1 .. written
      BY <1>5, <1>6, <2>2
    <3> QED
      BY <1>2, <3>1, <3>2
  <2>3. CASE p \notin 1 .. Length(i)
    <3>1. i = 0 /\ p > Length(0) /\ files'[i][p] = written + (p - Length(0))
      BY <1>4, <2>3
    <3>2. j = 0 /\ p < q
      BY <3>1, LogAssumption DEF ReadBefore, Slots
    <3>3. q \notin 1 .. Length(j)
      BY <1>2, <3>1, <3>2
    <3>4. files'[j][q] = written + (q - Length(0))
      BY <1>4, <3>3
    <3> QED
      BY <1>2, <3>1, <3>2, <3>4
  <2> QED
    BY <2>1, <2>2, <2>3
<1>12. Unbroken => Unbroken'
  <2> SUFFICES ASSUME Unbroken, NEW b \in Held', NEW c \in b .. written'
               PROVE  c \in Held'
    BY DEF Unbroken
  <2>1. CASE c > written
    BY <1>1, <1>2, <1>8, <2>1
  <2>2. CASE c <= written
    <3>1. b \in 1 .. written
      BY <1>1, <1>2, <1>9, <2>2 DEF OnlyWritten
    <3>2. b \in Held
      BY <1>2, <1>9, <3>1
    <3> QED
      BY <1>7, <2>2, <3>2 DEF Unbroken
  <2> QED
    BY <1>1, <1>2, <1>10, <2>1, <2>2 DEF OnlyWritten
<1>13. Lost' => Lost
  <2> SUFFICES ASSUME ~Lost, NEW b \in 1 .. written' PROVE b \in Held'
    BY DEF Lost
  <2> QED
    BY <1>1, <1>2, <1>7, <1>8 DEF Lost
<1> QED
  BY <1>1, <1>10, <1>11, <1>12, <1>13

(* Opening the file, empty when it is new, changes no byte.                   *)
LEMMA OpenedBytes ==
    ASSUME LogTypeOK, OpenFile, written' = written
    PROVE  Held' = Held /\ (InOrder => InOrder') /\ (Unbroken => Unbroken')
<1>1. \A i \in Slots : files'[i] = files[i] \/ (files[i] = Absent /\ files'[i] = <<>>)
  <2> TAKE i \in Slots
  <2>1. CASE i = 0
    BY <2>1, OpenFacts
  <2>2. CASE i # 0
    BY <2>2, OpenFacts
  <2> QED
    BY <2>1, <2>2
<1>2. \A i \in Slots : Length(i)' = Length(i)
  BY <1>1 DEF Length
<1>3. \A i \in Slots : \A k \in 1 .. Length(i) : files'[i][k] = files[i][k]
  BY <1>1, ByteFacts
<1> QED
  BY <1>2, <1>3, SameBytes

(* Nor does a step that leaves the files alone.                               *)
LEMMA KeptBytes ==
    ASSUME files' = files, written' = written
    PROVE  Held' = Held /\ (InOrder => InOrder') /\ (Unbroken => Unbroken')
  BY SameBytes DEF Length

(* No step of a rotation that succeeds, and no kill, makes a gap in the log.  *)
LEMMA NextOldest == LogInd /\ LogInd' /\ OldestInd /\ [Next]_vars => OldestInd'
<1> SUFFICES ASSUME LogInd, LogInd', OldestInd, [Next]_vars, "shift" \notin failed'
             PROVE  /\ OnlyWritten' /\ InOrder' /\ Unbroken'
                    /\ stage' = "shift" /\ shift' + 1 < MaxFiles => files'[shift' + 1] = Absent
  BY DEF OldestInd
<1>0. LogTypeOK /\ LogTypeOK' /\ MaxFiles \in Nat \ {0}
  BY LogAssumption DEF LogInd
<1> DEFINE Kept == Held' = Held /\ (InOrder => InOrder') /\ (Unbroken => Unbroken')
<1>1. ASSUME "shift" \notin failed, Kept, written' = written,
             stage' = "shift" => stage = "shift" /\ shift' = shift /\ files' = files
      PROVE  /\ OnlyWritten' /\ InOrder' /\ Unbroken'
             /\ stage' = "shift" /\ shift' + 1 < MaxFiles => files'[shift' + 1] = Absent
  BY <1>1 DEF OldestInd, OnlyWritten
<1>2. CASE StartProcess
  <2>1. "shift" \notin failed /\ written' = written /\ stage' # "shift" /\ OpenFile
    BY <1>2 DEF StartProcess, writeVars, history
  <2> QED
    BY <1>0, <1>1, <2>1, OpenedBytes
<1>3. CASE Reopen
  <2>1. "shift" \notin failed /\ written' = written /\ stage' # "shift" /\ OpenFile
    BY <1>3 DEF Reopen, history
  <2> QED
    BY <1>0, <1>1, <2>1, OpenedBytes
<1>4. CASE \/ \E s \in copying : WriteRefused(s)
           \/ ReopenFails \/ ProcessExits \/ ProcessExitsUnlogged \/ Killed
           \/ UNCHANGED vars
  <2>1. /\ "shift" \notin failed /\ written' = written /\ files' = files
        /\ stage' = "shift" => stage = "shift" /\ shift' = shift
    BY <1>4 DEF WriteRefused, ReopenFails, ProcessExits, ProcessExitsUnlogged, Killed,
       WriteEnds, vars, fileVars, writeVars, history
  <2> QED
    BY <1>1, <2>1, KeptBytes
<1>5. ASSUME NEW s, NEW n \in Nat, WriteBytes(s, n), open, stage' # "shift"
      PROVE  /\ OnlyWritten' /\ InOrder' /\ Unbroken'
             /\ stage' = "shift" /\ shift' + 1 < MaxFiles => files'[shift' + 1] = Absent
  <2>1. "shift" \notin failed
    BY <1>5 DEF WriteBytes
  <2> QED
    BY <1>5, <2>1, WrittenBytes DEF OldestInd
<1>6. ASSUME NEW s \in copying, NEW n \in Chunks, WriteFits(s, n)
      PROVE  OnlyWritten' /\ InOrder' /\ Unbroken' /\ stage' # "shift"
  <2>1. n \in Nat /\ WriteBytes(s, n) /\ open /\ stage' # "shift"
    BY <1>6, LogAssumption DEF WriteFits, Chunks, writeVars
  <2> QED
    BY <1>5, <2>1
<1>7. CASE WriteAfterRotation
  <2>1. chunk.len \in Nat
    BY <1>0, LogAssumption DEF LogTypeOK
  <2>2. WriteBytes(chunk.stream, chunk.len) /\ open /\ stage' # "shift"
    BY <1>7 DEF WriteAfterRotation, WriteEnds, LogInd, RotationInv
  <2> QED
    BY <1>5, <2>1, <2>2
<1>8. ASSUME NEW s \in copying, NEW n \in Chunks, RotationBegins(s, n)
      PROVE  /\ OnlyWritten' /\ InOrder' /\ Unbroken'
             /\ stage' = "shift" /\ shift' + 1 < MaxFiles => files'[shift' + 1] = Absent
  <2>1. /\ "shift" \notin failed /\ written' = written
        /\ ~(shift' + 1 < MaxFiles)
        /\ files' = [files EXCEPT ![MaxFiles] = Absent] \/ files' = files
    BY <1>0, <1>8 DEF RotationBegins, Oldest, history
  <2>2. OnlyWritten /\ InOrder /\ Unbroken
    BY <2>1 DEF OldestInd
  <2>3. CASE files' = files
    BY <2>1, <2>2, <2>3, KeptBytes DEF OnlyWritten
  <2>4. CASE files' = [files EXCEPT ![MaxFiles] = Absent]
    <3>1. /\ MaxFiles \in Slots /\ files'[MaxFiles] = Absent
          /\ \A i \in Slots : i # MaxFiles => files'[i] = files[i]
      BY <1>0, <2>4 DEF LogTypeOK, Slots
    <3> DEFINE from == [i \in Slots |-> i]
    <3>2. from \in [Slots -> Slots] /\ \A i \in Slots : from[i] = i
      OBVIOUS
    <3> HIDE DEF from
    <3>3. InOrder' /\ Unbroken' /\ Held' \subseteq Held
      BY <1>0, <2>1, <2>2, <3>1, <3>2, RenamedBytes
    <3> QED
      BY <2>1, <2>2, <3>3 DEF OnlyWritten
  <2> QED
    BY <2>1, <2>3, <2>4
<1>9. CASE ShiftBackup
  <2>1. /\ "shift" \notin failed /\ written' = written /\ shift \in 1 .. MaxFiles - 1
        /\ shift' = shift - 1
        /\ files' = IF files[shift] = Absent THEN files
                    ELSE [files EXCEPT ![shift + 1] = files[shift], ![shift] = Absent]
    BY <1>0, <1>9 DEF ShiftBackup, LogInd, LogTypeOK, RotationInv
  <2>2. files[shift + 1] = Absent \/ shift + 1 = MaxFiles
    BY <1>0, <1>9, <2>1 DEF ShiftBackup, OldestInd
  <2>3. OnlyWritten /\ InOrder /\ Unbroken
    BY <2>1 DEF OldestInd
  <2>4. InOrder' /\ Unbroken' /\ Held' \subseteq Held
    BY <1>0, <2>1, <2>2, <2>3, MovedBytes
  <2>5. shift \in Slots /\ shift' + 1 = shift /\ shift + 1 # shift
    BY <1>0, <2>1 DEF Slots
  <2>6. files'[shift] = Absent
    BY <1>0, <2>1, <2>5 DEF LogTypeOK
  <2> QED
    BY <2>1, <2>3, <2>4, <2>5, <2>6 DEF OnlyWritten
<1>10. CASE RenameCurrent
  <2>1. /\ "shift" \notin failed /\ written' = written /\ shift = 0 /\ stage' # "shift"
        /\ \/ files' = files
           \/ files' = IF files[0] = Absent THEN files
                       ELSE [files EXCEPT ![0 + 1] = files[0], ![0] = Absent]
    BY <1>10 DEF RenameCurrent
  <2>2. OnlyWritten /\ InOrder /\ Unbroken
    BY <2>1 DEF OldestInd
  <2>3. files[0 + 1] = Absent \/ 0 + 1 = MaxFiles
    BY <1>0, <1>10, <2>1 DEF RenameCurrent, OldestInd
  <2>4. 0 \in 0 .. MaxFiles - 1
    BY <1>0
  <2>5. InOrder' /\ Unbroken' /\ Held' \subseteq Held
    BY <1>0, <2>1, <2>2, <2>3, <2>4, KeptBytes, MovedBytes
  <2> QED
    BY <2>1, <2>2, <2>5 DEF OnlyWritten
<1> QED
  BY <1>2, <1>3, <1>4, <1>6, <1>7, <1>8, <1>9, <1>10 DEF Next

(* An unopened writer has lost nothing.                                       *)
LEMMA InitOldest == Init => OldestInd
<1> SUFFICES ASSUME Init PROVE OldestInd
  OBVIOUS
<1>1. \A i \in Slots : Length(i) = 0
  BY DEF Init, Length
<1>2. Held = {}
  <2> SUFFICES ASSUME NEW b \in Held PROVE FALSE
    OBVIOUS
  <2> QED
    BY <1>1, HeldFacts
<1> QED
  BY <1>1, <1>2 DEF Init, OldestInd, OnlyWritten, InOrder, Unbroken

(* The log loses its oldest bytes first, over rotations, failed renames of    *)
(* the current file, writes cut short, kills between two system calls and     *)
(* restarts on what they left; only a backup that could not be renamed is     *)
(* replaced by the next.                                                      *)
THEOREM OldestIsLostFirst == Spec => []LosesOldestFirst
<1>1. OldestInd => LosesOldestFirst
  BY DEF OldestInd, LosesOldestFirst
<1> QED
  BY <1>1, InitOldest, NextOldest, LogInductive, PTL DEF Spec

-----------------------------------------------------------------------------
(* When a byte is lost *)

(* A file to which some write could not be added.                             *)
FullFile(i) == files[i] # Absent /\ Length(i) > MaxBytes - MaxChunk

(* The name that a rotation has just made free, while one is under way.       *)
Freed(j) == stage = "shift" /\ j = shift + 1

Backups == Slots \ {0}

(* As long as every step has gone as planned: a rotation begins only with a   *)
(* full file and every backup was one; the backups have no gap but the name   *)
(* just made free; and a byte is lost only when there was no gap to fill.     *)
RoomInv ==
    failed = {} =>
        /\ stage = "shift" => FullFile(0)
        /\ \A i \in Backups : files[i] = Absent \/ FullFile(i)
        /\ \A i, j \in Backups :
              j < i /\ files[i] # Absent => files[j] # Absent \/ Freed(j)
        /\ Lost => \A j \in Backups : files[j] # Absent \/ Freed(j)

(* A step that leaves each file somewhere loses nothing.                      *)
LEMMA NoFileLost ==
    ASSUME LogTypeOK, written' = written,
           \A m \in Slots : files[m] # Absent => \E i \in Slots : files'[i] = files[m]
    PROVE  Lost' => Lost
<1>1. Held \subseteq Held'
  <2> SUFFICES ASSUME NEW b \in Held PROVE b \in Held'
    OBVIOUS
  <2>1. PICK m \in Slots : \E k \in 1 .. Length(m) : b = files[m][k]
    BY HeldFacts
  <2>2. files[m] # Absent
    BY <2>1, ByteFacts
  <2>3. PICK i \in Slots : files'[i] = files[m]
    BY <2>2
  <2>4. Length(i)' = Length(m)
    BY <2>3 DEF Length
  <2> QED
    BY <2>1, <2>3, <2>4, HeldFacts
<1> QED
  BY <1>1 DEF Lost

(* A step outside the renaming that leaves the backups alone.                 *)
LEMMA BackupsKept ==
    ASSUME RoomInv, failed = {}, stage # "shift", stage' # "shift",
           \A i \in Backups : files'[i] = files[i],
           Lost' => Lost
    PROVE  RoomInv'
<1>1. \A i \in Backups : files'[i] = files[i] /\ (FullFile(i) => FullFile(i)')
  BY DEF FullFile, Length
<1> QED
  BY <1>1 DEF RoomInv, Freed

(* A rotation moves the file under i to the next name; what it replaces there *)
(* is a last backup that could not be removed.                                *)
LEMMA MovedBackup ==
    ASSUME LogTypeOK, RoomInv, failed = {}, stage = "shift", shift < MaxFiles,
           files[shift + 1] = Absent \/ shift + 1 = MaxFiles,
           files[shift] # Absent,
           files' = [files EXCEPT ![shift + 1] = files[shift], ![shift] = Absent],
           written' = written
    PROVE  /\ \A i \in Backups : files'[i] = Absent \/ FullFile(i)'
           /\ \A i, j \in Backups :
                 j < i /\ files'[i] # Absent => files'[j] # Absent \/ j = shift
           /\ Lost' => \A j \in Backups : files'[j] # Absent \/ j = shift
<1>1. /\ shift \in Slots /\ shift + 1 \in Backups /\ shift + 1 # shift /\ shift \in Nat
      /\ Backups \subseteq Slots /\ Backups \subseteq Nat /\ MaxFiles \in Nat \ {0}
      /\ \A i \in Backups : i <= MaxFiles
  BY LogAssumption DEF LogTypeOK, Slots, Backups
<1>2. /\ files'[shift] = Absent /\ files'[shift + 1] = files[shift]
      /\ \A j \in Slots : j # shift /\ j # shift + 1 => files'[j] = files[j]
  BY <1>1 DEF LogTypeOK
<1>3. /\ FullFile(0)
      /\ \A i \in Backups : files[i] = Absent \/ FullFile(i)
      /\ \A i, j \in Backups : j < i /\ files[i] # Absent => files[j] # Absent \/ j = shift + 1
      /\ Lost => \A j \in Backups : files[j] # Absent \/ j = shift + 1
  BY DEF RoomInv, Freed
<1>4. \A i \in Backups : files'[i] = Absent \/ FullFile(i)'
  <2> SUFFICES ASSUME NEW i \in Backups, files'[i] # Absent PROVE FullFile(i)'
    OBVIOUS
  <2>1. CASE i = shift + 1
    <3>1. FullFile(shift)
      BY <1>1, <1>3 DEF Backups
    <3> QED
      BY <1>2, <2>1, <3>1 DEF FullFile, Length
  <2>2. CASE i # shift + 1
    <3>1. files'[i] = files[i]
      BY <1>1, <1>2, <2>2
    <3> QED
      BY <1>3, <3>1 DEF FullFile, Length
  <2> QED
    BY <2>1, <2>2
<1>5. \A i, j \in Backups : j < i /\ files'[i] # Absent => files'[j] # Absent \/ j = shift
  <2> SUFFICES ASSUME NEW i \in Backups, NEW j \in Backups, j < i,
                      files'[i] # Absent, j # shift, j # shift + 1
               PROVE  files[j] # Absent
    BY <1>1, <1>2
  <2>1. CASE i = shift + 1
    <3>1. shift \in Backups /\ j < shift
      BY <1>1, <2>1 DEF Backups
    <3> QED
      BY <1>1, <1>3, <3>1
  <2>2. CASE i # shift + 1
    BY <1>1, <1>2, <1>3, <2>2
  <2> QED
    BY <2>1, <2>2
<1>6. ASSUME Lost' PROVE \A j \in Backups : files'[j] # Absent \/ j = shift
  <2> SUFFICES ASSUME NEW j \in Backups, j # shift, j # shift + 1
               PROVE  files[j] # Absent
    BY <1>1, <1>2
  <2>1. CASE files[shift + 1] = Absent
    <3>1. \A m \in Slots : files[m] # Absent => \E i \in Slots : files'[i] = files[m]
      BY <1>1, <1>2, <2>1
    <3> QED
      BY <1>3, <1>6, <3>1, NoFileLost
  <2>2. CASE files[shift + 1] # Absent
    BY <1>1, <1>3, <2>2
  <2> QED
    BY <2>1, <2>2
<1> QED
  BY <1>4, <1>5, <1>6

(* No step that goes as planned loses a byte while there is room for it.      *)
LEMMA NextRoom == LogInd /\ LogInd' /\ OldestInd /\ RoomInv /\ [Next]_vars => RoomInv'
<1> SUFFICES ASSUME LogInd, LogInd', OldestInd, RoomInv, [Next]_vars, failed' = {}
             PROVE  RoomInv'
  BY DEF RoomInv
<1>0. LogTypeOK /\ LogTypeOK' /\ MaxFiles \in Nat \ {0} /\ Backups \subseteq Slots
  BY LogAssumption DEF LogInd, Backups
<1>1. CASE StartProcess \/ Reopen
  <2>1. /\ failed = {} /\ written' = written /\ stage # "shift" /\ stage' # "shift"
        /\ OpenFile
    BY <1>1 DEF StartProcess, Reopen, writeVars, history
  <2>2. Held' = Held /\ \A i \in Backups : files'[i] = files[i]
    BY <1>0, <2>1, OpenedBytes, OpenFacts DEF Backups
  <2>3. Lost' => Lost
    BY <2>1, <2>2 DEF Lost
  <2> QED
    BY <2>1, <2>2, <2>3, BackupsKept
<1>2. CASE \/ \E s \in copying : WriteRefused(s)
           \/ ProcessExits \/ ProcessExitsUnlogged \/ UNCHANGED vars
  <2>1. failed = {} /\ UNCHANGED <<written, files, stage, shift>>
    BY <1>2 DEF WriteRefused, ProcessExits, ProcessExitsUnlogged, vars, fileVars, writeVars,
       history
  <2>2. Lost' => Lost
    BY <2>1, KeptBytes DEF Lost
  <2> QED
    BY <2>1, <2>2 DEF RoomInv, FullFile, Freed, Length
<1>3. CASE ReopenFails \/ Killed
  <2>1. CASE ReopenFails
    <3>1. /\ failed = {} /\ UNCHANGED <<written, files>>
          /\ stage # "shift" /\ stage' # "shift"
      BY <2>1 DEF ReopenFails, WriteEnds, fileVars
    <3>2. Lost' => Lost
      BY <3>1, KeptBytes DEF Lost
    <3> QED
      BY <3>1, <3>2, BackupsKept
  <2> QED
    BY <1>3, <2>1 DEF Killed
<1>4. ASSUME NEW s, NEW n \in Nat, WriteBytes(s, n), open, stage # "shift", stage' # "shift"
      PROVE  RoomInv'
  <2>1. failed = {}
    BY <1>4 DEF WriteBytes
  <2>2. OnlyWritten
    BY <2>1 DEF OldestInd
  <2>3. (Lost' => Lost) /\ \A i \in Backups : files'[i] = files[i]
    BY <1>4, <2>2, WrittenBytes DEF Backups
  <2> QED
    BY <1>4, <2>1, <2>3, BackupsKept
<1>5. ASSUME NEW s \in copying, NEW n \in Chunks, WriteFits(s, n) PROVE RoomInv'
  <2>1. n \in Nat /\ WriteBytes(s, n) /\ open /\ stage # "shift" /\ stage' # "shift"
    BY <1>5, LogAssumption DEF WriteFits, Chunks, writeVars
  <2> QED
    BY <1>4, <2>1
<1>6. CASE WriteAfterRotation
  <2>1. chunk.len \in Nat
    BY <1>0, LogAssumption DEF LogTypeOK
  <2>2. /\ WriteBytes(chunk.stream, chunk.len) /\ open
        /\ stage # "shift" /\ stage' # "shift"
    BY <1>6 DEF WriteAfterRotation, WriteEnds, LogInd, RotationInv
  <2> QED
    BY <1>4, <2>1, <2>2
<1>7. ASSUME NEW s \in copying, NEW n \in Chunks, RotationBegins(s, n) PROVE RoomInv'
  <2>1. /\ failed = {} /\ written' = written /\ stage = "idle" /\ stage' = "shift"
        /\ shift' + 1 = MaxFiles /\ open /\ size + n > MaxBytes
        /\ files' = [files EXCEPT ![MaxFiles] = Absent] \/ files' = files
    BY <1>0, <1>7 DEF RotationBegins, Oldest, history, Full
  <2>2. /\ \A i \in Backups : files[i] = Absent \/ FullFile(i)
        /\ \A i, j \in Backups : j < i /\ files[i] # Absent => files[j] # Absent
        /\ Lost => \A j \in Backups : files[j] # Absent
    BY <2>1 DEF RoomInv, Freed
  <2>3. FullFile(0)
    <3>1. files[0] # Absent /\ size = Len(files[0]) /\ size \in Nat
      BY <1>0, <2>1 DEF LogInd, SizeTracked, LogTypeOK
    <3>2. n \in Nat /\ n <= MaxChunk /\ MaxChunk \in Nat /\ MaxBytes \in Nat
      BY LogAssumption DEF Chunks
    <3> QED
      BY <2>1, <3>1, <3>2 DEF FullFile, Length
  <2>4. 0 \in Slots /\ MaxFiles \in Backups /\ 0 # MaxFiles
        /\ \A i \in Backups : i <= MaxFiles /\ i \in Nat
    BY <1>0 DEF Backups, Slots
  <2>5. \A i \in Slots : i # MaxFiles => files'[i] = files[i]
    BY <1>0, <2>1, <2>4 DEF LogTypeOK
  <2>6. FullFile(0)' /\ \A i \in Backups : files'[i] = Absent \/ FullFile(i)'
    <3>1. FullFile(0)'
      BY <2>3, <2>4, <2>5 DEF FullFile, Length
    <3>2. ASSUME NEW i \in Backups PROVE files'[i] = Absent \/ FullFile(i)'
      <4>1. files'[i] = files[i] \/ files'[i] = Absent
        BY <1>0, <2>1, <2>4, <2>5 DEF LogTypeOK
      <4> QED
        BY <2>2, <4>1 DEF FullFile, Length
    <3> QED
      BY <3>1, <3>2
  <2>7. \A i, j \in Backups : j < i /\ files'[i] # Absent => files'[j] # Absent
    <3> SUFFICES ASSUME NEW i \in Backups, NEW j \in Backups, j < i, files'[i] # Absent
                 PROVE  files'[j] # Absent
      OBVIOUS
    <3>1. j # MaxFiles /\ files'[j] = files[j]
      BY <1>0, <2>4, <2>5
    <3>2. files[i] # Absent
      BY <1>0, <2>1, <2>4 DEF LogTypeOK
    <3> QED
      BY <2>2, <3>1, <3>2
  <2>8. ASSUME Lost' PROVE \A j \in Backups : files'[j] # Absent \/ j = MaxFiles
    <3> SUFFICES ASSUME NEW j \in Backups, j # MaxFiles PROVE files[j] # Absent
      BY <1>0, <2>5
    <3>1. CASE files[MaxFiles] = Absent
      <4>1. \A m \in Slots : files[m] # Absent => files'[m] = files[m]
        BY <2>5, <3>1
      <4>2. Lost
        BY <1>0, <2>1, <2>8, <4>1, NoFileLost
      <4> QED
        BY <2>2, <4>2
    <3>2. CASE files[MaxFiles] # Absent
      BY <2>2, <2>4, <3>2
    <3> QED
      BY <3>1, <3>2
  <2> QED
    BY <2>1, <2>6, <2>7, <2>8 DEF RoomInv, Freed
<1>8. CASE ShiftBackup
  <2>1. /\ failed = {} /\ written' = written /\ stage = "shift" /\ stage' = "shift"
        /\ shift \in 1 .. MaxFiles - 1 /\ shift' + 1 = shift /\ shift < MaxFiles
        /\ files' = IF files[shift] = Absent THEN files
                    ELSE [files EXCEPT ![shift + 1] = files[shift], ![shift] = Absent]
    BY <1>0, <1>8 DEF ShiftBackup, LogInd, LogTypeOK, RotationInv
  <2>2. files[shift + 1] = Absent \/ shift + 1 = MaxFiles
    BY <1>0, <2>1 DEF OldestInd
  <2>3. /\ FullFile(0)
        /\ \A i \in Backups : files[i] = Absent \/ FullFile(i)
        /\ \A i, j \in Backups : j < i /\ files[i] # Absent => files[j] # Absent \/ j = shift + 1
        /\ Lost => \A j \in Backups : files[j] # Absent \/ j = shift + 1
    BY <2>1 DEF RoomInv, Freed
  <2>4. shift \in Backups /\ shift # shift + 1 /\ 0 \in Slots /\ shift # 0 /\ shift + 1 # 0
        /\ Backups \subseteq Nat
    BY <1>0, <2>1 DEF Backups, Slots
  <2>5. FullFile(0)'
    <3>1. files'[0] = files[0]
      BY <1>0, <2>1, <2>4 DEF LogTypeOK
    <3> QED
      BY <2>3, <3>1 DEF FullFile, Length
  <2>6. /\ \A i \in Backups : files'[i] = Absent \/ FullFile(i)'
        /\ \A i, j \in Backups : j < i /\ files'[i] # Absent => files'[j] # Absent \/ j = shift
        /\ Lost' => \A j \in Backups : files'[j] # Absent \/ j = shift
    <3>1. CASE files[shift] # Absent
      BY <1>0, <2>1, <2>2, <3>1, MovedBackup
    <3>2. CASE files[shift] = Absent
      <4>1. files' = files
        BY <2>1, <3>2
      <4>2. ~Lost'
        BY <2>1, <2>3, <2>4, <3>2, <4>1, KeptBytes DEF Lost
      <4>3. \A i \in Backups : files'[i] = Absent \/ FullFile(i)'
        BY <2>3, <4>1 DEF FullFile, Length
      <4>4. \A i, j \in Backups : j < i /\ files[i] # Absent => files[j] # Absent
        <5> SUFFICES ASSUME NEW i \in Backups, files[i] # Absent, shift + 1 < i PROVE FALSE
          BY <2>3
        <5>1. shift < i
          BY <2>4
        <5> QED
          BY <2>3, <2>4, <3>2, <5>1
      <4> QED
        BY <4>1, <4>2, <4>3, <4>4
    <3> QED
      BY <3>1, <3>2
  <2> QED
    BY <2>1, <2>5, <2>6 DEF RoomInv, Freed
<1>9. CASE RenameCurrent
  <2>1. /\ failed = {} /\ written' = written /\ stage = "shift" /\ stage' # "shift"
        /\ shift = 0 /\ shift < MaxFiles
    BY <1>0, <1>9 DEF RenameCurrent
  <2>2. files[shift] # Absent
    BY <2>1 DEF RoomInv, FullFile
  <2>3. files' = [files EXCEPT ![shift + 1] = files[shift], ![shift] = Absent]
    BY <1>9, <2>1, <2>2 DEF RenameCurrent
  <2>4. files[shift + 1] = Absent \/ shift + 1 = MaxFiles
    BY <1>0, <2>1 DEF OldestInd
  <2>5. /\ \A i \in Backups : files'[i] = Absent \/ FullFile(i)'
        /\ \A i, j \in Backups : j < i /\ files'[i] # Absent => files'[j] # Absent \/ j = shift
        /\ Lost' => \A j \in Backups : files'[j] # Absent \/ j = shift
    BY <1>0, <2>1, <2>2, <2>3, <2>4, MovedBackup
  <2>6. shift \notin Backups
    BY <2>1 DEF Backups
  <2> QED
    BY <2>1, <2>5, <2>6 DEF RoomInv
<1> QED
  BY <1>1, <1>2, <1>3, <1>5, <1>6, <1>7, <1>8, <1>9 DEF Next

(* A writer that has not been opened has no backups.                          *)
LEMMA InitRoom == Init => RoomInv
  BY DEF Init, RoomInv, Backups, Lost

(* Without a failure and without a kill, a byte is lost only for room: when   *)
(* log_max_files backups are there, each too full for another write.          *)
THEOREM LostOnlyForRoom == Spec => []LosesOnlyForRoom
<1>1. RoomInv => LosesOnlyForRoom
  BY DEF RoomInv, LosesOnlyForRoom, Freed, FullFile, Backups
<1>2. Init => OldestInd /\ RoomInv
  BY InitOldest, InitRoom
<1>3. LogInd /\ LogInd' /\ OldestInd /\ RoomInv /\ [Next]_vars => OldestInd' /\ RoomInv'
  BY NextOldest, NextRoom
<1> QED
  BY <1>1, <1>2, <1>3, LogInductive, PTL DEF Spec

-----------------------------------------------------------------------------
(* The output that is copied *)

(* The two streams are copied into a closed file only after a rotation that   *)
(* could not reopen it.                                                       *)
CutInv == stage = "idle" /\ ~open /\ copying # {} => err = "open"

(* What each step makes of the streams that are copied.                       *)
LEMMA CutStep ==
    ASSUME LogInd, CutInv, [Next]_vars
    PROVE  CutInv' /\ (copying' # {} /\ copying \ copying' # {} => err' # "none")
<1> USE DEF LogInd, CutInv, writeVars, fileVars, history
<1>1. CASE StartProcess
  BY <1>1 DEF StartProcess, OpenFile
<1>2. ASSUME NEW s \in copying, WriteRefused(s) PROVE CutInv' /\ err' = "open"
  BY <1>2 DEF WriteRefused
<1>3. ASSUME NEW s, NEW n, WriteBytes(s, n) PROVE copying' # copying => err' = "write"
  BY <1>3 DEF WriteBytes
<1>4. ASSUME NEW s, NEW n, WriteFits(s, n) PROVE CutInv'
  BY <1>4 DEF WriteFits
<1>5. CASE WriteAfterRotation
  BY <1>5, <1>3 DEF WriteAfterRotation, RotationInv
<1>6. CASE \/ \E s \in copying, n \in Chunks : RotationBegins(s, n)
           \/ ShiftBackup \/ RenameCurrent \/ Reopen
  BY <1>6 DEF RotationBegins, ShiftBackup, RenameCurrent, Reopen
<1>7. CASE ReopenFails
  BY <1>7 DEF ReopenFails
<1>8. CASE ProcessExits \/ ProcessExitsUnlogged \/ Killed
  BY <1>8 DEF ProcessExits, ProcessExitsUnlogged, Killed
<1>9. CASE UNCHANGED vars
  BY <1>9 DEF vars
<1> QED
  BY <1>1, <1>2, <1>3, <1>4, <1>5, <1>6, <1>7, <1>8, <1>9 DEF Next, WriteFits

(* The errors that rotate ignores cut off neither stream, in this rotation or *)
(* in a later one: output ends only where the last open or write of the file  *)
(* has failed.                                                                *)
THEOREM RotationDegrades == Spec => DegradesGracefully
<1>1. Init => CutInv
  BY DEF Init, CutInv
<1> QED
  BY <1>1, CutStep, LogInductive, PTL DEF Spec, DegradesGracefully
=============================================================================
