------------------------ MODULE RotatingLogProperties ------------------------
(***************************************************************************)
(* What a reader of the log may rely on.                                   *)
(***************************************************************************)
EXTENDS RotatingLog

(* The bytes that are left of the log, wherever they are. *)
Held == UNION {{files[i][k] : k \in 1 .. Length(i)} : i \in Slots}

Lost == ~(1 .. written \subseteq Held)

(* The k-th byte of one file is before the l-th of another, when the files    *)
(* are read from the oldest backup to the current one.                        *)
ReadBefore(i, k, j, l) == i > j \/ (i = j /\ k < l)

InOrder ==
    \A i, j \in Slots : \A k \in 1 .. Length(i), l \in 1 .. Length(j) :
        ReadBefore(i, k, j, l) => files[i][k] < files[j][l]

Unbroken == \A b \in Held : b .. written \subseteq Held

(* What is lost is the oldest part: the files hold an unbroken end of the     *)
(* log in its order, unless the renaming of a backup failed and the next      *)
(* replaced it.                                                               *)
LosesOldestFirst == "shift" \notin failed => InOrder /\ Unbroken

(* Nothing is lost before its time: as long as every rename has gone as       *)
(* planned and no rotation was cut short by a kill, a lost line means that    *)
(* log_max_files full backups are there; a file that could not be opened or   *)
(* written costs no line that was in a file.                                  *)
LosesOnlyForRoom ==
    failed = {} /\ stage = "idle" /\ Lost =>
        \A i \in Slots \ {0} : Length(i) > MaxBytes - MaxChunk

(* The errors that rotate ignores cost no output: while the process goes on,  *)
(* a stream of it is cut off only when the last open or write of the file has *)
(* failed, never because a backup or the file itself could not be renamed, in *)
(* this rotation or in one before.                                            *)
DegradesGracefully == [][copying' # {} /\ copying \ copying' # {} => err' # "none"]_vars
=============================================================================
