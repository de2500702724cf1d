------------------------------ MODULE AuditLog ------------------------------
(***************************************************************************)
(* The redaction audit log: AuditLog (redaction/audit-log.ts), the files   *)
(* it leaves on disk, and the life of the process that writes them.        *)
(*                                                                         *)
(* Every method is synchronous, so a call is one step.  What can go wrong  *)
(* inside it (a rename, the reopening, or the write itself fails) is part  *)
(* of the step.  Entry n is the n-th one that reached a file.              *)
(***************************************************************************)
EXTENDS Integers

CONSTANTS
    MaxBytes,      \* cfg.auditLogMaxBytes
    Sizes,         \* the sizes of a line
    MaxEntries,    \* bounds the number of entries
    MaxRotations,  \* bounds rotationIndex within one process
    MaxProcesses   \* bounds the number of processes, one after the other

ASSUME SizeAssumption == MaxBytes \in Nat \ {0} /\ Sizes \subseteq Nat \ {0}
ASSUME BoundsAssumption ==
    MaxEntries \in Nat /\ MaxRotations \in Nat /\ MaxProcesses \in Nat \ {0}

VARIABLES
    open,           \* audit.fd is not null
    currentBytes,   \* audit.currentBytes
    rotationIndex,  \* audit.rotationIndex
    disk,           \* file 0 is the live file, file i is <path>.i
    written,        \* entries that reached a file
    inherited,      \* those of them that earlier processes wrote
    process,        \* which process is running
    faults          \* the calls that can fail in this behaviour

logVars == <<open, currentBytes, rotationIndex, disk, written, inherited,
             process, faults>>

Live == 0
Rotated == 1 .. MaxRotations
Files == {Live} \cup Rotated

-----------------------------------------------------------------------------
(* Files                                                                   *)

FileShape == [bytes : Nat, entries : SUBSET (1 .. MaxEntries)]
EmptyFile == [bytes |-> 0, entries |-> {}]

(* A file after a line of this size is written to it, if it is.            *)
Appended(file, size, stored) ==
    IF stored
    THEN [bytes |-> file.bytes + size, entries |-> file.entries \cup {written + 1}]
    ELSE file

(* What openSync and fstatSync say of the size of a file: 0 if the latter  *)
(* fails.                                                                  *)
StatSizes(file) == {file.bytes} \cup (IF "stat" \in faults THEN {0} ELSE {})

-----------------------------------------------------------------------------
(* Operations                                                              *)

(* What currentBytes may be after ensureOpen().                            *)
Seen == IF open THEN {currentBytes} ELSE StatSizes(disk[Live])

(* As NextIndex, advanced only after the file has been renamed.            *)
NextIndexLate == IF rotationIndex = 0 THEN 1 ELSE rotationIndex

(* As NextIndex, going round a fixed number of files.                      *)
NextIndexRing == (rotationIndex % 2) + 1

(* The index of the file that the next rotation writes.                    *)
NextIndex == rotationIndex + 1

(* As CrossesLimit, looking at the file as it is before the line.          *)
CrossesLimitBefore(seen, size) == seen > MaxBytes

(* Whether a line of this size makes write() rotate first.                 *)
CrossesLimit(seen, size) == seen + size > MaxBytes

(* write(), when the line fits: it is appended, unless writeSync throws.   *)
(* A write() that cannot open the file changes nothing.                    *)
Append(size, seen, stored) ==
    /\ written < MaxEntries
    /\ ~CrossesLimit(seen, size)
    /\ open' = TRUE
    /\ currentBytes' = IF stored THEN seen + size ELSE seen
    /\ written' = IF stored THEN written + 1 ELSE written
    /\ disk' = [disk EXCEPT ![Live] = Appended(@, size, stored)]
    /\ UNCHANGED <<rotationIndex, inherited, process, faults>>

(* The files after rotate().  Renaming replaces whatever has the new name  *)
(* already; a file that could not be renamed stays the live one.           *)
RotatedDisk(renamed) ==
    IF renamed
    THEN [disk EXCEPT ![NextIndex] = disk[Live], ![Live] = EmptyFile]
    ELSE disk

(* What both outcomes of rotate() have in common.                          *)
Rotates(size, seen, renamed) ==
    /\ written < MaxEntries
    /\ rotationIndex < MaxRotations
    /\ CrossesLimit(seen, size)
    /\ renamed \/ "rename" \in faults
    /\ rotationIndex' = NextIndex
    /\ UNCHANGED <<inherited, process, faults>>

(* write(), when the line would cross the limit: the live file is renamed  *)
(* if that works and reopened, and the line is appended.                   *)
RotateAndAppend(size, seen, renamed, stored) ==
    /\ Rotates(size, seen, renamed)
    /\ open' = TRUE
    /\ disk' = [RotatedDisk(renamed) EXCEPT ![Live] = Appended(@, size, stored)]
    /\ written' = IF stored THEN written + 1 ELSE written
    /\ \E reopened \in StatSizes(RotatedDisk(renamed)[Live]) :
          currentBytes' = IF stored THEN reopened + size ELSE reopened

(* write(), when the file cannot be reopened after the rotation: the line  *)
(* is dropped, and the next write opens a file again.                      *)
RotateWithoutReopening(size, seen, renamed) ==
    /\ Rotates(size, seen, renamed)
    /\ open' = FALSE
    /\ disk' = RotatedDisk(renamed)
    /\ currentBytes' = 0
    /\ UNCHANGED written

(* close(): from stop().  A later write opens the file again.              *)
Close ==
    /\ open
    /\ open' = FALSE
    /\ UNCHANGED <<currentBytes, rotationIndex, disk, written, inherited, process,
                   faults>>

(* The process ends, in whatever state it is, and another one starts with  *)
(* a new AuditLog on the same path.                                        *)
Restart ==
    /\ process < MaxProcesses
    /\ process' = process + 1
    /\ open' = FALSE
    /\ currentBytes' = 0
    /\ rotationIndex' = 0
    /\ inherited' = written
    /\ UNCHANGED <<disk, written, faults>>

-----------------------------------------------------------------------------

LogInit ==
    /\ open = FALSE
    /\ currentBytes = 0
    /\ rotationIndex = 0
    /\ disk = [i \in Files |-> EmptyFile]
    /\ written = 0
    /\ inherited = 0
    /\ process = 1
    /\ faults \in SUBSET {"rename", "stat"}

LogNext ==
    \/ Close
    \/ Restart
    \/ \E size \in Sizes, seen \in Seen :
         \/ \E stored \in BOOLEAN : Append(size, seen, stored)
         \/ \E renamed \in BOOLEAN :
              \/ RotateWithoutReopening(size, seen, renamed)
              \/ \E stored \in BOOLEAN :
                   RotateAndAppend(size, seen, renamed, stored)

LogSpec == LogInit /\ [][LogNext]_logVars

-----------------------------------------------------------------------------
(* Properties                                                              *)

LogTypeOK ==
    /\ open \in BOOLEAN
    /\ currentBytes \in Nat
    /\ rotationIndex \in 0 .. MaxRotations
    /\ disk \in [Files -> FileShape]
    /\ written \in 0 .. MaxEntries
    /\ inherited \in 0 .. written
    /\ process \in 1 .. MaxProcesses
    /\ faults \subseteq {"rename", "stat"}

(* As long as renames work the live file stays within its limit, unless it *)
(* consists of one line that is larger than the limit.                     *)
LiveFileBounded ==
    faults = {} =>
        \/ disk[Live].bytes <= MaxBytes
        \/ \A m, n \in disk[Live].entries : m = n

(* The entries of the running process.                                     *)
Own == inherited + 1 .. written

(* No process loses an audit entry it has written itself, nor has it in    *)
(* two files: rotation moves whole files to names that the process has not *)
(* used before, and a rotation that fails loses nothing.                   *)
NothingLostWithinProcess ==
    \A n \in Own : \E i \in Files :
        /\ n \in disk[i].entries
        /\ \A j \in Files : n \in disk[j].entries => j = i

(* What a process has written is in order: a file with a higher index has  *)
(* later entries, and the live file has the latest.                        *)
FilesInOrder ==
    \A i, j \in Files :
        (i # Live /\ (i < j \/ j = Live)) =>
            \A m \in disk[i].entries \cap Own,
               n \in disk[j].entries \cap Own : m < n

(* A claim that the code does not keep.  audit-log.ts, rotate(): "losing   *)
(* rotation is preferred to losing audit data".  Of the entries of all     *)
(* processes.                                                              *)
NothingLost ==
    \A n \in 1 .. written : \E i \in Files : n \in disk[i].entries
=============================================================================
