----------------------------- MODULE AuditFile -----------------------------
(***************************************************************************)
(* The audit log (internal/audit): Logger.Log writes one record at a time  *)
(* to a RotatingFile, which keeps the primary file below maxBytes and      *)
(* shifts it through numbered backups.  Log holds its mutex across the     *)
(* whole write, so records are written one after the other; what can come  *)
(* between two file operations is a failure of the next one, or the end of *)
(* the process, after which a new process opens the same files.            *)
(***************************************************************************)
EXTENDS Integers, Sequences, FiniteSets, SequencesExt, Functions

CONSTANTS
    Sizes,        \* sizes of audit records
    MaxBytes,     \* RotatingFile.maxBytes
    MaxFiles,     \* RotatingFile.maxFiles: the primary and its backups
    MaxRecords,   \* bound: records logged
    MaxFailures,  \* bound: file operations that fail
    MaxCrashes    \* bound: ends of the process

ASSUME AuditFileAssumption ==
    /\ Sizes \subseteq Nat \ {0}
    /\ MaxBytes \in Nat \ {0} /\ MaxFiles \in Nat \ {0}
    /\ MaxRecords \in Nat /\ MaxFailures \in Nat /\ MaxCrashes \in Nat

VARIABLES
    files,            \* the directory: backup number -> content; 0 is the primary
    open,             \* RotatingFile.f is not nil
    size,             \* RotatingFile.size
    pc,               \* what the process does next: see Steps
    i,                \* the loop variable of rotateLocked
    rec,              \* the record being written
    failureReported,  \* Logger.failureReported
    reports,          \* diagnostics written to stderr
    acked,            \* history: the records that were written without error
    lastFailed,       \* history: the record before this one failed
    periods,          \* history: runs of failed records in this process
    clean,            \* history: no file operation failed for this record
    failures, crashes \* bounds

fileVars == <<open, size>>
logVars == <<failureReported, reports, acked, lastFailed, periods>>
vars == <<files, fileVars, pc, i, rec, logVars, clean, failures, crashes>>

(* A file holds pieces of records, a piece being the whole or the first    *)
(* bytes of one.                                                           *)
Piece(id, bytes, whole) == [id |-> id, bytes |-> bytes, whole |-> whole]

Bytes(content) == SumFunction([n \in DOMAIN content |-> content[n].bytes])

Steps == {"down", "idle", "reopen", "close", "remove", "rename", "fresh", "write"}

NoRecord == [id |-> 0, size |-> 0]

Init ==
    /\ files = << >>
    /\ open = FALSE /\ size = 0
    /\ pc = "down" /\ i = 0 /\ rec = NoRecord
    /\ failureReported = FALSE /\ reports = 0
    /\ acked = << >> /\ lastFailed = FALSE /\ periods = 0
    /\ clean = TRUE /\ failures = 0 /\ crashes = 0

\* Mutant: a success does not end the failure period.
NeverRecovered == failureReported' = failureReported

Recovered == failureReported' = FALSE

(* One diagnostic until a write succeeds again.                            *)
Report == reports' = IF failureReported THEN reports ELSE reports + 1

NoteFailure ==
    /\ lastFailed' = TRUE
    /\ periods' = IF lastFailed THEN periods ELSE periods + 1

(* Log, when the write failed.                                             *)
FailLog ==
    /\ Report
    /\ failureReported' = TRUE
    /\ NoteFailure
    /\ pc' = "idle"
    /\ UNCHANGED <<i, rec, acked>>

(* A file operation fails, and the write with it.                          *)
Fails ==
    /\ failures < MaxFailures
    /\ failures' = failures + 1
    /\ clean' = FALSE
    /\ FailLog
    /\ UNCHANGED crashes

Works == UNCHANGED <<logVars, rec, clean, failures, crashes>>

----------------------------------------------------------------------------
Primary == IF 0 \in DOMAIN files THEN files[0] ELSE << >>

With(n, content) == [m \in DOMAIN files \cup {n} |->
                        IF m = n THEN content ELSE files[m]]

Without(n) == Restrict(files, DOMAIN files \ {n})

(* openRegularAuditFile with append makes the primary if it is absent.     *)
OpenAppend == files' = With(0, Primary)

(* The size that Stat reports.                                             *)
StatSize == Bytes(Primary)

(* OpenRotating at the start of a process.                                 *)
Boot ==
    /\ pc = "down"
    /\ OpenAppend
    /\ open' = TRUE /\ size' = StatSize
    /\ pc' = "idle"
    /\ failureReported' = FALSE /\ reports' = 0
    /\ lastFailed' = FALSE /\ periods' = 0
    /\ UNCHANGED <<i, rec, acked, clean, failures, crashes>>

Crash ==
    /\ pc # "down"
    /\ crashes < MaxCrashes
    /\ crashes' = crashes + 1
    /\ pc' = "down" /\ open' = FALSE /\ size' = 0 /\ rec' = [rec EXCEPT !.size = 0]
    /\ UNCHANGED <<files, i, logVars, clean, failures>>

(* Where Write goes with an open file that holds n bytes.                  *)
AfterOpen(r, n) == IF n + r.size > MaxBytes THEN "close" ELSE "write"

\* Mutant: a file that a failed rotation closed is not opened again.
LogClosed(s) ==
    /\ pc = "idle" /\ rec.id < MaxRecords
    /\ s <= MaxBytes
    /\ rec' = [id |-> rec.id + 1, size |-> s]
    /\ clean' = TRUE
    /\ pc' = IF open THEN AfterOpen(rec', size) ELSE "idle"
    /\ UNCHANGED <<files, fileVars, i, logVars, failures, crashes>>

(* Log and the first tests of Write.  A closed file is reopened first.     *)
Log(s) ==
    /\ pc = "idle" /\ rec.id < MaxRecords
    /\ s <= MaxBytes
    /\ rec' = [id |-> rec.id + 1, size |-> s]
    /\ clean' = TRUE
    /\ pc' = IF open THEN AfterOpen(rec', size) ELSE "reopen"
    /\ UNCHANGED <<files, fileVars, i, logVars, failures, crashes>>

(* No byte of a record reaches a file: the size 0 stands for that.         *)
Unwritten ==
    /\ pc = "idle" /\ rec.id < MaxRecords
    /\ Report
    /\ failureReported' = TRUE
    /\ NoteFailure
    /\ rec' = [id |-> rec.id + 1, size |-> 0]
    /\ UNCHANGED <<files, fileVars, pc, i, acked, clean, failures, crashes>>

(* MultiWriter writes to stderr first, and stops at its failure.           *)
LogUnprinted == Unwritten

(* A record larger than the file limit is refused before any file          *)
(* operation.                                                              *)
LogTooLarge(s) == s > MaxBytes /\ Unwritten

Reopen ==
    /\ pc = "reopen"
    /\ OpenAppend
    /\ open' = TRUE /\ size' = StatSize
    /\ pc' = AfterOpen(rec, size')
    /\ UNCHANGED i
    /\ Works

(* The open fails, or a check or Stat after it has made the file.          *)
ReopenFails ==
    /\ pc = "reopen"
    /\ OpenAppend \/ UNCHANGED files
    /\ Fails
    /\ UNCHANGED fileVars

----------------------------------------------------------------------------
(* rotateLocked *)

\* Mutant: the loop starts one backup too late.
FirstPastEnd == MaxFiles

First == MaxFiles - 1

NextShift(n) == IF n >= 1 THEN "remove" ELSE "fresh"

Close ==
    /\ pc = "close"
    /\ open' = FALSE
    /\ i' = First
    /\ pc' = NextShift(i')
    /\ UNCHANGED <<files, size>>
    /\ Works

(* A failed close still gives up the file.                                 *)
CloseFails ==
    /\ pc = "close"
    /\ open' = FALSE
    /\ Fails
    /\ UNCHANGED <<files, size>>

(* Removing or renaming a file that is not there is no failure.            *)
RemoveTarget ==
    /\ pc = "remove"
    /\ files' = Without(i)
    /\ pc' = "rename"
    /\ UNCHANGED <<fileVars, i>>
    /\ Works

RemoveTargetFails ==
    /\ pc = "remove"
    /\ Fails
    /\ UNCHANGED <<files, fileVars>>

\* Mutant: the shifted file also stays where it was.
Copied(from, to) == With(to, files[from])

Moved(from, to) == [m \in (DOMAIN files \cup {to}) \ {from} |->
                       IF m = to THEN files[from] ELSE files[m]]

RenameSource ==
    /\ pc = "rename"
    /\ files' = IF i - 1 \in DOMAIN files THEN Moved(i - 1, i) ELSE files
    /\ i' = i - 1
    /\ pc' = NextShift(i')
    /\ UNCHANGED fileVars
    /\ Works

\* Mutant: the error of a rename is ignored.
RenameGoesOn ==
    /\ pc = "rename"
    /\ failures < MaxFailures
    /\ failures' = failures + 1
    /\ clean' = FALSE
    /\ i' = i - 1
    /\ pc' = NextShift(i')
    /\ UNCHANGED <<files, fileVars, rec, logVars, crashes>>

RenameSourceFails ==
    /\ pc = "rename"
    /\ Fails
    /\ UNCHANGED <<files, fileVars>>

(* The primary is opened without append and truncated.                     *)
Fresh ==
    /\ pc = "fresh"
    /\ files' = With(0, << >>)
    /\ open' = TRUE /\ size' = 0
    /\ pc' = "write"
    /\ UNCHANGED i
    /\ Works

FreshFails ==
    /\ pc = "fresh"
    /\ OpenAppend \/ UNCHANGED files
    /\ Fails
    /\ UNCHANGED fileVars

----------------------------------------------------------------------------
Write ==
    /\ pc = "write"
    /\ files' = With(0, Append(Primary, Piece(rec.id, rec.size, TRUE)))
    /\ size' = size + rec.size
    /\ acked' = Append(acked, rec.id)
    /\ Recovered
    /\ lastFailed' = FALSE
    /\ pc' = "idle"
    /\ UNCHANGED <<open, i, rec, reports, periods, clean, failures, crashes>>

\* Mutant: the bytes of a failed write are not counted.
ShortWriteUncounted(n) ==
    /\ pc = "write"
    /\ n < rec.size
    /\ files' = With(0, IF n = 0 THEN Primary
                        ELSE Append(Primary, Piece(rec.id, n, FALSE)))
    /\ size' = size
    /\ Fails
    /\ UNCHANGED open

(* A failed write may leave the first n bytes of the record.               *)
ShortWrite(n) ==
    /\ pc = "write"
    /\ n < rec.size
    /\ files' = With(0, IF n = 0 THEN Primary
                        ELSE Append(Primary, Piece(rec.id, n, FALSE)))
    /\ size' = size + n
    /\ Fails
    /\ UNCHANGED open

Next ==
    \/ Boot \/ Crash
    \/ LogUnprinted \/ \E s \in Sizes : Log(s) \/ LogTooLarge(s)
    \/ Reopen \/ ReopenFails
    \/ Close \/ CloseFails \/ RemoveTarget \/ RemoveTargetFails \/ RenameSource \/ RenameSourceFails
    \/ Fresh \/ FreshFails
    \/ Write \/ \E n \in 0..MaxBytes : ShortWrite(n)

Spec == Init /\ [][Next]_vars

----------------------------------------------------------------------------
(* Properties *)

AnyPiece == [id : Nat, bytes : Nat, whole : BOOLEAN]

TypeOK ==
    /\ DOMAIN files \subseteq 0..MaxFiles - 1
    /\ files \in [DOMAIN files -> Seq(AnyPiece)]
    /\ open \in BOOLEAN /\ size \in Nat
    /\ pc \in Steps /\ i \in 0..MaxFiles - 1
    /\ rec \in [id : 0..MaxRecords, size : Nat]
    /\ failureReported \in BOOLEAN /\ reports \in Nat
    /\ acked \in Seq(Nat) /\ lastFailed \in BOOLEAN /\ periods \in Nat
    /\ clean \in BOOLEAN /\ failures \in Nat /\ crashes \in Nat
    /\ pc = "write" => open

(* No file grows above audit.max_bytes: the size the rotation decides with *)
(* stays that of the primary after every failure, reopening and restart.   *)
FilesBounded == \A n \in DOMAIN files : Bytes(files[n]) <= MaxBytes

(* The places of the pieces that are kept, a file and a position in it,    *)
(* read from the oldest backup to the primary.                             *)
Places == UNION {{n} \X DOMAIN files[n] : n \in DOMAIN files}

PieceAt(p) == files[p[1]][p[2]]

Before(p, q) == \/ p[1] > q[1]
                \/ p[1] = q[1] /\ p[2] < q[2]

KeptInOrder ==
    \A p, q \in Places : Before(p, q) => PieceAt(p).id < PieceAt(q).id

KeptWhole == {PieceAt(p).id : p \in {q \in Places : PieceAt(q).whole}}

KeptIsSuffix ==
    \A m, n \in 1..Len(acked) :
        m < n /\ acked[m] \in KeptWhole => acked[n] \in KeptWhole

(* Reading the backups from the oldest to the primary gives every record   *)
(* at most once and in the order in which it was logged, and rotation      *)
(* drops the oldest records only: the acknowledged records that are kept   *)
(* are the latest ones, without a hole.  Both hold even between two steps  *)
(* of a rotation and after rotations that failed half way.                 *)
KeptIsOrderedSuffix == KeptInOrder /\ KeptIsSuffix

(* Each failure or restart can cost one backup, and no more: the newest    *)
(* acknowledged record survives as many of them as there are backups       *)
(* beyond the first, and the rotations after them.                         *)
NewestKept ==
    failures + crashes + 1 < MaxFiles /\ acked # << >> =>
        Last(acked) \in KeptWhole

(* SECURITY.md: "The server gives one diagnostic per continuous failure    *)
(* period".                                                                *)
OneReportPerPeriod == reports = periods

(* SECURITY.md: a storage failure is recoverable.  A record that fits is   *)
(* written unless stderr or a file operation fails for that very record,   *)
(* whatever failed before.                                                 *)
RecoversAlone ==
    pc = "idle" /\ clean /\ rec.size > 0 => acked # << >> /\ Last(acked) = rec.id
============================================================================
