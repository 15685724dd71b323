-------------------------- MODULE AuditFileProofs --------------------------
(***************************************************************************)
(* Proofs about AuditFile, for any record sizes, file limit and number of  *)
(* files, and any number of records, failures and restarts.                *)
(***************************************************************************)
EXTENDS AuditFile, SequenceTheorems, Facts

(* What one more piece does to a content and to its bytes.                 *)
LEMMA AppendIs ==
    ASSUME NEW S, NEW s \in Seq(S), NEW p \in S
    PROVE  /\ Append(s, p) \in Seq(S)
           /\ DOMAIN s = 1..Len(s) /\ Len(s) \in Nat
           /\ DOMAIN Append(s, p) = DOMAIN s \cup {Len(s) + 1}
           /\ Len(s) + 1 \notin DOMAIN s
           /\ \A n \in DOMAIN s : Append(s, p)[n] = s[n]
           /\ Append(s, p)[Len(s) + 1] = p
<1>1. DOMAIN s = 1..Len(s) /\ Len(s) \in Nat
  BY LenProperties
<1> QED BY <1>1, AppendProperties

LEMMA BytesEmpty == Bytes(<< >>) = 0
<1> DEFINE f == [n \in DOMAIN << >> |-> << >>[n].bytes]
<1>1. DOMAIN f = {}
  OBVIOUS
<1>2. Bytes(<< >>) = SumFunctionOnSet(f, DOMAIN f)
  BY Zenon DEF Bytes, SumFunction
<1> QED BY <1>1, <1>2, SumEmpty

LEMMA BytesNat ==
    ASSUME NEW s \in Seq(AnyPiece)
    PROVE  Bytes(s) \in Nat
<1> DEFINE f == [n \in DOMAIN s |-> s[n].bytes]
<1>1. DOMAIN s = 1..Len(s) /\ Len(s) \in Nat /\ IsFiniteSet(DOMAIN s)
  BY LenProperties, FS_Interval
<1>2. \A n \in DOMAIN s : f[n] \in Nat
  <2>1. \A n \in DOMAIN s : s[n] \in AnyPiece
    BY <1>1, ElementOfSeq
  <2>2. \A n \in DOMAIN s : s[n].bytes \in Nat
    BY <2>1 DEF AnyPiece
  <2> QED BY <2>2
<1>3. Bytes(s) = SumFunctionOnSet(f, DOMAIN f) /\ DOMAIN f = DOMAIN s
  BY Zenon DEF Bytes, SumFunction
<1> HIDE DEF f
<1> QED BY <1>1, <1>2, <1>3, SumNat

LEMMA BytesAppend ==
    ASSUME NEW s \in Seq(AnyPiece), NEW p \in AnyPiece
    PROVE  Bytes(Append(s, p)) = Bytes(s) + p.bytes
<1> DEFINE t == Append(s, p)
           f == [n \in DOMAIN s |-> s[n].bytes]
           g == [n \in DOMAIN t |-> t[n].bytes]
           last == Len(s) + 1
<1>1. /\ DOMAIN s = 1..Len(s) /\ Len(s) \in Nat
      /\ DOMAIN t = DOMAIN s \cup {last} /\ last \notin DOMAIN s
      /\ \A n \in DOMAIN s : t[n] = s[n]
      /\ t[last] = p
  BY AppendIs
<1>2. IsFiniteSet(DOMAIN s)
  BY <1>1, FS_Interval
<1>3. /\ \A n \in DOMAIN s : f[n] \in Nat /\ g[n] = f[n]
      /\ g[last] = p.bytes /\ p.bytes \in Nat
  <2>1. \A n \in DOMAIN s : s[n] \in AnyPiece
    BY <1>1, ElementOfSeq
  <2>2. (\A n \in DOMAIN s : s[n].bytes \in Nat) /\ p.bytes \in Nat
    BY <2>1 DEF AnyPiece
  <2> HIDE DEF t, last
  <2> QED BY <1>1, <2>2
<1>4. /\ Bytes(s) = SumFunctionOnSet(f, DOMAIN s)
      /\ Bytes(t) = SumFunctionOnSet(g, DOMAIN t)
  <2>1. DOMAIN f = DOMAIN s /\ DOMAIN g = DOMAIN t
    OBVIOUS
  <2>2. /\ Bytes(s) = SumFunctionOnSet(f, DOMAIN f)
        /\ Bytes(t) = SumFunctionOnSet(g, DOMAIN g)
    BY Zenon DEF Bytes, SumFunction
  <2> QED BY <2>1, <2>2, Zenon
<1> HIDE DEF f, g, t, last
<1>5. SumFunctionOnSet(g, DOMAIN s) = SumFunctionOnSet(f, DOMAIN s)
  BY <1>2, <1>3, SumSame
<1>6. SumFunctionOnSet(g, DOMAIN s \cup {last}) = SumFunctionOnSet(g, DOMAIN s) + g[last]
  <2>1. g[last] \in Nat /\ (\A n \in DOMAIN s : g[n] \in Nat) /\ last \notin DOMAIN s
    BY <1>1, <1>3
  <2> QED BY <1>2, <2>1, SumAdd
<1>7. Bytes(t) = SumFunctionOnSet(g, DOMAIN s \cup {last})
  BY <1>1, <1>4, Zenon
<1> QED BY <1>3, <1>4, <1>5, <1>6, <1>7 DEF t

----------------------------------------------------------------------------
(* Where the rotation is: which backup number it has just freed, and when  *)
(* the file is open.                                                       *)
Pending == pc \notin {"down", "idle"}

PhaseInv ==
    /\ open => 0 \in DOMAIN files
    /\ pc = "down" => ~ open /\ rec.size = 0
    /\ pc \in {"write", "close"} => open
    /\ pc \in {"reopen", "remove", "rename", "fresh"} => ~ open
    /\ pc \in {"remove", "rename"} => i >= 1
    /\ pc = "remove" /\ i < First => i \notin DOMAIN files
    /\ pc = "rename" => i \notin DOMAIN files
    /\ pc = "fresh" /\ First > 0 => 0 \notin DOMAIN files
    /\ rec.size <= MaxBytes

TypeInv == TypeOK /\ PhaseInv

(* How one step changes the directory.                                     *)
FilesStep ==
    \/ files' = files
    \/ /\ ~ open /\ files' = With(0, Primary)
    \/ /\ pc = "remove" /\ files' = Without(i)
    \/ /\ pc = "rename" /\ i - 1 \in DOMAIN files /\ files' = Moved(i - 1, i)
    \/ /\ pc = "fresh" /\ files' = With(0, << >>)
    \/ /\ pc = "write"
       /\ \E n \in Nat, whole \in BOOLEAN :
             files' = With(0, Append(Primary, Piece(rec.id, n, whole)))

(* Opening a primary that is there changes nothing.                        *)
LEMMA WithSame ==
    ASSUME 0 \in DOMAIN files, files \in [DOMAIN files -> Seq(AnyPiece)]
    PROVE  With(0, Primary) = files
<1>1. Primary = files[0]
  BY DEF Primary
<1>2. files = [m \in DOMAIN files |-> files[m]]
  OBVIOUS
<1>3. DOMAIN files \cup {0} = DOMAIN files
  OBVIOUS
<1>4. [m \in DOMAIN files \cup {0} |-> IF m = 0 THEN Primary ELSE files[m]]
        = [m \in DOMAIN files |-> files[m]]
  BY <1>1, <1>3
<1> QED BY <1>2, <1>4, Zenon DEF With

LEMMA FilesChange ==
    ASSUME AuditFileAssumption, TypeInv, [Next]_vars PROVE FilesStep
<1>0. rec.size \in Nat
  BY DEF TypeInv, TypeOK
<1>1. CASE Write
  <2>1. pc = "write" /\ files' = With(0, Append(Primary, Piece(rec.id, rec.size, TRUE)))
    BY <1>1 DEF Write
  <2> QED BY <1>0, <2>1 DEF FilesStep
<1>2. ASSUME NEW n \in 0..MaxBytes, ShortWrite(n) PROVE FilesStep
  <2>0. n \in Nat
    BY DEF AuditFileAssumption
  <2>1. CASE n = 0
    <3>1. files' = With(0, Primary) /\ pc = "write"
      BY <1>2, <2>1 DEF ShortWrite
    <3>2. With(0, Primary) = files
      BY <3>1, WithSame DEF TypeInv, TypeOK, PhaseInv
    <3> QED BY <3>1, <3>2 DEF FilesStep
  <2>2. CASE n # 0
    <3>1. pc = "write" /\ files' = With(0, Append(Primary, Piece(rec.id, n, FALSE)))
      BY <1>2, <2>2 DEF ShortWrite
    <3> QED BY <2>0, <3>1 DEF FilesStep
  <2> QED BY <2>1, <2>2
<1>3. CASE Boot
  BY <1>3 DEF Boot, OpenAppend, FilesStep, TypeInv, PhaseInv
<1>4. CASE Reopen
  BY <1>4 DEF Reopen, OpenAppend, FilesStep, TypeInv, PhaseInv
<1>5. CASE ReopenFails
  BY <1>5 DEF ReopenFails, OpenAppend, FilesStep, TypeInv, PhaseInv
<1>6. CASE RemoveTarget
  BY <1>6 DEF RemoveTarget, FilesStep
<1>7. CASE RenameSource
  BY <1>7 DEF RenameSource, FilesStep
<1>8. CASE Fresh
  BY <1>8 DEF Fresh, FilesStep
<1>9. CASE FreshFails
  BY <1>9 DEF FreshFails, OpenAppend, FilesStep, TypeInv, PhaseInv
<1>10. ASSUME Crash \/ LogUnprinted \/ (\E s \in Sizes : Log(s) \/ LogTooLarge(s)) \/ Close \/ CloseFails
              \/ RemoveTargetFails \/ RenameSourceFails \/ UNCHANGED vars
       PROVE  FilesStep
  BY <1>10 DEF Crash, Log, LogTooLarge, LogUnprinted, Unwritten, Close, CloseFails, RemoveTargetFails,
               RenameSourceFails, vars, FilesStep
<1> QED BY <1>1, <1>2, <1>3, <1>4, <1>5, <1>6, <1>7, <1>8, <1>9, <1>10 DEF Next

(* The directory keeps its type.                                           *)
FilesOK(f) == DOMAIN f \subseteq 0..First /\ f \in [DOMAIN f -> Seq(AnyPiece)]

LEMMA PrimaryIs ==
    ASSUME FilesOK(files)
    PROVE  Primary \in Seq(AnyPiece) /\ (0 \in DOMAIN files => Primary = files[0])
<1>1. << >> \in Seq(AnyPiece)
  OBVIOUS
<1> QED BY <1>1 DEF FilesOK, Primary

LEMMA WithIs ==
    ASSUME AuditFileAssumption, FilesOK(files), NEW content \in Seq(AnyPiece),
           files' = With(0, content)
    PROVE  /\ FilesOK(files')
           /\ DOMAIN files' = DOMAIN files \cup {0}
           /\ files'[0] = content
           /\ \A n \in DOMAIN files : n # 0 => files'[n] = files[n]
<1>1. /\ DOMAIN files' = DOMAIN files \cup {0}
      /\ \A n \in DOMAIN files' : files'[n] = IF n = 0 THEN content ELSE files[n]
      /\ files' = [n \in DOMAIN files' |-> files'[n]]
  BY DEF With
<1>2. DOMAIN files' \subseteq 0..First
  BY <1>1 DEF FilesOK, AuditFileAssumption, First
<1>3. \A n \in DOMAIN files' : files'[n] \in Seq(AnyPiece)
  BY <1>1 DEF FilesOK
<1> QED BY <1>1, <1>2, <1>3 DEF FilesOK

LEMMA WithoutIs ==
    ASSUME FilesOK(files), files' = Without(i)
    PROVE  /\ FilesOK(files')
           /\ DOMAIN files' = DOMAIN files \ {i}
           /\ \A n \in DOMAIN files' : files'[n] = files[n]
<1>1. /\ DOMAIN files' = DOMAIN files \ {i}
      /\ \A n \in DOMAIN files' : files'[n] = files[n]
      /\ files' = [n \in DOMAIN files' |-> files'[n]]
  BY DEF Without, Restrict
<1> QED BY <1>1 DEF FilesOK

LEMMA MovedIs ==
    ASSUME FilesOK(files), i \in 0..First, i - 1 \in DOMAIN files,
           files' = Moved(i - 1, i)
    PROVE  /\ FilesOK(files')
           /\ DOMAIN files' = (DOMAIN files \cup {i}) \ {i - 1}
           /\ files'[i] = files[i - 1]
           /\ \A n \in DOMAIN files' : n # i => n \in DOMAIN files /\ files'[n] = files[n]
<1>0. i # i - 1
  OBVIOUS
<1>1. /\ DOMAIN files' = (DOMAIN files \cup {i}) \ {i - 1}
      /\ \A n \in DOMAIN files' : files'[n] = IF n = i THEN files[i - 1] ELSE files[n]
      /\ files' = [n \in DOMAIN files' |-> files'[n]]
  BY DEF Moved
<1>2. \A n \in DOMAIN files' : files'[n] \in Seq(AnyPiece)
  BY <1>1 DEF FilesOK
<1>3. DOMAIN files' \subseteq 0..First
  BY <1>1 DEF FilesOK
<1> QED BY <1>0, <1>1, <1>2, <1>3 DEF FilesOK

LEMMA FilesTyped ==
    ASSUME AuditFileAssumption, TypeInv, FilesStep PROVE FilesOK(files')
<1>1. FilesOK(files) /\ i \in 0..First /\ rec.id \in Nat
  BY DEF TypeInv, TypeOK, FilesOK, First, AuditFileAssumption
<1>2. Primary \in Seq(AnyPiece) /\ << >> \in Seq(AnyPiece)
  BY <1>1, PrimaryIs
<1>3. ASSUME NEW n \in Nat, NEW whole \in BOOLEAN
      PROVE  Append(Primary, Piece(rec.id, n, whole)) \in Seq(AnyPiece)
  <2>1. Piece(rec.id, n, whole) \in AnyPiece
    BY <1>1 DEF Piece, AnyPiece
  <2> QED BY <1>2, <2>1, AppendIs
<1> QED BY <1>1, <1>2, <1>3, WithIs, WithoutIs, MovedIs DEF FilesStep

LEMMA TypeInit == AuditFileAssumption /\ Init => TypeInv
<1> SUFFICES ASSUME AuditFileAssumption, Init PROVE TypeInv
  OBVIOUS
<1>1. DOMAIN files = {} /\ files \in [DOMAIN files -> Seq(AnyPiece)]
  <2>1. files = << >>
    BY DEF Init
  <2>2. DOMAIN files = {} /\ files = [x \in {} |-> << >>]
    BY <2>1
  <2> QED BY <2>2
<1>2. rec \in [id : 0..MaxRecords, size : Nat] /\ rec.size = 0
  BY DEF Init, NoRecord, AuditFileAssumption
<1>3. PhaseInv
  BY <1>2 DEF Init, PhaseInv, AuditFileAssumption
<1>4. TypeOK
  <2>1. << >> \in Seq(Nat)
    OBVIOUS
  <2>2. DOMAIN files \subseteq 0..MaxFiles - 1 /\ 0 \in 0..MaxFiles - 1
    BY <1>1 DEF AuditFileAssumption
  <2> QED BY <1>1, <1>2, <2>1, <2>2 DEF Init, TypeOK, Steps
<1> QED BY <1>3, <1>4 DEF TypeInv

(* The diagnostics and the history of what was acknowledged: the flag of   *)
(* the logger says what the record before this one came to, and a          *)
(* diagnostic is written with the first failure of a period only.          *)
LogInv ==
    /\ failureReported \in BOOLEAN /\ reports \in Nat
    /\ failureReported = lastFailed /\ reports = periods
    /\ acked \in Seq(Nat)
    /\ clean \in BOOLEAN /\ failures \in Nat /\ crashes \in Nat

LEMMA FailsLog ==
    ASSUME LogInv, Fails
    PROVE  /\ LogInv' /\ ~ clean' /\ pc' = "idle" /\ failures' = failures + 1
           /\ UNCHANGED <<i, rec, acked, crashes>>
<1>1. /\ failureReported' = TRUE /\ lastFailed' = TRUE
      /\ reports' = IF failureReported THEN reports ELSE reports + 1
      /\ periods' = IF lastFailed THEN periods ELSE periods + 1
      /\ acked' = acked /\ clean' = FALSE /\ failures' = failures + 1
      /\ crashes' = crashes /\ pc' = "idle" /\ i' = i /\ rec' = rec
  BY DEF Fails, FailLog, Report, NoteFailure
<1>2. reports' = periods' /\ reports' \in Nat
  BY <1>1 DEF LogInv
<1>3. failures' \in Nat /\ crashes' \in Nat /\ acked' \in Seq(Nat)
  BY <1>1 DEF LogInv
<1>4. LogInv'
  BY <1>1, <1>2, <1>3 DEF LogInv
<1> QED BY <1>1, <1>4

LEMMA WorksLog ==
    ASSUME LogInv, Works
    PROVE  LogInv' /\ UNCHANGED <<rec, acked, clean, failures, crashes>>
BY DEF LogInv, Works, logVars

LEMMA LogNext ==
    ASSUME LogInv, rec.id \in Nat, [Next]_vars PROVE LogInv'
<1>1. CASE Boot
  BY <1>1 DEF Boot, LogInv
<1>2. CASE Crash
  BY <1>2 DEF Crash, LogInv, logVars
<1>3. ASSUME NEW s \in Sizes, Log(s) PROVE LogInv'
  BY <1>3 DEF Log, LogInv, logVars
<1>4. ASSUME LogUnprinted \/ (\E s \in Sizes : LogTooLarge(s)) PROVE LogInv'
  <2>1. /\ failureReported' = TRUE /\ lastFailed' = TRUE
        /\ reports' = IF failureReported THEN reports ELSE reports + 1
        /\ periods' = IF lastFailed THEN periods ELSE periods + 1
        /\ acked' = acked /\ clean' = clean /\ failures' = failures /\ crashes' = crashes
    BY <1>4 DEF LogTooLarge, LogUnprinted, Unwritten, Report, NoteFailure
  <2>2. reports' = periods' /\ reports' \in Nat
    BY <2>1 DEF LogInv
  <2> QED BY <2>1, <2>2 DEF LogInv
<1>5. ASSUME Reopen \/ Close \/ RemoveTarget \/ RenameSource \/ Fresh PROVE LogInv'
  BY <1>5, WorksLog DEF Reopen, Close, RemoveTarget, RenameSource, Fresh
<1>6. ASSUME \/ ReopenFails \/ CloseFails \/ RemoveTargetFails \/ RenameSourceFails
             \/ FreshFails \/ \E n \in 0..MaxBytes : ShortWrite(n)
      PROVE  LogInv'
  BY <1>6, FailsLog DEF ReopenFails, CloseFails, RemoveTargetFails, RenameSourceFails,
                        FreshFails, ShortWrite
<1>7. CASE Write
  <2>1. acked' \in Seq(Nat)
    BY <1>7, AppendIs DEF Write, LogInv
  <2> QED BY <1>7, <2>1 DEF Write, Recovered, LogInv
<1>8. CASE UNCHANGED vars
  BY <1>8 DEF vars, logVars, LogInv
<1> QED BY <1>1, <1>2, <1>3, <1>4, <1>5, <1>6, <1>7, <1>8 DEF Next

(* Where the process is in Write and rotateLocked.                         *)
ControlOK ==
    /\ open \in BOOLEAN /\ size \in Nat
    /\ pc \in Steps /\ i \in 0..First
    /\ rec \in [id : 0..MaxRecords, size : Nat]

ControlInv == ControlOK /\ PhaseInv

LEMMA ControlFails ==
    ASSUME ControlInv, Fails, LogInv, open' \in BOOLEAN, size' \in Nat,
           open' => 0 \in DOMAIN files'
    PROVE  ControlInv'
<1>1. pc' = "idle" /\ i' = i /\ rec' = rec
  BY FailsLog
<1> QED BY <1>1 DEF ControlInv, ControlOK, PhaseInv, Steps

LEMMA ControlNext ==
    ASSUME AuditFileAssumption, FilesOK(files), ControlInv, LogInv, [Next]_vars
    PROVE  ControlInv'
<1>c. /\ First \in Nat /\ MaxBytes \in Nat /\ Sizes \subseteq Nat
      /\ MaxRecords \in Nat
  BY DEF AuditFileAssumption, First
<1>d. StatSize \in Nat /\ Primary \in Seq(AnyPiece)
  BY PrimaryIs, BytesNat DEF StatSize
<1>e. /\ rec.id \in 0..MaxRecords /\ rec.id \in Nat /\ rec.size \in Nat
      /\ rec = [id |-> rec.id, size |-> rec.size]
  BY <1>c DEF ControlInv, ControlOK
<1>f. ASSUME NEW id \in 0..MaxRecords, NEW s \in Nat
      PROVE  [id |-> id, size |-> s] \in [id : 0..MaxRecords, size : Nat]
  OBVIOUS
<1>1. CASE Boot
  <2>1. 0 \in DOMAIN files'
    BY <1>1, <1>d, WithIs DEF Boot, OpenAppend
  <2> QED BY <1>1, <1>d, <2>1 DEF Boot, ControlInv, ControlOK, PhaseInv, Steps
<1>2. CASE Crash
  <2>1. rec' = [id |-> rec.id, size |-> 0]
    BY <1>2, <1>e DEF Crash
  <2>2. rec' \in [id : 0..MaxRecords, size : Nat] /\ rec'.size = 0
    BY <2>1, <1>e, <1>f
  <2>3. pc' = "down" /\ open' = FALSE /\ size' = 0 /\ i' = i /\ MaxBytes \in Nat
    BY <1>2, <1>c DEF Crash
  <2>4. ControlOK'
    BY <2>2, <2>3 DEF ControlInv, ControlOK, Steps
  <2>5. PhaseInv'
    BY <2>2, <2>3 DEF PhaseInv
  <2> QED BY <2>4, <2>5 DEF ControlInv
<1>3. ASSUME NEW s \in Sizes, Log(s) PROVE ControlInv'
  <2>1. rec' = [id |-> rec.id + 1, size |-> s] /\ s <= MaxBytes /\ rec.id < MaxRecords
    BY <1>3 DEF Log
  <2>2. rec' \in [id : 0..MaxRecords, size : Nat] /\ rec'.size = s
    <3>1. rec.id + 1 \in 0..MaxRecords /\ s \in Nat
      BY <2>1, <1>c, <1>e
    <3> QED BY <2>1, <3>1, <1>f
  <2>3. pc' \in {"close", "write", "reopen"} /\ (pc' # "reopen" <=> open)
    BY <1>3 DEF Log, AfterOpen, ControlInv, ControlOK
  <2>4. open' = open /\ size' = size /\ i' = i /\ files' = files
    BY <1>3 DEF Log, fileVars
  <2>5. ControlOK'
    BY <2>2, <2>3, <2>4 DEF ControlInv, ControlOK, Steps
  <2>6. PhaseInv'
    BY <2>1, <2>2, <2>3, <2>4 DEF ControlInv, PhaseInv
  <2> QED BY <2>5, <2>6 DEF ControlInv
<1>4. ASSUME LogUnprinted \/ (\E s \in Sizes : LogTooLarge(s)) PROVE ControlInv'
  <2>1. rec' = [id |-> rec.id + 1, size |-> 0] /\ rec.id < MaxRecords /\ pc = "idle"
    BY <1>4 DEF LogTooLarge, LogUnprinted, Unwritten
  <2>2. rec' \in [id : 0..MaxRecords, size : Nat] /\ rec'.size = 0
    <3>1. rec.id + 1 \in 0..MaxRecords
      BY <2>1, <1>c, <1>e
    <3> QED BY <2>1, <3>1, <1>f
  <2>3. open' = open /\ size' = size /\ i' = i /\ files' = files /\ pc' = pc
    BY <1>4 DEF LogTooLarge, LogUnprinted, Unwritten, fileVars
  <2>4. ControlOK'
    BY <2>2, <2>3 DEF ControlInv, ControlOK
  <2>5. PhaseInv'
    BY <2>1, <2>2, <2>3, <1>c DEF ControlInv, PhaseInv
  <2> QED BY <2>4, <2>5 DEF ControlInv
<1>5. CASE Reopen
  <2>1. 0 \in DOMAIN files'
    BY <1>5, <1>d, WithIs DEF Reopen, OpenAppend
  <2>2. pc' \in {"close", "write"} /\ open' = TRUE /\ size' \in Nat /\ i' = i
    BY <1>5, <1>d DEF Reopen, AfterOpen
  <2>3. rec' = rec
    BY <1>5, WorksLog DEF Reopen
  <2> QED BY <2>1, <2>2, <2>3 DEF ControlInv, ControlOK, PhaseInv, Steps
<1>6. ASSUME ReopenFails \/ FreshFails PROVE ControlInv'
  <2>1. open' = open /\ size' = size /\ Fails /\ ~ open
    BY <1>6 DEF ReopenFails, FreshFails, fileVars, ControlInv, PhaseInv
  <2> QED BY <2>1, ControlFails DEF ControlInv, ControlOK
<1>7. CASE Close
  <2>1. /\ i' = First /\ open' = FALSE /\ size' = size /\ files' = files
        /\ pc' = (IF First >= 1 THEN "remove" ELSE "fresh") /\ Works
    BY <1>7 DEF Close, NextShift
  <2>2. rec' = rec
    BY <2>1, WorksLog
  <2>3. ControlOK'
    <3>1. i' \in 0..First /\ pc' \in Steps
      BY <2>1, <1>c DEF Steps
    <3>2. open' \in BOOLEAN
      BY <2>1
    <3> QED BY <2>1, <2>2, <3>1, <3>2 DEF ControlInv, ControlOK
  <2>4. PhaseInv'
    BY <2>1, <2>2, <1>c DEF ControlInv, PhaseInv
  <2> QED BY <2>3, <2>4 DEF ControlInv
<1>8. ASSUME CloseFails \/ RemoveTargetFails \/ RenameSourceFails PROVE ControlInv'
  <2>1. files' = files /\ size' = size /\ Fails /\ (open' = FALSE \/ open' = open)
    BY <1>8 DEF CloseFails, RemoveTargetFails, RenameSourceFails, fileVars
  <2>2. open' \in BOOLEAN /\ size' \in Nat /\ (open' => open)
    <3>1. open \in BOOLEAN /\ size \in Nat
      BY DEF ControlInv, ControlOK
    <3>2. CASE open' = FALSE
      BY <2>1, <3>1, <3>2
    <3>3. CASE open' = open
      BY <2>1, <3>1, <3>3
    <3> QED BY <2>1, <3>2, <3>3
  <2>3. open' => 0 \in DOMAIN files'
    BY <2>1, <2>2 DEF ControlInv, PhaseInv
  <2> QED BY <2>1, <2>2, <2>3, ControlFails
<1>9. CASE RemoveTarget
  <2>1. i \notin DOMAIN files'
    BY <1>9, WithoutIs DEF RemoveTarget
  <2>2. /\ pc = "remove" /\ pc' = "rename" /\ open' = open /\ size' = size /\ i' = i
        /\ Works
    BY <1>9 DEF RemoveTarget, fileVars
  <2>3. rec' = rec
    BY <2>2, WorksLog
  <2>4. ControlOK'
    BY <2>2, <2>3 DEF ControlInv, ControlOK, Steps
  <2>5. PhaseInv'
    BY <2>1, <2>2, <2>3 DEF ControlInv, PhaseInv
  <2> QED BY <2>4, <2>5 DEF ControlInv
<1>10. CASE RenameSource
  <2>0. i \in 0..First /\ i >= 1 /\ ~ open
    BY <1>10 DEF RenameSource, ControlInv, ControlOK, PhaseInv
  <2>1. i - 1 \notin DOMAIN files'
    <3>1. CASE i - 1 \in DOMAIN files
      BY <1>10, <2>0, <3>1, MovedIs DEF RenameSource
    <3>2. CASE i - 1 \notin DOMAIN files
      BY <1>10, <3>2 DEF RenameSource
    <3> QED BY <3>1, <3>2
  <2>2. /\ i' = i - 1 /\ pc' = (IF i - 1 >= 1 THEN "remove" ELSE "fresh")
        /\ open' = open /\ size' = size /\ Works
    BY <1>10 DEF RenameSource, NextShift, fileVars
  <2>3. rec' = rec
    BY <2>2, WorksLog
  <2>4. i' \in 0..First /\ (pc' = "remove" => i' >= 1) /\ (pc' = "fresh" => i' = 0)
    BY <2>0, <2>2, <1>c
  <2>5. ControlOK'
    BY <2>2, <2>3, <2>4 DEF ControlInv, ControlOK, Steps
  <2>6. PhaseInv'
    BY <2>0, <2>1, <2>2, <2>3, <2>4 DEF ControlInv, PhaseInv
  <2> QED BY <2>5, <2>6 DEF ControlInv
<1>11. CASE Fresh
  <2>1. 0 \in DOMAIN files'
    BY <1>11 DEF Fresh, With
  <2>2. open' = TRUE /\ size' = 0 /\ pc' = "write" /\ i' = i /\ Works
    BY <1>11 DEF Fresh
  <2>3. rec' = rec
    BY <2>2, WorksLog
  <2>4. ControlOK'
    BY <2>2, <2>3 DEF ControlInv, ControlOK, Steps
  <2>5. PhaseInv'
    BY <2>1, <2>2, <2>3 DEF ControlInv, PhaseInv
  <2> QED BY <2>4, <2>5 DEF ControlInv
<1>12. CASE Write
  <2>1. 0 \in DOMAIN files'
    BY <1>12 DEF Write, With
  <2>2. open' = open /\ size' = size + rec.size /\ pc' = "idle" /\ i' = i /\ rec' = rec
    BY <1>12 DEF Write
  <2>3. size' \in Nat
    BY <2>2, <1>e DEF ControlInv, ControlOK
  <2> QED BY <2>1, <2>2, <2>3 DEF ControlInv, ControlOK, PhaseInv, Steps
<1>13. ASSUME NEW n \in 0..MaxBytes, ShortWrite(n) PROVE ControlInv'
  <2>1. 0 \in DOMAIN files'
    <3>1. PICK c : files' = With(0, c)
      BY <1>13 DEF ShortWrite
    <3> QED BY <3>1 DEF With
  <2>2. open' = open /\ size' = size + n /\ Fails
    BY <1>13 DEF ShortWrite
  <2>3. size' \in Nat
    BY <2>2, <1>c DEF ControlInv, ControlOK
  <2> QED BY <2>1, <2>2, <2>3, ControlFails DEF ControlInv, ControlOK
<1>14. CASE UNCHANGED vars
  BY <1>14 DEF vars, fileVars, ControlInv, ControlOK, PhaseInv
<1> QED BY <1>1, <1>2, <1>3, <1>4, <1>5, <1>6, <1>7, <1>8, <1>9, <1>10, <1>11, <1>12,
           <1>13, <1>14 DEF Next

(* All of it together.                                                     *)
LEMMA TypeParts ==
    AuditFileAssumption =>
        (TypeInv /\ LogInv <=> FilesOK(files) /\ ControlInv /\ LogInv)
BY DEF TypeInv, TypeOK, FilesOK, ControlInv, ControlOK, LogInv, PhaseInv, First,
       AuditFileAssumption

Inv1 == TypeInv /\ LogInv

LEMMA Inv1Next ==
    ASSUME AuditFileAssumption, Inv1, [Next]_vars PROVE Inv1'
<1>1. FilesOK(files) /\ ControlInv /\ LogInv
  BY TypeParts DEF Inv1
<1>2. FilesOK(files')
  BY FilesChange, FilesTyped DEF Inv1
<1>3. LogInv'
  BY <1>1, LogNext DEF ControlInv, ControlOK, AuditFileAssumption
<1>4. ControlInv'
  BY <1>1, ControlNext
<1> QED BY <1>2, <1>3, <1>4
        DEF Inv1, TypeInv, TypeOK, FilesOK, ControlInv, ControlOK, LogInv, PhaseInv, First

LEMMA Inv1Init == AuditFileAssumption /\ Init => Inv1
<1> SUFFICES ASSUME AuditFileAssumption, Init PROVE Inv1
  OBVIOUS
<1>1. << >> \in Seq(Nat)
  OBVIOUS
<1>2. LogInv
  BY <1>1 DEF Init, LogInv
<1> QED BY <1>2, TypeInit DEF Inv1

LEMMA Inv1Always == ASSUME AuditFileAssumption PROVE Spec => []Inv1
<1>1. Init => Inv1
  BY Inv1Init
<1>2. Inv1 /\ [Next]_vars => Inv1'
  BY Inv1Next
<1> QED BY <1>1, <1>2, PTL DEF Spec

(* Every variable keeps its type, and only an open file is written to.     *)
THEOREM TypeCorrect == ASSUME AuditFileAssumption PROVE Spec => []TypeOK
<1>1. Inv1 => TypeOK
  BY DEF Inv1, TypeInv
<1> QED BY <1>1, Inv1Always, PTL

(* Logger.Log writes one diagnostic for each run of failed records, be     *)
(* they refused or broken off by any file operation.                       *)
THEOREM ReportsOncePerPeriod ==
    ASSUME AuditFileAssumption PROVE Spec => []OneReportPerPeriod
<1>1. Inv1 => OneReportPerPeriod
  BY DEF Inv1, LogInv, OneReportPerPeriod
<1> QED BY <1>1, Inv1Always, PTL
----------------------------------------------------------------------------
(* A record that fits is written unless a file operation fails for it: the *)
(* only ways back to "idle" are the write and a failure, and a restart     *)
(* leaves no record to write.                                              *)
LEMMA RecoverNext ==
    ASSUME Inv1, RecoversAlone, [Next]_vars PROVE RecoversAlone'
<1>0. LogInv /\ rec.id \in Nat /\ PhaseInv
  BY DEF Inv1, TypeInv, TypeOK
<1>1. CASE Boot
  <2>1. rec.size = 0 /\ rec' = rec
    BY <1>0, <1>1 DEF Boot, PhaseInv
  <2> QED BY <2>1 DEF RecoversAlone
<1>2. CASE Crash
  BY <1>2 DEF Crash, RecoversAlone
<1>3. ASSUME NEW s \in Sizes, Log(s) PROVE RecoversAlone'
  <2>1. pc' # "idle"
    BY <1>3 DEF Log, AfterOpen
  <2> QED BY <2>1 DEF RecoversAlone
<1>4. ASSUME LogUnprinted \/ (\E s \in Sizes : LogTooLarge(s)) PROVE RecoversAlone'
  <2>1. rec'.size = 0
    BY <1>4 DEF LogTooLarge, LogUnprinted, Unwritten
  <2> QED BY <2>1 DEF RecoversAlone
<1>5. ASSUME Reopen \/ Close \/ RemoveTarget \/ RenameSource \/ Fresh PROVE RecoversAlone'
  <2>1. pc' # "idle"
    BY <1>5 DEF Reopen, Close, RemoveTarget, RenameSource, Fresh, AfterOpen, NextShift
  <2> QED BY <2>1 DEF RecoversAlone
<1>6. ASSUME \/ ReopenFails \/ CloseFails \/ RemoveTargetFails \/ RenameSourceFails
             \/ FreshFails \/ \E n \in 0..MaxBytes : ShortWrite(n)
      PROVE  RecoversAlone'
  <2>1. Fails
    BY <1>6 DEF ReopenFails, CloseFails, RemoveTargetFails, RenameSourceFails,
                FreshFails, ShortWrite
  <2> QED BY <1>0, <2>1, FailsLog DEF RecoversAlone
<1>7. CASE Write
  <2>1. acked' = Append(acked, rec.id) /\ rec' = rec /\ acked \in Seq(Nat)
    BY <1>0, <1>7 DEF Write, LogInv
  <2>2. /\ Len(Append(acked, rec.id)) = Len(acked) + 1 /\ Len(acked) \in Nat
        /\ Append(acked, rec.id)[Len(acked) + 1] = rec.id
    BY <1>0, <2>1, AppendProperties, LenProperties
  <2>3. acked' # << >> /\ Last(acked') = rec.id
    BY <2>1, <2>2 DEF Last
  <2> QED BY <2>1, <2>3 DEF RecoversAlone
<1>8. CASE UNCHANGED vars
  BY <1>8 DEF vars, logVars, RecoversAlone
<1> QED BY <1>1, <1>2, <1>3, <1>4, <1>5, <1>6, <1>7, <1>8 DEF Next

(* RotatingFile.Write and rotateLocked: whatever failed before, a record   *)
(* that fits the limit is in the log once no file operation fails for it.  *)
THEOREM RecoversByItself ==
    ASSUME AuditFileAssumption PROVE Spec => []RecoversAlone
<1>1. Init => RecoversAlone
  BY DEF Init, RecoversAlone
<1>2. Inv1 /\ RecoversAlone /\ [Next]_vars => RecoversAlone'
  BY RecoverNext
<1> QED BY <1>1, <1>2, Inv1Always, PTL DEF Spec

----------------------------------------------------------------------------
(* The size that Write decides with is that of the primary.                *)
BytesInv ==
    /\ FilesBounded
    /\ open => size = Bytes(files[0])
    /\ pc = "write" => size + rec.size <= MaxBytes

(* What opening with append finds.                                         *)
LEMMA OpenedBytes ==
    ASSUME AuditFileAssumption, FilesOK(files), FilesBounded, OpenAppend
    PROVE  FilesBounded' /\ Bytes(files'[0]) = StatSize /\ StatSize \in Nat
<1>1. Primary \in Seq(AnyPiece) /\ Bytes(Primary) \in Nat /\ MaxBytes \in Nat
  BY PrimaryIs, BytesNat DEF AuditFileAssumption
<1>2. /\ DOMAIN files' = DOMAIN files \cup {0} /\ files'[0] = Primary
      /\ \A n \in DOMAIN files : n # 0 => files'[n] = files[n]
  BY <1>1, WithIs DEF OpenAppend
<1>3. Bytes(Primary) <= MaxBytes
  <2>1. CASE 0 \in DOMAIN files
    BY <2>1, PrimaryIs DEF FilesBounded
  <2>2. CASE 0 \notin DOMAIN files
    <3>1. Primary = << >>
      BY <2>2 DEF Primary
    <3> QED BY <1>1, <3>1, BytesEmpty
  <2> QED BY <2>1, <2>2
<1>4. FilesBounded'
  <2> SUFFICES ASSUME NEW n \in DOMAIN files' PROVE Bytes(files'[n]) <= MaxBytes
    BY DEF FilesBounded
  <2>1. CASE n = 0
    BY <1>2, <1>3, <2>1
  <2>2. CASE n # 0
    BY <1>2, <2>2 DEF FilesBounded
  <2> QED BY <2>1, <2>2
<1> QED BY <1>1, <1>2, <1>4 DEF StatSize

(* What writing n bytes of a record leaves.                                *)
LEMMA WrittenBytes ==
    ASSUME AuditFileAssumption, Inv1, BytesInv, pc = "write",
           NEW n \in Nat, n <= rec.size, NEW whole \in BOOLEAN,
           files' = With(0, Append(Primary, Piece(rec.id, n, whole)))
    PROVE  FilesBounded' /\ Bytes(files'[0]) = size + n
<1>1. /\ FilesOK(files) /\ ControlInv /\ rec.id \in Nat /\ rec.size \in Nat /\ size \in Nat
      /\ 0 \in DOMAIN files /\ size = Bytes(files[0]) /\ MaxBytes \in Nat
      /\ size + rec.size <= MaxBytes
  BY TypeParts DEF Inv1, ControlInv, ControlOK, PhaseInv, BytesInv, AuditFileAssumption
<1>2. Primary \in Seq(AnyPiece) /\ Primary = files[0]
  BY <1>1, PrimaryIs
<1>3. Piece(rec.id, n, whole) \in AnyPiece /\ Piece(rec.id, n, whole).bytes = n
  BY <1>1 DEF Piece, AnyPiece
<1> DEFINE new == Append(Primary, Piece(rec.id, n, whole))
<1>4. new \in Seq(AnyPiece) /\ Bytes(new) = size + n
  BY <1>1, <1>2, <1>3, AppendIs, BytesAppend
<1>5. files' = With(0, new)
  OBVIOUS
<1> HIDE DEF new
<1>6. /\ DOMAIN files' = DOMAIN files \cup {0} /\ files'[0] = new
      /\ \A m \in DOMAIN files : m # 0 => files'[m] = files[m]
  BY <1>1, <1>4, <1>5, WithIs
<1>7. FilesBounded'
  <2> SUFFICES ASSUME NEW m \in DOMAIN files' PROVE Bytes(files'[m]) <= MaxBytes
    BY DEF FilesBounded
  <2>1. CASE m = 0
    BY <1>1, <1>4, <1>6, <2>1
  <2>2. CASE m # 0
    BY <1>6, <2>2 DEF BytesInv, FilesBounded
  <2> QED BY <2>1, <2>2
<1> QED BY <1>4, <1>6, <1>7

LEMMA BytesNext ==
    ASSUME AuditFileAssumption, Inv1, BytesInv, [Next]_vars PROVE BytesInv'
<1>0. /\ FilesOK(files) /\ ControlInv /\ LogInv /\ FilesBounded
      /\ MaxBytes \in Nat /\ size \in Nat /\ rec.size \in Nat
  BY TypeParts DEF Inv1, BytesInv, AuditFileAssumption, ControlInv, ControlOK
<1>1. CASE Boot
  <2>1. OpenAppend /\ size' = StatSize /\ pc' = "idle"
    BY <1>1 DEF Boot
  <2> QED BY <1>0, <2>1, OpenedBytes DEF BytesInv
<1>2. CASE Crash
  BY <1>2 DEF Crash, BytesInv, FilesBounded
<1>3. ASSUME NEW s \in Sizes, Log(s) PROVE BytesInv'
  <2>1. /\ files' = files /\ open' = open /\ size' = size /\ rec'.size = s
        /\ pc' = (IF open THEN AfterOpen(rec', size) ELSE "reopen") /\ s \in Nat
    BY <1>3 DEF Log, fileVars, AuditFileAssumption
  <2>2. pc' = "write" => size + s <= MaxBytes
    BY <1>0, <2>1 DEF AfterOpen
  <2> QED BY <2>1, <2>2 DEF BytesInv, FilesBounded
<1>4. ASSUME LogUnprinted \/ (\E s \in Sizes : LogTooLarge(s)) PROVE BytesInv'
  BY <1>4 DEF LogTooLarge, LogUnprinted, Unwritten, fileVars, BytesInv, FilesBounded
<1>5. CASE Reopen
  <2>1. OpenAppend /\ size' = StatSize /\ pc' = AfterOpen(rec, size') /\ rec' = rec
    BY <1>5, <1>0, WorksLog DEF Reopen
  <2>2. FilesBounded' /\ size' = Bytes(files'[0]) /\ size' \in Nat
    BY <1>0, <2>1, OpenedBytes
  <2>3. pc' = "write" => size' + rec'.size <= MaxBytes
    BY <1>0, <2>1, <2>2 DEF AfterOpen
  <2> QED BY <2>2, <2>3 DEF BytesInv
<1>6. ASSUME ReopenFails \/ FreshFails PROVE BytesInv'
  <2>1. ~ open /\ open' = open /\ Fails /\ (OpenAppend \/ files' = files)
    BY <1>6, <1>0 DEF ReopenFails, FreshFails, fileVars, ControlInv, PhaseInv
  <2>2. FilesBounded'
    BY <1>0, <2>1, OpenedBytes DEF FilesBounded
  <2> QED BY <1>0, <2>1, <2>2, FailsLog DEF BytesInv
<1>7. CASE Close
  <2>1. files' = files /\ open' = FALSE /\ pc' # "write"
    BY <1>7 DEF Close, NextShift
  <2> QED BY <2>1 DEF BytesInv, FilesBounded
<1>8. ASSUME CloseFails \/ RemoveTargetFails \/ RenameSourceFails PROVE BytesInv'
  <2>1. files' = files /\ size' = size /\ Fails /\ (open' = FALSE \/ open' = open)
    BY <1>8 DEF CloseFails, RemoveTargetFails, RenameSourceFails, fileVars
  <2>2. pc' = "idle"
    BY <1>0, <2>1, FailsLog
  <2> QED BY <2>1, <2>2 DEF BytesInv, FilesBounded
<1>9. CASE RemoveTarget
  <2>1. /\ files' = Without(i) /\ pc' = "rename" /\ open' = open /\ pc = "remove"
    BY <1>9 DEF RemoveTarget, fileVars
  <2>2. FilesBounded'
    BY <1>0, <2>1, WithoutIs DEF FilesBounded
  <2>3. ~ open'
    BY <1>0, <2>1 DEF ControlInv, PhaseInv
  <2> QED BY <2>1, <2>2, <2>3 DEF BytesInv
<1>10. CASE RenameSource
  <2>1. /\ files' = files \/ (i - 1 \in DOMAIN files /\ files' = Moved(i - 1, i))
        /\ pc' # "write" /\ open' = open /\ pc = "rename"
    BY <1>10 DEF RenameSource, NextShift, fileVars
  <2>2. i \in 0..First /\ ~ open'
    BY <1>0, <2>1 DEF ControlInv, ControlOK, PhaseInv
  <2>3. FilesBounded'
    <3>1. CASE files' = files
      BY <3>1 DEF BytesInv, FilesBounded
    <3>2. CASE i - 1 \in DOMAIN files /\ files' = Moved(i - 1, i)
      BY <1>0, <2>2, <3>2, MovedIs DEF FilesBounded
    <3> QED BY <2>1, <3>1, <3>2
  <2> QED BY <2>1, <2>2, <2>3 DEF BytesInv
<1>11. CASE Fresh
  <2>1. files' = With(0, << >>) /\ size' = 0 /\ rec' = rec
    BY <1>11, <1>0, WorksLog DEF Fresh
  <2>2. << >> \in Seq(AnyPiece)
    OBVIOUS
  <2>3. /\ DOMAIN files' = DOMAIN files \cup {0} /\ files'[0] = << >>
        /\ \A n \in DOMAIN files : n # 0 => files'[n] = files[n]
    BY <1>0, <2>1, <2>2, WithIs
  <2>4. Bytes(files'[0]) = 0
    BY <2>3, BytesEmpty
  <2>5. FilesBounded'
    <3> SUFFICES ASSUME NEW n \in DOMAIN files' PROVE Bytes(files'[n]) <= MaxBytes
      BY DEF FilesBounded
    <3>1. CASE n = 0
      BY <1>0, <2>4, <3>1
    <3>2. CASE n # 0
      BY <2>3, <1>0, <3>2 DEF FilesBounded
    <3> QED BY <3>1, <3>2
  <2>6. rec.size <= MaxBytes
    BY <1>0 DEF ControlInv, PhaseInv
  <2> QED BY <1>0, <2>1, <2>4, <2>5, <2>6 DEF BytesInv
<1>12. CASE Write
  <2>1. /\ files' = With(0, Append(Primary, Piece(rec.id, rec.size, TRUE)))
        /\ size' = size + rec.size /\ pc' = "idle" /\ pc = "write"
    BY <1>12 DEF Write
  <2>2. rec.size \in Nat /\ rec.size <= rec.size /\ TRUE \in BOOLEAN
    BY <1>0
  <2>3. FilesBounded' /\ Bytes(files'[0]) = size + rec.size
    BY <2>1, <2>2, WrittenBytes, Zenon
  <2> QED BY <2>1, <2>3 DEF BytesInv
<1>13. ASSUME NEW n \in 0..MaxBytes, ShortWrite(n) PROVE BytesInv'
  <2>1. size' = size + n /\ open' = open /\ Fails /\ pc = "write" /\ n < rec.size /\ n \in Nat
    BY <1>13, <1>0 DEF ShortWrite
  <2>2. pc' = "idle" /\ n <= rec.size
    BY <1>0, <2>1, FailsLog
  <2>3. CASE n = 0
    <3>1. OpenAppend /\ size' = size
      BY <1>13, <2>3, <1>0 DEF ShortWrite, OpenAppend
    <3>2. 0 \in DOMAIN files /\ size = Bytes(files[0])
      BY <1>0, <2>1 DEF ControlInv, PhaseInv, BytesInv
    <3>3. StatSize = size
      BY <1>0, <3>2, PrimaryIs DEF StatSize
    <3> QED BY <1>0, <2>2, <3>1, <3>3, OpenedBytes DEF BytesInv
  <2>4. CASE n # 0
    <3>1. files' = With(0, Append(Primary, Piece(rec.id, n, FALSE)))
      BY <1>13, <2>4 DEF ShortWrite
    <3>2. FilesBounded' /\ Bytes(files'[0]) = size + n
      BY <2>1, <2>2, <3>1, WrittenBytes
    <3> QED BY <2>1, <2>2, <3>2 DEF BytesInv
  <2> QED BY <2>3, <2>4
<1>14. CASE UNCHANGED vars
  BY <1>14 DEF vars, fileVars, BytesInv, FilesBounded
<1> QED BY <1>1, <1>2, <1>3, <1>4, <1>5, <1>6, <1>7, <1>8, <1>9, <1>10, <1>11, <1>12,
           <1>13, <1>14 DEF Next

(* audit.max_bytes bounds every file: Write rotates on the size it keeps,  *)
(* which is the bytes of the primary after short writes, failed rotations  *)
(* and restarts as well.                                                   *)
THEOREM FilesStayBounded ==
    ASSUME AuditFileAssumption PROVE Spec => []FilesBounded
<1>1. Init => BytesInv
  <2> SUFFICES ASSUME Init PROVE BytesInv
    OBVIOUS
  <2>1. DOMAIN files = {} /\ open = FALSE /\ pc = "down"
    BY DEF Init
  <2> QED BY <2>1 DEF BytesInv, FilesBounded
<1>2. Inv1 /\ BytesInv /\ [Next]_vars => BytesInv'
  BY BytesNext
<1>3. BytesInv => FilesBounded
  BY DEF BytesInv
<1> QED BY <1>1, <1>2, <1>3, Inv1Always, PTL DEF Spec
----------------------------------------------------------------------------
(* Pieces in the order in which the files are read.                        *)
Earlier(m, j, n, k) == m > n \/ (m = n /\ j < k)

OrderInv ==
    /\ \A m, n \in DOMAIN files : \A j \in DOMAIN files[m], k \in DOMAIN files[n] :
          Earlier(m, j, n, k) => files[m][j].id < files[n][k].id
    /\ \A m \in DOMAIN files : \A j \in DOMAIN files[m] :
          files[m][j].id <= rec.id /\ (Pending => files[m][j].id < rec.id)

AckedInv ==
    /\ \A a, b \in DOMAIN acked : a < b => acked[a] < acked[b]
    /\ \A a \in DOMAIN acked : acked[a] <= rec.id /\ (Pending => acked[a] < rec.id)

Whole(id) ==
    \E m \in DOMAIN files : \E j \in DOMAIN files[m] :
        files[m][j].id = id /\ files[m][j].whole

SuffixInv ==
    \A a, b \in DOMAIN acked : a < b /\ Whole(acked[a]) => Whole(acked[b])

(* Every step but a write leaves the contents alone: g gives the number    *)
(* that a file had before the step.  It keeps the order of the files, and  *)
(* only the last one, which is the oldest, can go.                         *)
Renumbers(g) ==
    /\ g \in [DOMAIN files' -> Int]
    /\ \A n \in DOMAIN files' : \A j \in DOMAIN files'[n] :
          g[n] \in DOMAIN files /\ files'[n] = files[g[n]]
    /\ \A m, n \in DOMAIN files' : m > n => g[m] > g[n]
    /\ \A m \in DOMAIN files \ {First} :
          \E n \in DOMAIN files' : g[n] = m /\ files'[n] = files[m]

LEMMA Renumbered ==
    ASSUME AuditFileAssumption, FilesOK(files), ControlInv, FilesStep,
           pc # "write" \/ files' = files
    PROVE  \E g : Renumbers(g)
<1>0. First \in Nat /\ DOMAIN files \subseteq 0..First /\ i \in 0..First
  BY DEF AuditFileAssumption, First, FilesOK, ControlInv, ControlOK
<1>1. CASE files' = files
  <2> DEFINE g == [n \in DOMAIN files' |-> n]
  <2>1. Renumbers(g)
    BY <1>0, <1>1 DEF Renumbers
  <2> QED BY <2>1
<1>2. ASSUME files' = With(0, Primary) PROVE \E g : Renumbers(g)
  <2> DEFINE g == [n \in DOMAIN files' |-> n]
  <2>1. /\ DOMAIN files' = DOMAIN files \cup {0} /\ files'[0] = Primary
        /\ \A n \in DOMAIN files : n # 0 => files'[n] = files[n]
    BY <1>2, PrimaryIs, WithIs
  <2>2. Primary = IF 0 \in DOMAIN files THEN files[0] ELSE << >>
    BY DEF Primary
  <2>3. \A n \in DOMAIN files' : g[n] = n /\ n \in Int
    BY <1>0, <2>1
  <2>4. g \in [DOMAIN files' -> Int]
    BY <2>3
  <2> HIDE DEF g
  <2>5. \A n \in DOMAIN files' : \A j \in DOMAIN files'[n] :
            n \in DOMAIN files /\ files'[n] = files[n]
    BY <2>1, <2>2
  <2>6. \A m \in DOMAIN files : m \in DOMAIN files' /\ files'[m] = files[m]
    BY <2>1, <2>2
  <2>7. Renumbers(g)
    BY <2>3, <2>4, <2>5, <2>6 DEF Renumbers
  <2> QED BY <2>7
<1>3. CASE pc = "remove" /\ files' = Without(i)
  <2> DEFINE g == [n \in DOMAIN files' |-> n]
  <2>1. /\ DOMAIN files' = DOMAIN files \ {i}
        /\ \A n \in DOMAIN files' : files'[n] = files[n]
    BY <1>3, WithoutIs
  <2>2. i = First \/ i \notin DOMAIN files
    BY <1>0, <1>3 DEF ControlInv, PhaseInv
  <2>3. \A n \in DOMAIN files' : g[n] = n /\ n \in Int
    BY <1>0, <2>1
  <2>4. g \in [DOMAIN files' -> Int]
    BY <2>3
  <2> HIDE DEF g
  <2>5. \A m \in DOMAIN files \ {First} : m \in DOMAIN files'
    BY <2>1, <2>2
  <2>6. Renumbers(g)
    BY <2>1, <2>3, <2>4, <2>5 DEF Renumbers
  <2> QED BY <2>6
<1>4. CASE pc = "rename" /\ i - 1 \in DOMAIN files /\ files' = Moved(i - 1, i)
  <2> DEFINE g == [n \in DOMAIN files' |-> IF n = i THEN i - 1 ELSE n]
  <2>1. /\ DOMAIN files' = (DOMAIN files \cup {i}) \ {i - 1}
        /\ files'[i] = files[i - 1]
        /\ \A n \in DOMAIN files' : n # i => n \in DOMAIN files /\ files'[n] = files[n]
    BY <1>0, <1>4, MovedIs
  <2>2. i \notin DOMAIN files
    BY <1>4 DEF ControlInv, PhaseInv
  <2>3. \A n \in DOMAIN files' : g[n] = (IF n = i THEN i - 1 ELSE n) /\ n \in Int /\ g[n] \in Int
    BY <1>0, <2>1
  <2>4. g \in [DOMAIN files' -> Int]
    BY <2>3
  <2> HIDE DEF g
  <2>5. \A n \in DOMAIN files' : g[n] \in DOMAIN files /\ files'[n] = files[g[n]]
    BY <1>4, <2>1, <2>3
  <2>6. \A m, n \in DOMAIN files' : m > n => g[m] > g[n]
    <3> SUFFICES ASSUME NEW m \in DOMAIN files', NEW n \in DOMAIN files', m > n
                 PROVE  g[m] > g[n]
      OBVIOUS
    <3>1. m # i - 1 /\ n # i - 1 /\ m \in Int /\ n \in Int /\ i \in Int
      BY <1>0, <2>1, <2>3
    <3>2. CASE m = i
      <4>1. g[m] = i - 1 /\ g[n] = n
        BY <2>3, <3>1, <3>2
      <4>2. i - 1 > n
        BY <3>1, <3>2
      <4> QED BY <4>1, <4>2
    <3>3. CASE m # i
      <4>1. g[m] = m /\ (g[n] = n \/ (n = i /\ g[n] = i - 1))
        BY <2>3, <3>3
      <4>2. m > i - 1 \/ n # i
        BY <3>1
      <4> QED BY <4>1, <4>2
    <3> QED BY <3>2, <3>3
  <2>7. \A m \in DOMAIN files : \E n \in DOMAIN files' : g[n] = m /\ files'[n] = files[m]
    <3> SUFFICES ASSUME NEW m \in DOMAIN files
                 PROVE  \E n \in DOMAIN files' : g[n] = m /\ files'[n] = files[m]
      OBVIOUS
    <3>1. CASE m = i - 1
      <4>1. i \in DOMAIN files'
        BY <1>0, <2>1
      <4> QED BY <2>1, <2>3, <3>1, <4>1
    <3>2. CASE m # i - 1
      <4>1. m \in DOMAIN files' /\ m # i
        BY <2>1, <2>2, <3>2
      <4> QED BY <2>1, <2>3, <4>1
    <3> QED BY <3>1, <3>2
  <2>8. Renumbers(g)
    BY <2>4, <2>5, <2>6, <2>7 DEF Renumbers
  <2> QED BY <2>8
<1>5. CASE pc = "fresh" /\ files' = With(0, << >>)
  <2> DEFINE g == [n \in DOMAIN files' |-> n]
  <2>0. << >> \in Seq(AnyPiece)
    OBVIOUS
  <2>1. /\ DOMAIN files' = DOMAIN files \cup {0} /\ files'[0] = << >>
        /\ \A n \in DOMAIN files : n # 0 => files'[n] = files[n]
    BY <1>5, <2>0, WithIs
  <2>2. First > 0 => 0 \notin DOMAIN files
    BY <1>5 DEF ControlInv, PhaseInv
  <2>3. \A n \in DOMAIN files' : g[n] = n /\ n \in Int
    BY <1>0, <2>1
  <2>4. g \in [DOMAIN files' -> Int]
    BY <2>3
  <2> HIDE DEF g
  <2>5. \A n \in DOMAIN files' : \A j \in DOMAIN files'[n] :
            n \in DOMAIN files /\ files'[n] = files[n]
    BY <2>1
  <2>6. \A m \in DOMAIN files \ {First} : m \in DOMAIN files' /\ files'[m] = files[m]
    BY <1>0, <2>1, <2>2
  <2>7. Renumbers(g)
    BY <2>3, <2>4, <2>5, <2>6 DEF Renumbers
  <2> QED BY <2>7
<1> QED BY <1>1, <1>2, <1>3, <1>4, <1>5 DEF FilesStep

(* A step takes the next record up, writes a piece of the present one, or  *)
(* does neither.                                                           *)
TakesRecord ==
    /\ pc = "idle" /\ files' = files /\ acked' = acked /\ rec'.id = rec.id + 1

WritesPiece ==
    /\ pc = "write" /\ pc' = "idle" /\ rec' = rec
    /\ \E n \in Nat, whole \in BOOLEAN :
          /\ files' = With(0, Append(Primary, Piece(rec.id, n, whole)))
          /\ acked' = IF whole THEN Append(acked, rec.id) ELSE acked

WritesNothing ==
    /\ pc # "write" \/ files' = files
    /\ acked' = acked /\ rec'.id = rec.id
    /\ Pending' => Pending

LEMMA StepKinds ==
    ASSUME AuditFileAssumption, Inv1, [Next]_vars
    PROVE  TakesRecord \/ WritesPiece \/ WritesNothing
<1>0. FilesOK(files) /\ ControlInv /\ LogInv /\ rec.size \in Nat
  BY TypeParts DEF Inv1, ControlInv, ControlOK
<1>1. CASE Boot
  BY <1>1 DEF Boot, WritesNothing, Pending
<1>2. CASE Crash
  <2>1. rec'.id = rec.id /\ pc' = "down" /\ files' = files /\ acked' = acked
    BY <1>0, <1>2 DEF Crash, logVars, ControlInv, ControlOK
  <2> QED BY <2>1 DEF WritesNothing, Pending
<1>3. ASSUME LogUnprinted \/ (\E s \in Sizes : Log(s) \/ LogTooLarge(s)) PROVE TakesRecord
  <2>1. pc = "idle" /\ files' = files /\ acked' = acked
    BY <1>3 DEF Log, LogTooLarge, LogUnprinted, Unwritten, logVars
  <2>2. rec'.id = rec.id + 1
    BY <1>3 DEF Log, LogTooLarge, LogUnprinted, Unwritten
  <2> QED BY <2>1, <2>2 DEF TakesRecord
<1>4. ASSUME Reopen \/ Close \/ RemoveTarget \/ RenameSource \/ Fresh PROVE WritesNothing
  <2>1. Works /\ Pending /\ pc # "write"
    BY <1>4 DEF Reopen, Close, RemoveTarget, RenameSource, Fresh, Pending
  <2> QED BY <1>0, <2>1, WorksLog DEF WritesNothing
<1>5. ASSUME ReopenFails \/ CloseFails \/ RemoveTargetFails \/ RenameSourceFails \/ FreshFails
      PROVE  WritesNothing
  <2>1. Fails /\ pc # "write"
    BY <1>5 DEF ReopenFails, CloseFails, RemoveTargetFails, RenameSourceFails, FreshFails
  <2> QED BY <1>0, <2>1, FailsLog DEF WritesNothing, Pending
<1>6. CASE Write
  <2>1. /\ files' = With(0, Append(Primary, Piece(rec.id, rec.size, TRUE)))
        /\ acked' = Append(acked, rec.id) /\ pc = "write" /\ pc' = "idle" /\ rec' = rec
    BY <1>6 DEF Write
  <2> QED BY <1>0, <2>1 DEF WritesPiece
<1>7. ASSUME NEW n \in 0..MaxBytes, ShortWrite(n) PROVE WritesPiece \/ WritesNothing
  <2>1. Fails /\ pc = "write" /\ n \in Nat
    BY <1>7 DEF ShortWrite, AuditFileAssumption
  <2>2. pc' = "idle" /\ rec' = rec /\ acked' = acked
    BY <1>0, <2>1, FailsLog
  <2>3. CASE n = 0
    <3>1. files' = With(0, Primary)
      BY <1>7, <2>3 DEF ShortWrite
    <3>2. With(0, Primary) = files
      BY <1>0, <2>1, WithSame DEF ControlInv, PhaseInv, FilesOK
    <3> QED BY <2>2, <3>1, <3>2 DEF WritesNothing, Pending
  <2>4. CASE n # 0
    <3>1. files' = With(0, Append(Primary, Piece(rec.id, n, FALSE)))
      BY <1>7, <2>4 DEF ShortWrite
    <3> QED BY <2>1, <2>2, <3>1 DEF WritesPiece
  <2> QED BY <2>3, <2>4
<1>8. CASE UNCHANGED vars
  BY <1>8 DEF vars, logVars, WritesNothing, Pending
<1> QED BY <1>1, <1>2, <1>3, <1>4, <1>5, <1>6, <1>7, <1>8 DEF Next

(* What a written piece changes in the directory.                          *)
LEMMA WrittenFiles ==
    ASSUME AuditFileAssumption, FilesOK(files), 0 \in DOMAIN files, rec.id \in Nat,
           NEW n \in Nat, NEW whole \in BOOLEAN,
           files' = With(0, Append(Primary, Piece(rec.id, n, whole)))
    PROVE  /\ DOMAIN files' = DOMAIN files
           /\ \A m \in DOMAIN files : m # 0 => files'[m] = files[m]
           /\ DOMAIN files[0] \subseteq Nat
           /\ \E last \in Nat :
                 /\ DOMAIN files'[0] = DOMAIN files[0] \cup {last}
                 /\ \A j \in DOMAIN files[0] : j < last /\ files'[0][j] = files[0][j]
                 /\ files'[0][last].id = rec.id /\ files'[0][last].whole = whole
<1> DEFINE p == Piece(rec.id, n, whole)
           new == Append(Primary, p)
<1>1. Primary \in Seq(AnyPiece) /\ Primary = files[0]
  BY PrimaryIs
<1>2. p \in AnyPiece /\ p.id = rec.id /\ p.whole = whole
  BY DEF Piece, AnyPiece
<1>3. files' = With(0, new)
  OBVIOUS
<1> HIDE DEF p
<1>4. /\ new \in Seq(AnyPiece)
      /\ DOMAIN Primary = 1..Len(Primary) /\ Len(Primary) \in Nat
      /\ DOMAIN new = DOMAIN Primary \cup {Len(Primary) + 1}
      /\ \A j \in DOMAIN Primary : new[j] = Primary[j]
      /\ new[Len(Primary) + 1] = p
  BY <1>1, <1>2, AppendIs
<1> HIDE DEF new
<1>5. /\ DOMAIN files' = DOMAIN files \cup {0} /\ files'[0] = new
      /\ \A m \in DOMAIN files : m # 0 => files'[m] = files[m]
  BY <1>3, <1>4, WithIs
<1>6. \A j \in DOMAIN Primary : j \in Nat /\ j < Len(Primary) + 1
  BY <1>4
<1>7. Len(Primary) + 1 \in Nat
  BY <1>4
<1> QED BY <1>1, <1>2, <1>4, <1>5, <1>6, <1>7

LEMMA OrderNext ==
    ASSUME AuditFileAssumption, Inv1, OrderInv, [Next]_vars PROVE OrderInv'
<1>0. /\ FilesOK(files) /\ ControlInv /\ LogInv /\ rec.id \in Nat /\ FilesStep
      /\ \A m \in DOMAIN files : \A j \in DOMAIN files[m] : files[m][j].id \in Nat
  <2>1. FilesOK(files) /\ ControlInv /\ LogInv /\ rec.id \in Nat /\ FilesStep
    BY TypeParts, FilesChange DEF Inv1, ControlInv, ControlOK
  <2>2. ASSUME NEW m \in DOMAIN files, NEW j \in DOMAIN files[m]
        PROVE  files[m][j].id \in Nat
    <3>1. files[m] \in Seq(AnyPiece)
      BY <2>1 DEF FilesOK
    <3>2. files[m][j] \in AnyPiece
      BY <3>1, LenProperties, ElementOfSeq
    <3> QED BY <3>2 DEF AnyPiece
  <2> QED BY <2>1, <2>2
<1>1. CASE TakesRecord
  <2>1. files' = files /\ rec'.id = rec.id + 1
    BY <1>1 DEF TakesRecord
  <2> QED BY <1>0, <2>1 DEF OrderInv, Earlier
<1>2. CASE WritesNothing
  <2>1. PICK g : Renumbers(g)
    BY <1>0, <1>2, Renumbered DEF WritesNothing
  <2>2. rec'.id = rec.id /\ (Pending' => Pending)
    BY <1>2 DEF WritesNothing
  <2>3. ASSUME NEW m \in DOMAIN files', NEW n \in DOMAIN files',
               NEW j \in DOMAIN files'[m], NEW k \in DOMAIN files'[n], Earlier(m, j, n, k)
        PROVE  files'[m][j].id < files'[n][k].id
    <3>1. /\ g[m] \in DOMAIN files /\ files'[m] = files[g[m]]
          /\ g[n] \in DOMAIN files /\ files'[n] = files[g[n]]
      BY <2>1 DEF Renumbers
    <3>2. Earlier(g[m], j, g[n], k)
      BY <2>1, <2>3 DEF Renumbers, Earlier
    <3> QED BY <3>1, <3>2 DEF OrderInv
  <2>4. ASSUME NEW m \in DOMAIN files', NEW j \in DOMAIN files'[m]
        PROVE  files'[m][j].id <= rec'.id /\ (Pending' => files'[m][j].id < rec'.id)
    <3>1. g[m] \in DOMAIN files /\ files'[m] = files[g[m]]
      BY <2>1 DEF Renumbers
    <3> QED BY <2>2, <3>1 DEF OrderInv
  <2> QED BY <2>3, <2>4 DEF OrderInv, Earlier
<1>3. CASE WritesPiece
  <2>1. 0 \in DOMAIN files /\ Pending /\ ~ Pending' /\ rec' = rec
    BY <1>0, <1>3 DEF WritesPiece, ControlInv, PhaseInv, Pending
  <2>2. PICK n0 \in Nat, whole \in BOOLEAN :
            files' = With(0, Append(Primary, Piece(rec.id, n0, whole)))
    BY <1>3 DEF WritesPiece
  <2>3. /\ DOMAIN files' = DOMAIN files
        /\ \A m \in DOMAIN files : m # 0 => files'[m] = files[m]
        /\ DOMAIN files[0] \subseteq Nat
    BY <1>0, <2>1, <2>2, WrittenFiles
  <2>4. PICK last \in Nat :
            /\ DOMAIN files'[0] = DOMAIN files[0] \cup {last}
            /\ \A j \in DOMAIN files[0] : j < last /\ files'[0][j] = files[0][j]
            /\ files'[0][last].id = rec.id
    BY <1>0, <2>1, <2>2, WrittenFiles
  <2>5. ASSUME NEW m \in DOMAIN files', NEW j \in DOMAIN files'[m]
        PROVE  \/ j \in DOMAIN files[m] /\ files'[m][j] = files[m][j] /\ files[m][j].id < rec.id
               \/ m = 0 /\ j = last /\ j \notin DOMAIN files[m] /\ files'[m][j].id = rec.id
    <3>1. m \in DOMAIN files
      BY <2>3
    <3>2. j \in DOMAIN files[m] => files[m][j].id < rec.id
      BY <2>1, <3>1 DEF OrderInv
    <3>3. CASE m # 0
      BY <2>3, <3>1, <3>2, <3>3
    <3>4. CASE m = 0 /\ j \in DOMAIN files[0]
      BY <2>4, <3>2, <3>4
    <3>5. CASE m = 0 /\ j \notin DOMAIN files[0]
      BY <2>4, <3>5
    <3> QED BY <3>3, <3>4, <3>5
  <2>6. ASSUME NEW m \in DOMAIN files', NEW n \in DOMAIN files',
               NEW j \in DOMAIN files'[m], NEW k \in DOMAIN files'[n], Earlier(m, j, n, k)
        PROVE  files'[m][j].id < files'[n][k].id
    <3>1. m \in DOMAIN files /\ n \in DOMAIN files /\ m \in Nat /\ n \in Nat
      BY <1>0, <2>3 DEF FilesOK, First, AuditFileAssumption
    <3>2. CASE j \in DOMAIN files[m] /\ k \in DOMAIN files[n]
      BY <2>5, <2>6, <3>1, <3>2 DEF OrderInv
    <3>3. CASE j \in DOMAIN files[m] /\ k \notin DOMAIN files[n]
      BY <2>5, <3>3
    <3>4. CASE j \notin DOMAIN files[m]
      <4>1. m = 0 /\ j = last
        BY <2>5, <3>4
      <4>2. n = 0 /\ last < k
        BY <2>6, <3>1, <4>1 DEF Earlier
      <4>3. k = last \/ k < last
        BY <2>4, <4>2
      <4>4. k \in Nat
        BY <2>3, <2>4, <4>2
      <4> QED BY <4>2, <4>3, <4>4
    <3> QED BY <3>2, <3>3, <3>4
  <2>7. ASSUME NEW m \in DOMAIN files', NEW j \in DOMAIN files'[m]
        PROVE  files'[m][j].id <= rec'.id
    <3>1. m \in DOMAIN files
      BY <2>3
    <3> QED BY <1>0, <2>1, <2>5, <3>1
  <2> QED BY <2>1, <2>6, <2>7 DEF OrderInv, Earlier
<1> QED BY <1>1, <1>2, <1>3, StepKinds

LEMMA AckedNext ==
    ASSUME AuditFileAssumption, Inv1, AckedInv, [Next]_vars PROVE AckedInv'
<1>0. acked \in Seq(Nat) /\ rec.id \in Nat /\ \A a \in DOMAIN acked : acked[a] \in Nat
  <2>1. acked \in Seq(Nat) /\ rec.id \in Nat
    BY TypeParts DEF Inv1, LogInv, ControlInv, ControlOK
  <2> QED BY <2>1, LenProperties, ElementOfSeq
<1>1. CASE TakesRecord
  <2>1. acked' = acked /\ rec'.id = rec.id + 1
    BY <1>1 DEF TakesRecord
  <2> QED BY <1>0, <2>1 DEF AckedInv
<1>2. CASE WritesNothing
  BY <1>2 DEF WritesNothing, AckedInv
<1>3. CASE WritesPiece
  <2>1. Pending /\ ~ Pending' /\ rec' = rec
    BY <1>3 DEF WritesPiece, Pending
  <2>2. acked' = acked \/ acked' = Append(acked, rec.id)
    BY <1>3 DEF WritesPiece
  <2>3. CASE acked' = acked
    BY <2>1, <2>3 DEF AckedInv
  <2>4. CASE acked' = Append(acked, rec.id)
    <3>1. /\ DOMAIN acked' = DOMAIN acked \cup {Len(acked) + 1}
          /\ \A a \in DOMAIN acked : acked'[a] = acked[a] /\ acked[a] < rec.id
          /\ acked'[Len(acked) + 1] = rec.id
      BY <1>0, <2>1, <2>4, AppendIs DEF AckedInv
    <3>2. \A a \in DOMAIN acked : a \in Nat /\ a < Len(acked) + 1
      BY <1>0, AppendIs
    <3>3. Len(acked) + 1 \in Nat
      BY <1>0, AppendIs
    <3> QED BY <1>0, <2>1, <3>1, <3>2, <3>3 DEF AckedInv
  <2> QED BY <2>2, <2>3, <2>4
<1> QED BY <1>1, <1>2, <1>3, StepKinds

(* Whole after the step.                                                   *)
WholeNext(id) ==
    \E m \in DOMAIN files' : \E j \in DOMAIN files'[m] :
        files'[m][j].id = id /\ files'[m][j].whole

LEMMA SuffixNext ==
    ASSUME AuditFileAssumption, Inv1, OrderInv, AckedInv, SuffixInv, [Next]_vars
    PROVE  SuffixInv'
<1>0. /\ FilesOK(files) /\ ControlInv /\ LogInv /\ rec.id \in Nat /\ FilesStep
      /\ acked \in Seq(Nat) /\ \A a \in DOMAIN acked : acked[a] \in Nat
      /\ First \in Nat /\ DOMAIN files \subseteq 0..First
  <2>1. FilesOK(files) /\ ControlInv /\ LogInv /\ rec.id \in Nat /\ FilesStep
    BY TypeParts, FilesChange DEF Inv1, ControlInv, ControlOK
  <2>2. acked \in Seq(Nat) /\ \A a \in DOMAIN acked : acked[a] \in Nat
    BY <2>1, LenProperties, ElementOfSeq DEF LogInv
  <2> QED BY <2>1, <2>2 DEF FilesOK, First, AuditFileAssumption
<1>1. CASE TakesRecord
  <2>1. files' = files /\ acked' = acked
    BY <1>1 DEF TakesRecord
  <2> QED BY <2>1 DEF SuffixInv, Whole
<1>2. CASE WritesNothing
  <2>1. PICK g : Renumbers(g)
    BY <1>0, <1>2, Renumbered DEF WritesNothing
  <2>2. acked' = acked
    BY <1>2 DEF WritesNothing
  <2>3. ASSUME NEW a \in DOMAIN acked, NEW b \in DOMAIN acked, a < b, Whole(acked[a])'
        PROVE  Whole(acked[b])'
    <3>1w. PICK n \in DOMAIN files' : \E j \in DOMAIN files'[n] :
              files'[n][j].id = acked[a] /\ files'[n][j].whole
      BY <2>2, <2>3 DEF Whole
    <3>1. PICK j \in DOMAIN files'[n] : files'[n][j].id = acked[a] /\ files'[n][j].whole
      BY <3>1w
    <3>2. g[n] \in DOMAIN files /\ files'[n] = files[g[n]]
      BY <2>1 DEF Renumbers
    <3>3. Whole(acked[a])
      BY <3>1, <3>2 DEF Whole
    <3>4. Whole(acked[b]) /\ acked[a] < acked[b]
      BY <2>3, <3>3 DEF SuffixInv, AckedInv
    <3>5w. PICK m \in DOMAIN files : \E k \in DOMAIN files[m] :
              files[m][k].id = acked[b] /\ files[m][k].whole
      BY <3>4 DEF Whole
    <3>5. PICK k \in DOMAIN files[m] : files[m][k].id = acked[b] /\ files[m][k].whole
      BY <3>5w
    <3>6. \E l \in DOMAIN files' : files'[l] = files[m]
      <4>1. CASE m # First
        BY <2>1, <4>1 DEF Renumbers
      <4>2. CASE m = First /\ g[n] = First
        BY <3>2, <4>2
      <4>3. CASE m = First /\ g[n] # First
        <5>1. m > g[n]
          BY <1>0, <3>2, <4>3
        <5>2. files[m][k].id < files[g[n]][j].id
          BY <3>1, <3>2, <3>5, <5>1 DEF OrderInv, Earlier
        <5> QED BY <1>0, <3>1, <3>2, <3>4, <3>5, <5>2
      <4> QED BY <4>1, <4>2, <4>3
    <3> QED BY <2>2, <3>5, <3>6 DEF Whole
  <2> QED BY <2>2, <2>3 DEF SuffixInv
<1>3. CASE WritesPiece
  <2>1. 0 \in DOMAIN files /\ Pending
    BY <1>0, <1>3 DEF WritesPiece, ControlInv, PhaseInv, Pending
  <2>2. PICK n0 \in Nat, whole \in BOOLEAN :
            /\ files' = With(0, Append(Primary, Piece(rec.id, n0, whole)))
            /\ acked' = IF whole THEN Append(acked, rec.id) ELSE acked
    BY <1>3 DEF WritesPiece
  <2>3. /\ DOMAIN files' = DOMAIN files
        /\ \A m \in DOMAIN files : m # 0 => files'[m] = files[m]
    BY <1>0, <2>1, <2>2, WrittenFiles
  <2>4. PICK last \in Nat :
            /\ DOMAIN files'[0] = DOMAIN files[0] \cup {last}
            /\ \A j \in DOMAIN files[0] : j < last /\ files'[0][j] = files[0][j]
            /\ files'[0][last].id = rec.id /\ files'[0][last].whole = whole
    BY <1>0, <2>1, <2>2, WrittenFiles
  <2>5. ASSUME NEW id, Whole(id) PROVE WholeNext(id)
    <3>1w. PICK m \in DOMAIN files : \E j \in DOMAIN files[m] :
              files[m][j].id = id /\ files[m][j].whole
      BY <2>5 DEF Whole
    <3>1. PICK j \in DOMAIN files[m] : files[m][j].id = id /\ files[m][j].whole
      BY <3>1w
    <3>2. j \in DOMAIN files'[m] /\ files'[m][j] = files[m][j]
      BY <2>3, <2>4
    <3> QED BY <2>3, <3>1, <3>2 DEF WholeNext
  <2>6. ASSUME NEW id, id # rec.id, WholeNext(id) PROVE Whole(id)
    <3>1w. PICK m \in DOMAIN files' : \E j \in DOMAIN files'[m] :
              files'[m][j].id = id /\ files'[m][j].whole
      BY <2>6 DEF WholeNext
    <3>1. PICK j \in DOMAIN files'[m] : files'[m][j].id = id /\ files'[m][j].whole
      BY <3>1w
    <3>2. j \in DOMAIN files[m] /\ files'[m][j] = files[m][j]
      BY <2>3, <2>4, <2>6, <3>1
    <3> QED BY <2>3, <3>1, <3>2 DEF Whole
  <2>7. \A a \in DOMAIN acked : acked[a] # rec.id
    BY <1>0, <2>1 DEF AckedInv
  <2>8. CASE ~ whole
    <3>1. acked' = acked
      BY <2>2, <2>8
    <3> QED BY <2>5, <2>6, <2>7, <3>1 DEF SuffixInv, Whole, WholeNext
  <2>9. CASE whole
    <3>1. /\ DOMAIN acked' = DOMAIN acked \cup {Len(acked) + 1}
          /\ \A a \in DOMAIN acked : acked'[a] = acked[a] /\ a \in Nat /\ a < Len(acked) + 1
          /\ acked'[Len(acked) + 1] = rec.id /\ Len(acked) \in Nat
      <4>1. acked' = Append(acked, rec.id)
        BY <2>2, <2>9
      <4> QED BY <1>0, <4>1, AppendIs
    <3>2. WholeNext(rec.id)
      BY <2>1, <2>3, <2>4, <2>9 DEF WholeNext
    <3>3. ASSUME NEW a \in DOMAIN acked', NEW b \in DOMAIN acked', a < b, WholeNext(acked'[a])
          PROVE  WholeNext(acked'[b])
      <4>1. CASE b = Len(acked) + 1
        BY <3>1, <3>2, <4>1
      <4>2. CASE b # Len(acked) + 1
        <5>1. a \in DOMAIN acked /\ b \in DOMAIN acked
          BY <3>1, <3>3, <4>2
        <5>2. Whole(acked[a])
          BY <2>6, <2>7, <3>1, <3>3, <5>1
        <5>3. WholeNext(acked[b])
          BY <2>5, <3>3, <5>1, <5>2 DEF SuffixInv
        <5> QED BY <3>1, <5>1, <5>3
      <4> QED BY <4>1, <4>2
    <3> QED BY <3>3 DEF SuffixInv, Whole, WholeNext
  <2> QED BY <2>8, <2>9
<1> QED BY <1>1, <1>2, <1>3, StepKinds

Inv2 == OrderInv /\ AckedInv /\ SuffixInv

(* The places of the pieces, file by file.                                 *)
LEMMA PlacesAre ==
    ASSUME NEW p
    PROVE  p \in Places <=> \E m \in DOMAIN files : \E j \in DOMAIN files[m] : p = <<m, j>>
BY DEF Places

LEMMA KeptWholeIs == ASSUME NEW id PROVE id \in KeptWhole <=> Whole(id)
<1>1. ASSUME id \in KeptWhole PROVE Whole(id)
  <2>1. PICK p \in Places : PieceAt(p).whole /\ PieceAt(p).id = id
    BY <1>1 DEF KeptWhole
  <2>2w. PICK m \in DOMAIN files : \E j \in DOMAIN files[m] :
            p = <<m, j>>
    BY <2>1, PlacesAre
  <2>2. PICK j \in DOMAIN files[m] : p = <<m, j>>
    BY <2>2w
  <2> QED BY <2>1, <2>2 DEF PieceAt, Whole
<1>2. ASSUME Whole(id) PROVE id \in KeptWhole
  <2>1w. PICK m \in DOMAIN files : \E j \in DOMAIN files[m] :
            files[m][j].id = id /\ files[m][j].whole
    BY <1>2 DEF Whole
  <2>1. PICK j \in DOMAIN files[m] : files[m][j].id = id /\ files[m][j].whole
    BY <2>1w
  <2>2. <<m, j>> \in Places
    BY PlacesAre
  <2> QED BY <2>1, <2>2 DEF PieceAt, KeptWhole
<1> QED BY <1>1, <1>2

LEMMA Inv2Gives == Inv1 /\ Inv2 => KeptIsOrderedSuffix
<1> SUFFICES ASSUME Inv1, Inv2 PROVE KeptIsOrderedSuffix
  OBVIOUS
<1>1. KeptInOrder
  <2> SUFFICES ASSUME NEW p \in Places, NEW q \in Places, Before(p, q)
               PROVE  PieceAt(p).id < PieceAt(q).id
    BY DEF KeptInOrder
  <2>1w. PICK m \in DOMAIN files : \E j \in DOMAIN files[m] :
            p = <<m, j>>
    BY PlacesAre
  <2>1. PICK j \in DOMAIN files[m] : p = <<m, j>>
    BY <2>1w
  <2>2w. PICK n \in DOMAIN files : \E k \in DOMAIN files[n] :
            q = <<n, k>>
    BY PlacesAre
  <2>2. PICK k \in DOMAIN files[n] : q = <<n, k>>
    BY <2>2w
  <2>3. Earlier(m, j, n, k)
    BY <2>1, <2>2 DEF Before, Earlier
  <2>4. files[m][j].id < files[n][k].id
    BY <2>3 DEF Inv2, OrderInv
  <2> QED BY <2>1, <2>2, <2>4 DEF PieceAt
<1>2. KeptIsSuffix
  <2>1. DOMAIN acked = 1..Len(acked)
    BY LenProperties DEF Inv1, LogInv
  <2> QED BY <2>1, KeptWholeIs DEF Inv2, SuffixInv, KeptIsSuffix
<1> QED BY <1>1, <1>2 DEF KeptIsOrderedSuffix

LEMMA Inv2Init == Init => Inv2
<1> SUFFICES ASSUME Init PROVE Inv2
  OBVIOUS
<1>1. DOMAIN files = {} /\ DOMAIN acked = {}
  BY DEF Init
<1> QED BY <1>1 DEF Inv2, OrderInv, AckedInv, SuffixInv

(* RotatingFile: the files, read from the oldest backup to the primary,    *)
(* hold every record at most once and in order, and the acknowledged       *)
(* records they hold are the latest ones without a hole, between any two   *)
(* file operations and whatever failed before.                             *)
THEOREM KeepsOrderedSuffix ==
    ASSUME AuditFileAssumption PROVE Spec => []KeptIsOrderedSuffix
<1>1. Init => Inv2
  BY Inv2Init
<1>2. Inv1 /\ Inv2 /\ [Next]_vars => Inv2'
  BY OrderNext, AckedNext, SuffixNext DEF Inv2
<1>3. Inv1 /\ Inv2 => KeptIsOrderedSuffix
  BY Inv2Gives
<1> QED BY <1>1, <1>2, <1>3, Inv1Always, PTL DEF Spec
----------------------------------------------------------------------------
(* How far the newest acknowledged record can have been shifted: by one    *)
(* backup for each failure and restart, and by one more from the moment a  *)
(* rotation passes it until the write that the rotation is for.            *)
Lost == failures + crashes

Within(m) ==
    \/ m <= Lost
    \/ /\ m <= Lost + 1
       /\ pc \in {"fresh", "write"} \/ (pc \in {"remove", "rename"} /\ m > i)

NewestInv ==
    Lost + 1 < MaxFiles /\ acked # << >> =>
        \E m \in DOMAIN files : \E j \in DOMAIN files[m] :
            files[m][j].id = Last(acked) /\ files[m][j].whole /\ Within(m)

(* After the step, file n holds all that file m held, at a number that is  *)
(* allowed.                                                                *)
Carries(m, n) ==
    /\ n \in DOMAIN files' /\ Within(n)'
    /\ \A j \in DOMAIN files[m] : j \in DOMAIN files'[n] /\ files'[n][j] = files[m][j]

LEMMA NewestCarried ==
    ASSUME AuditFileAssumption, NewestInv, LogInv,
           acked' = acked, Lost \in Nat, Lost' = Lost \/ Lost' = Lost + 1,
           \A m \in DOMAIN files :
              Within(m) /\ Lost + 1 < MaxFiles => \E n : Carries(m, n)
    PROVE  NewestInv'
<1> SUFFICES ASSUME Lost' + 1 < MaxFiles, acked' # << >>
             PROVE  \E n \in DOMAIN files' : \E j \in DOMAIN files'[n] :
                        files'[n][j].id = Last(acked') /\ files'[n][j].whole /\ Within(n)'
  BY DEF NewestInv
<1>1. Lost + 1 < MaxFiles
  BY DEF AuditFileAssumption
<1>2. PICK m \in DOMAIN files : \E j \in DOMAIN files[m] :
          files[m][j].id = Last(acked) /\ files[m][j].whole /\ Within(m)
  BY <1>1 DEF NewestInv
<1>3. PICK j \in DOMAIN files[m] : files[m][j].id = Last(acked) /\ files[m][j].whole
  BY <1>2
<1>4. PICK n : Carries(m, n)
  BY <1>1, <1>2
<1>5. j \in DOMAIN files'[n] /\ files'[n][j] = files[m][j] /\ Within(n)' /\ n \in DOMAIN files'
  BY <1>4 DEF Carries
<1> QED BY <1>3, <1>5

(* A failure or a restart leaves room for one more.                        *)
LEMMA WithinAfterFailure ==
    ASSUME NEW m \in Nat, Within(m), Lost \in Nat, Lost' = Lost + 1
    PROVE  Within(m)'
BY DEF Within, Lost

LEMMA NewestNext ==
    ASSUME AuditFileAssumption, Inv1, NewestInv, [Next]_vars PROVE NewestInv'
<1>0. /\ FilesOK(files) /\ ControlInv /\ LogInv /\ rec.id \in Nat /\ rec.size \in Nat
      /\ First \in Nat /\ DOMAIN files \subseteq 0..First /\ DOMAIN files \subseteq Nat
      /\ i \in 0..First /\ Lost \in Nat /\ failures \in Nat /\ crashes \in Nat
      /\ acked \in Seq(Nat)
      /\ MaxFiles = First + 1
  <2>1. FilesOK(files) /\ ControlInv /\ LogInv
    BY TypeParts DEF Inv1
  <2> QED BY <2>1 DEF ControlInv, ControlOK, LogInv, FilesOK, First, Lost, AuditFileAssumption
<1>o. ASSUME OpenAppend, NEW m \in DOMAIN files PROVE m \in DOMAIN files' /\ files'[m] = files[m]
  <2>1. /\ DOMAIN files' = DOMAIN files \cup {0} /\ files'[0] = Primary
        /\ \A n \in DOMAIN files : n # 0 => files'[n] = files[n]
    BY <1>0, <1>o, PrimaryIs, WithIs DEF OpenAppend
  <2> QED BY <1>0, <2>1, PrimaryIs
<1>f. ASSUME Fails, OpenAppend \/ files' = files PROVE NewestInv'
  <2>1. acked' = acked /\ failures' = failures + 1 /\ crashes' = crashes
    BY <1>0, <1>f, FailsLog
  <2>2. Lost' = Lost + 1
    BY <1>0, <2>1 DEF Lost
  <2>3. ASSUME NEW m \in DOMAIN files, Within(m) PROVE \E n : Carries(m, n)
    <3>1. Within(m)'
      BY <1>0, <2>2, <2>3, WithinAfterFailure
    <3> QED BY <1>f, <1>o, <3>1 DEF Carries
  <2> QED BY <1>0, <2>1, <2>2, <2>3, NewestCarried
<1>w. ASSUME Works PROVE acked' = acked /\ Lost' = Lost /\ rec' = rec
  BY <1>0, <1>w, WorksLog DEF Lost
<1>1. CASE Boot
  <2>1. OpenAppend /\ acked' = acked /\ failures' = failures /\ crashes' = crashes
        /\ pc = "down" /\ pc' = "idle"
    BY <1>1 DEF Boot
  <2>2. Lost' = Lost
    BY <2>1 DEF Lost
  <2>3. ASSUME NEW m \in DOMAIN files, Within(m) PROVE \E n : Carries(m, n)
    <3>1. Within(m)'
      BY <2>1, <2>2, <2>3 DEF Within
    <3> QED BY <1>o, <2>1, <3>1 DEF Carries
  <2> QED BY <1>0, <2>1, <2>2, <2>3, NewestCarried
<1>2. CASE Crash
  <2>1. files' = files /\ acked' = acked /\ failures' = failures /\ crashes' = crashes + 1
    BY <1>2 DEF Crash, logVars
  <2>2. Lost' = Lost + 1
    BY <1>0, <2>1 DEF Lost
  <2>3. ASSUME NEW m \in DOMAIN files, Within(m) PROVE \E n : Carries(m, n)
    <3>1. Within(m)'
      BY <1>0, <2>2, <2>3, WithinAfterFailure
    <3> QED BY <2>1, <3>1 DEF Carries
  <2> QED BY <1>0, <2>1, <2>2, <2>3, NewestCarried
<1>3. ASSUME LogUnprinted \/ (\E s \in Sizes : Log(s) \/ LogTooLarge(s)) PROVE NewestInv'
  <2>1. files' = files /\ acked' = acked /\ failures' = failures /\ crashes' = crashes /\ pc = "idle"
    BY <1>3 DEF Log, LogTooLarge, LogUnprinted, Unwritten, logVars
  <2>2. Lost' = Lost
    BY <2>1 DEF Lost
  <2>3. ASSUME NEW m \in DOMAIN files, Within(m) PROVE \E n : Carries(m, n)
    <3>1. Within(m)'
      BY <2>1, <2>2, <2>3 DEF Within
    <3> QED BY <2>1, <3>1 DEF Carries
  <2> QED BY <1>0, <2>1, <2>2, <2>3, NewestCarried
<1>4. ASSUME Reopen \/ Close PROVE NewestInv'
  <2>1. Works /\ pc \in {"reopen", "close"} /\ (OpenAppend \/ files' = files)
    BY <1>4 DEF Reopen, Close
  <2>2. acked' = acked /\ Lost' = Lost
    BY <1>w, <2>1
  <2>3. ASSUME NEW m \in DOMAIN files, Within(m) PROVE \E n : Carries(m, n)
    <3>1. Within(m)'
      BY <2>1, <2>2, <2>3 DEF Within
    <3> QED BY <1>o, <2>1, <3>1 DEF Carries
  <2> QED BY <1>0, <2>2, <2>3, NewestCarried
<1>5. ASSUME ReopenFails \/ CloseFails \/ RemoveTargetFails \/ RenameSourceFails \/ FreshFails
      PROVE  NewestInv'
  BY <1>f, <1>5 DEF ReopenFails, CloseFails, RemoveTargetFails, RenameSourceFails, FreshFails
<1>6. CASE RemoveTarget
  <2>1. Works /\ pc = "remove" /\ pc' = "rename" /\ i' = i /\ files' = Without(i)
    BY <1>6 DEF RemoveTarget
  <2>2. acked' = acked /\ Lost' = Lost
    BY <1>w, <2>1
  <2>3. /\ DOMAIN files' = DOMAIN files \ {i}
        /\ \A n \in DOMAIN files' : files'[n] = files[n]
    BY <1>0, <2>1, WithoutIs
  <2>4. i < First => i \notin DOMAIN files
    BY <1>0, <2>1 DEF ControlInv, PhaseInv
  <2>5. ASSUME NEW m \in DOMAIN files, Within(m), Lost + 1 < MaxFiles
        PROVE  \E n : Carries(m, n)
    <3>1. m # i
      <4>1. CASE i < First
        BY <2>4, <4>1
      <4>2. CASE i = First
        <5>1. ~ (m > First)
          BY <1>0
        <5>2. m <= Lost
          BY <2>1, <2>5, <4>2, <5>1 DEF Within
        <5> QED BY <1>0, <2>5, <4>2, <5>2
      <4> QED BY <1>0, <4>1, <4>2
    <3>2. Within(m)'
      BY <2>1, <2>2, <2>5 DEF Within
    <3>3. m \in DOMAIN files' /\ files'[m] = files[m]
      BY <2>3, <3>1
    <3> QED BY <3>2, <3>3 DEF Carries
  <2> QED BY <1>0, <2>2, <2>5, NewestCarried
<1>7. CASE RenameSource
  <2>1. /\ Works /\ pc = "rename" /\ i' = i - 1
        /\ pc' = (IF i - 1 >= 1 THEN "remove" ELSE "fresh")
        /\ files' = IF i - 1 \in DOMAIN files THEN Moved(i - 1, i) ELSE files
    BY <1>7 DEF RenameSource, NextShift
  <2>2. acked' = acked /\ Lost' = Lost
    BY <1>w, <2>1
  <2>3. i \notin DOMAIN files
    BY <1>0, <2>1 DEF ControlInv, PhaseInv
  <2>4. ASSUME NEW n \in Nat, n <= Lost \/ (n <= Lost + 1 /\ n > i - 1)
        PROVE  Within(n)'
    BY <2>1, <2>2, <2>4 DEF Within
  <2>5. ASSUME NEW m \in DOMAIN files, Within(m) PROVE \E n : Carries(m, n)
    <3>1. m \in Nat /\ (m <= Lost \/ (m <= Lost + 1 /\ m > i))
      BY <1>0, <2>1, <2>5 DEF Within
    <3>2. CASE i - 1 \notin DOMAIN files
      <4>1. files' = files /\ Within(m)'
        BY <1>0, <2>1, <2>4, <3>1, <3>2
      <4> QED BY <4>1 DEF Carries
    <3>3. CASE i - 1 \in DOMAIN files
      <4>1. /\ DOMAIN files' = (DOMAIN files \cup {i}) \ {i - 1}
            /\ files'[i] = files[i - 1]
            /\ \A n \in DOMAIN files' : n # i => n \in DOMAIN files /\ files'[n] = files[n]
        BY <1>0, <2>1, <3>3, MovedIs
      <4>2. CASE m = i - 1
        <5>1. i \in Nat /\ i <= Lost + 1 /\ i > i - 1 /\ i \in DOMAIN files'
          BY <1>0, <3>1, <4>1, <4>2
        <5>2. Within(i)'
          <6> DEFINE n == i
          <6>1. n \in Nat /\ n <= Lost + 1 /\ n > i - 1
            BY <5>1
          <6> QED BY <2>1, <2>2, <1>0, <3>1, <4>2 DEF Within
        <5>3. Carries(m, i)
          BY <4>1, <4>2, <5>1, <5>2 DEF Carries
        <5> QED BY <5>3
      <4>3. CASE m # i - 1
        <5>1. m \in DOMAIN files' /\ files'[m] = files[m]
          BY <2>3, <4>1, <4>3
        <5>2. Within(m)'
          BY <1>0, <2>4, <3>1
        <5> QED BY <5>1, <5>2 DEF Carries
      <4> QED BY <4>2, <4>3
    <3> QED BY <3>2, <3>3
  <2> QED BY <1>0, <2>2, <2>5, NewestCarried
<1>8. CASE Fresh
  <2>1. Works /\ pc = "fresh" /\ pc' = "write" /\ files' = With(0, << >>)
    BY <1>8 DEF Fresh
  <2>2. acked' = acked /\ Lost' = Lost
    BY <1>w, <2>1
  <2>3. << >> \in Seq(AnyPiece)
    OBVIOUS
  <2>4. /\ DOMAIN files' = DOMAIN files \cup {0}
        /\ \A n \in DOMAIN files : n # 0 => files'[n] = files[n]
    BY <1>0, <2>1, <2>3, WithIs
  <2>5. First > 0 => 0 \notin DOMAIN files
    BY <1>0, <2>1 DEF ControlInv, PhaseInv
  <2>6. ASSUME NEW m \in DOMAIN files, Within(m), Lost + 1 < MaxFiles
        PROVE  \E n : Carries(m, n)
    <3>1. m # 0
      BY <1>0, <2>5, <2>6
    <3>2. Within(m)'
      BY <2>1, <2>2, <2>6 DEF Within
    <3> QED BY <2>4, <3>1, <3>2 DEF Carries
  <2> QED BY <1>0, <2>2, <2>6, NewestCarried
<1>9. CASE Write
  <2>1. /\ files' = With(0, Append(Primary, Piece(rec.id, rec.size, TRUE)))
        /\ acked' = Append(acked, rec.id) /\ pc = "write" /\ rec' = rec
    BY <1>9 DEF Write
  <2>2. 0 \in DOMAIN files
    BY <1>0, <2>1 DEF ControlInv, PhaseInv
  <2>3. PICK last \in Nat :
            /\ DOMAIN files'[0] = DOMAIN files[0] \cup {last}
            /\ files'[0][last].id = rec.id /\ files'[0][last].whole
    <3>1. TRUE \in BOOLEAN
      OBVIOUS
    <3> QED BY <1>0, <2>1, <2>2, <3>1, WrittenFiles, Zenon
  <2>4. Last(acked') = rec.id
    <3>1. /\ Len(Append(acked, rec.id)) = Len(acked) + 1 /\ Len(acked) \in Nat
          /\ Append(acked, rec.id)[Len(acked) + 1] = rec.id
      BY <1>0, AppendProperties, LenProperties
    <3> QED BY <2>1, <3>1 DEF Last
  <2>5. Lost' = Lost /\ 0 \in DOMAIN files'
    BY <1>9 DEF Write, Lost, With
  <2>6. Within(0)'
    BY <1>0, <2>5 DEF Within
  <2> QED BY <2>3, <2>4, <2>5, <2>6 DEF NewestInv
<1>10. ASSUME NEW n \in 0..MaxBytes, ShortWrite(n) PROVE NewestInv'
  <2>1. Fails /\ pc = "write" /\ n \in Nat
    BY <1>10 DEF ShortWrite, AuditFileAssumption
  <2>2. CASE n = 0
    BY <1>10, <1>f, <2>1, <2>2 DEF ShortWrite, OpenAppend
  <2>3. CASE n # 0
    <3>1. files' = With(0, Append(Primary, Piece(rec.id, n, FALSE)))
      BY <1>10, <2>3 DEF ShortWrite
    <3>2. 0 \in DOMAIN files
      BY <1>0, <2>1 DEF ControlInv, PhaseInv
    <3>3. /\ DOMAIN files' = DOMAIN files
          /\ \A m \in DOMAIN files : m # 0 => files'[m] = files[m]
      BY <1>0, <2>1, <3>1, <3>2, WrittenFiles
    <3>4. \A j \in DOMAIN files[0] : j \in DOMAIN files'[0] /\ files'[0][j] = files[0][j]
      BY <1>0, <2>1, <3>1, <3>2, WrittenFiles
    <3>5. acked' = acked /\ Lost' = Lost + 1
      BY <1>0, <2>1, FailsLog DEF Lost
    <3>6. ASSUME NEW m \in DOMAIN files, Within(m) PROVE \E k : Carries(m, k)
      <4>1. Within(m)'
        BY <1>0, <3>5, <3>6, WithinAfterFailure
      <4>2. \A j \in DOMAIN files[m] : j \in DOMAIN files'[m] /\ files'[m][j] = files[m][j]
        BY <3>3, <3>4
      <4> QED BY <3>3, <4>1, <4>2 DEF Carries
    <3> QED BY <1>0, <3>5, <3>6, NewestCarried
  <2> QED BY <2>2, <2>3
<1>11. CASE UNCHANGED vars
  BY <1>11 DEF vars, logVars, NewestInv, Within, Lost
<1> QED BY <1>1, <1>2, <1>3, <1>4, <1>5, <1>6, <1>7, <1>8, <1>9, <1>10, <1>11 DEF Next

(* RotatingFile: a failed rotation leaves the backups shifted, and the     *)
(* next one shifts them again; still the newest acknowledged record is     *)
(* kept as long as the failures and restarts are fewer than the backups.   *)
THEOREM KeepsNewest ==
    ASSUME AuditFileAssumption PROVE Spec => []NewestKept
<1>1. Init => NewestInv
  BY DEF Init, NewestInv
<1>2. Inv1 /\ NewestInv /\ [Next]_vars => NewestInv'
  BY NewestNext
<1>3. NewestInv => NewestKept
  <2> SUFFICES ASSUME NewestInv, failures + crashes + 1 < MaxFiles, acked # << >>
               PROVE  Whole(Last(acked))
    BY KeptWholeIs DEF NewestKept
  <2> QED BY DEF NewestInv, Lost, Whole
<1> QED BY <1>1, <1>2, <1>3, Inv1Always, PTL DEF Spec
============================================================================
