-------------------------- MODULE UploadAllProofs --------------------------
(***************************************************************************)
(* Proofs about UploadAll, for any files, destinations and worker count.   *)
(* Everything rests on one inductive invariant, IInv: what a goroutine's   *)
(* step says about its row, its staged copy and its destination.           *)
(***************************************************************************)
EXTENDS UploadAll, FiniteSetTheorems, TLAPS

Pending == {"queued", "failed"}
Claimed == {"choose", "transfer", "charge", "settle", "acknowledge"}

\* A goroutine's step and its row agree; a row is uploading only while some
\* goroutine owns it.
OwnerInv ==
  /\ \A f \in Files :
       /\ wpc[f] = "stat" => fstate[f] \in Pending
       /\ wpc[f] \in Claimed <=> fstate[f] = "uploading"
       /\ wpc[f] = "cleanup" => fstate[f] = "uploaded"
       /\ f \in todo => wpc[f] = "none" /\ fstate[f] \in Pending
       /\ wpc[f] # "none" => call = "running"
  /\ todo # {} => call = "running"
  /\ call = "idle" => NoCall

\* The attempt count read at the start is current until the charge.
SnapInv ==
  \A f \in Files :
    /\ f \in todo \/ wpc[f] \in {"stat", "choose", "transfer", "charge", "acknowledge"}
         => snap[f] = attempts[f]
    /\ wpc[f] = "settle" => attempts[f] = snap[f] + 1

\* Destinations a goroutine has passed are dead.
DeadInv ==
  /\ call = "running" => dests # {}
  /\ \A f \in Files :
       /\ f \in todo \/ wpc[f] = "stat" => wdest[f] = 0
       /\ wpc[f] \in {"transfer", "acknowledge", "cleanup"} => wdest[f] \in dests
       /\ wpc[f] = "choose" => \A d \in dests : d <= wdest[f] => d \in dead
       /\ wpc[f] = "transfer" => \A d \in dests : d < wdest[f] => d \in dead
       /\ wpc[f] \in {"charge", "settle"} => dests \subseteq dead

\* A goroutine past its transfer left something at its destination.
TookBackup(d) == \E p \in Paths : remote[d][p] # NoFile
DeliveredInv ==
  /\ \A f \in Files : wpc[f] \in {"acknowledge", "cleanup"} => TookBackup(wdest[f])
  /\ \A d \in used : TookBackup(d)
  /\ uploaded # {} => used # {}

\* For a file alone on its path: the copy is where the row says it is.
CopyInv ==
  \A f \in Files : Sole(f) /\ wpc[f] = "acknowledge" => remote[wdest[f]][PathOf[f]] = f

IInv == /\ TypeOK /\ OwnerInv /\ SnapInv /\ DeadInv /\ DeliveredInv /\ CopyInv
        /\ UploadedHasCopy /\ PendingIsStaged /\ AbandonedIsExhausted /\ ReportedTookBackup

-----------------------------------------------------------------------------
\* The initial state satisfies the invariant.
LEMMA InitInv == Init => IInv
<1> SUFFICES ASSUME Init PROVE IInv
  OBVIOUS
<1> USE ConstantsAssumption DEF Init, NoCall
<1>1. TypeOK
  BY DEF TypeOK, Content, FileState, Step, Dests
<1>2. OwnerInv /\ SnapInv /\ DeadInv /\ DeliveredInv /\ CopyInv
  BY DEF OwnerInv, SnapInv, DeadInv, DeliveredInv, CopyInv, Pending, Claimed
<1>3. PendingIsStaged
  BY DEF PendingIsStaged, Sole
<1>4. UploadedHasCopy /\ AbandonedIsExhausted /\ ReportedTookBackup
  BY DEF UploadedHasCopy, AbandonedIsExhausted, ReportedTookBackup
<1> QED
  BY <1>1, <1>2, <1>3, <1>4 DEF IInv

\* Every variable keeps its type.
LEMMA TypeStep == TypeOK /\ DeadInv /\ Next => TypeOK'
<1> SUFFICES ASSUME TypeOK, DeadInv, Next PROVE TypeOK'
  OBVIOUS
<1> USE ConstantsAssumption DEF TypeOK, rowVars, diskVars, recordVars, callVars, resultVars,
      workerVars, histVars, FileState, Step
<1>1. ASSUME NEW D \in SUBSET Dests, StartUpload(D) PROVE TypeOK'
  BY <1>1 DEF StartUpload, QueuedFiles
<1>2. ASSUME NEW f \in Files, Spawn(f) PROVE TypeOK'
  BY <1>2 DEF Spawn
<1>3. ASSUME NEW f \in Files, WorkerStep(f) PROVE TypeOK'
  <2>1. CASE StatMissing(f)
    BY <2>1 DEF StatMissing
  <2>2. CASE StatPresent(f)
    BY <2>2 DEF StatPresent
  <2>3. ASSUME NEW d \in Dests, Choose(f, d) PROVE TypeOK'
    BY <2>3 DEF Choose, Dests
  <2>4. CASE Exhausted(f)
    BY <2>4 DEF Exhausted
  <2>5. CASE TransferOk(f)
    BY <2>5 DEF TransferOk
  <2>6. CASE TransferFailed(f)
    BY <2>6 DEF TransferFailed, MarkDead, DeadInv
  <2>7. CASE Cancelled(f)
    BY <2>7 DEF Cancelled, PutBack
  <2>8. CASE ChargeAttempt(f)
    BY <2>8 DEF ChargeAttempt
  <2>9. CASE SettleFailure(f)
    BY <2>9 DEF SettleFailure, GivesUp
  <2>10. CASE Acknowledge(f)
    BY <2>10 DEF Acknowledge
  <2>11. CASE Cleanup(f)
    BY <2>11 DEF Cleanup, Report, Content, DeadInv
  <2> QED
    BY <1>3, <2>1, <2>2, <2>3, <2>4, <2>5, <2>6, <2>7, <2>8, <2>9, <2>10, <2>11 DEF WorkerStep
<1>4. CASE FinishUpload
  BY <1>4 DEF FinishUpload, RecordUsed, EndCall
<1>5. CASE Cancel
  BY <1>5 DEF Cancel
<1>6. CASE Crash
  <2>1. fstate' \in [Files -> FileState]
    BY <1>6 DEF Crash, ResetStuckFiles
  <2>2. cancels' \in Nat /\ crashes' \in Nat /\ UNCHANGED <<attempts, diskVars, recordVars, sent>>
    BY <1>6 DEF Crash
  <2>3. EndCall
    BY <1>6 DEF Crash
  <2> QED
    BY <2>1, <2>2, <2>3 DEF EndCall
<1> QED
  BY <1>1, <1>2, <1>3, <1>4, <1>5, <1>6 DEF Next, UploadStep, RunningStep

\* Only a finished transfer writes a destination, only Cleanup the staging area.
LEMMA DiskFrame ==
  Next => UNCHANGED diskVars \/ \E f \in Files : TransferOk(f) \/ Cleanup(f)
BY DEF Next, UploadStep, RunningStep, StartUpload, Spawn, WorkerStep, StatMissing, StatPresent, Choose, Exhausted,
     TransferFailed, MarkDead, Cancelled, PutBack, ChargeAttempt, SettleFailure, GivesUp, Acknowledge, FinishUpload, RecordUsed, Cancel, Crash, diskVars

LEMMA OwnerStep == TypeOK /\ OwnerInv /\ Next => OwnerInv'
<1> SUFFICES ASSUME TypeOK, OwnerInv, Next PROVE OwnerInv'
  OBVIOUS
<1> USE DEF TypeOK, OwnerInv, Pending, Claimed, rowVars, callVars, workerVars, Step
<1>1. ASSUME NEW D \in SUBSET Dests, StartUpload(D) PROVE OwnerInv'
  BY <1>1 DEF StartUpload, QueuedFiles, NoCall
<1>2. ASSUME NEW f \in Files, Spawn(f) PROVE OwnerInv'
  BY <1>2 DEF Spawn
<1>3. ASSUME NEW f \in Files, WorkerStep(f) PROVE OwnerInv'
  <2>1. CASE StatMissing(f)
    BY <2>1 DEF StatMissing
  <2>2. CASE StatPresent(f)
    BY <2>2 DEF StatPresent
  <2>3. ASSUME NEW d \in Dests, Choose(f, d) PROVE OwnerInv'
    BY <2>3 DEF Choose
  <2>4. CASE Exhausted(f)
    BY <2>4 DEF Exhausted
  <2>5. CASE TransferOk(f)
    BY <2>5 DEF TransferOk
  <2>6. CASE TransferFailed(f)
    BY <2>6 DEF TransferFailed, MarkDead
  <2>7. CASE Cancelled(f)
    BY <2>7 DEF Cancelled, PutBack
  <2>8. CASE ChargeAttempt(f)
    BY <2>8 DEF ChargeAttempt
  <2>9. CASE SettleFailure(f)
    BY <2>9 DEF SettleFailure, GivesUp
  <2>10. CASE Acknowledge(f)
    BY <2>10 DEF Acknowledge
  <2>11. CASE Cleanup(f)
    BY <2>11 DEF Cleanup, Report
  <2> QED
    BY <1>3, <2>1, <2>2, <2>3, <2>4, <2>5, <2>6, <2>7, <2>8, <2>9, <2>10, <2>11 DEF WorkerStep
<1>4. CASE FinishUpload
  BY <1>4 DEF FinishUpload, RecordUsed, EndCall, NoCall, Active
<1>5. CASE Cancel
  BY <1>5 DEF Cancel
<1>6. CASE Crash
  BY <1>6 DEF Crash, EndCall, NoCall, ResetStuckFiles
<1> QED
  BY <1>1, <1>2, <1>3, <1>4, <1>5, <1>6 DEF Next, UploadStep, RunningStep

LEMMA SnapStep == TypeOK /\ OwnerInv /\ SnapInv /\ Next => SnapInv'
<1> SUFFICES ASSUME TypeOK, OwnerInv, SnapInv, Next PROVE SnapInv'
  OBVIOUS
<1> USE DEF TypeOK, OwnerInv, SnapInv, Claimed, rowVars, callVars, workerVars, Step
<1>1. ASSUME NEW D \in SUBSET Dests, StartUpload(D) PROVE SnapInv'
  BY <1>1 DEF StartUpload, NoCall
<1>2. ASSUME NEW f \in Files, Spawn(f) PROVE SnapInv'
  BY <1>2 DEF Spawn
<1>3. ASSUME NEW f \in Files, WorkerStep(f) PROVE SnapInv'
  <2>1. CASE StatMissing(f) \/ StatPresent(f) \/ Exhausted(f)
    BY <2>1 DEF StatMissing, StatPresent, Exhausted
  <2>2. ASSUME NEW d \in Dests, Choose(f, d) PROVE SnapInv'
    BY <2>2 DEF Choose
  <2>3. CASE TransferOk(f) \/ TransferFailed(f) \/ Cancelled(f)
    BY <2>3 DEF TransferOk, TransferFailed, MarkDead, Cancelled, PutBack
  <2>4. CASE ChargeAttempt(f)
    BY <2>4 DEF ChargeAttempt
  <2>5. CASE SettleFailure(f) \/ Acknowledge(f) \/ Cleanup(f)
    BY <2>5 DEF SettleFailure, GivesUp, Acknowledge, Cleanup, Report
  <2> QED
    BY <1>3, <2>1, <2>2, <2>3, <2>4, <2>5 DEF WorkerStep
<1>4. CASE FinishUpload \/ Crash
  BY <1>4 DEF FinishUpload, RecordUsed, Crash, EndCall
<1>5. CASE Cancel
  BY <1>5 DEF Cancel
<1> QED
  BY <1>1, <1>2, <1>3, <1>4, <1>5 DEF Next, UploadStep, RunningStep

LEMMA DeadStep == TypeOK /\ OwnerInv /\ DeadInv /\ Next => DeadInv'
<1> SUFFICES ASSUME TypeOK, OwnerInv, DeadInv, Next PROVE DeadInv'
  OBVIOUS
<1> USE ConstantsAssumption DEF TypeOK, OwnerInv, DeadInv, callVars, workerVars, Step, Dests
<1>1. ASSUME NEW D \in SUBSET Dests, StartUpload(D) PROVE DeadInv'
  BY <1>1 DEF StartUpload, NoCall
<1>2. ASSUME NEW f \in Files, Spawn(f) PROVE DeadInv'
  BY <1>2 DEF Spawn
<1>3. ASSUME NEW f \in Files, WorkerStep(f) PROVE DeadInv'
  <2>1. CASE StatMissing(f) \/ StatPresent(f)
    <3>1. \A d \in dests : ~(d <= 0)
      OBVIOUS
    <3>2. CASE StatMissing(f)
      BY <3>2 DEF StatMissing
    <3>3. CASE StatPresent(f)
      BY <3>1, <3>3 DEF StatPresent
    <3> QED
      BY <2>1, <3>2, <3>3
  <2>2. ASSUME NEW d \in Dests, Choose(f, d) PROVE DeadInv'
    <3>1. d \in dests /\ \A e \in dests : e < d => e \in dead
      BY <2>2 DEF Choose, Candidates
    <3> QED
      BY <2>2, <3>1 DEF Choose
  <2>3. CASE Exhausted(f)
    BY <2>3 DEF Exhausted, Candidates
  <2>4. CASE TransferFailed(f)
    BY <2>4 DEF TransferFailed, MarkDead
  <2>5. CASE TransferOk(f) \/ Cancelled(f) \/ ChargeAttempt(f)
    BY <2>5 DEF TransferOk, Cancelled, PutBack, ChargeAttempt
  <2>6. CASE SettleFailure(f) \/ Acknowledge(f) \/ Cleanup(f)
    BY <2>6 DEF SettleFailure, GivesUp, Acknowledge, Cleanup, Report
  <2> QED
    BY <1>3, <2>1, <2>2, <2>3, <2>4, <2>5, <2>6 DEF WorkerStep
<1>4. CASE FinishUpload \/ Crash
  BY <1>4 DEF FinishUpload, RecordUsed, Crash, EndCall
<1>5. CASE Cancel
  BY <1>5 DEF Cancel
<1> QED
  BY <1>1, <1>2, <1>3, <1>4, <1>5 DEF Next, UploadStep, RunningStep

\* A destination that took a backup keeps holding something at that path.
LEMMA TookBackupStable ==
  ASSUME TypeOK, Next, NEW d \in Dests, TookBackup(d)
  PROVE  TookBackup(d)'
<1> USE ConstantsAssumption DEF TookBackup, TypeOK
<1>1. CASE UNCHANGED diskVars
  BY <1>1 DEF diskVars
<1>2. ASSUME NEW f \in Files, TransferOk(f) PROVE TookBackup(d)'
  BY <1>2 DEF TransferOk
<1>3. ASSUME NEW f \in Files, Cleanup(f) PROVE TookBackup(d)'
  BY <1>3 DEF Cleanup, Report
<1> QED
  BY <1>1, <1>2, <1>3, DiskFrame

LEMMA DeliveredStep ==
  TypeOK /\ OwnerInv /\ DeadInv /\ DeliveredInv /\ Next => DeliveredInv'
<1> SUFFICES ASSUME TypeOK, OwnerInv, DeadInv, DeliveredInv, Next PROVE DeliveredInv'
  OBVIOUS
<1>1. \A d \in Dests : TookBackup(d) => TookBackup(d)'
  BY TookBackupStable
<1>2. dests \subseteq Dests /\ used \subseteq Dests
  BY DEF TypeOK
<1> USE DEF OwnerInv, DeadInv, DeliveredInv, callVars, workerVars, resultVars
<1>3. wpc \in [Files -> Step] /\ wdest \in [Files -> Nat]
  BY DEF TypeOK
<1>4. ASSUME NEW D \in SUBSET Dests, StartUpload(D) PROVE DeliveredInv'
  BY <1>1, <1>2, <1>3, <1>4 DEF StartUpload, NoCall
<1>5. ASSUME NEW f \in Files, Spawn(f) PROVE DeliveredInv'
  BY <1>1, <1>2, <1>3, <1>5 DEF Spawn
<1>6. ASSUME NEW f \in Files, WorkerStep(f) PROVE DeliveredInv'
  <2>1. CASE StatMissing(f) \/ StatPresent(f) \/ Exhausted(f)
    BY <1>1, <1>2, <1>3, <2>1 DEF StatMissing, StatPresent, Exhausted
  <2>2. ASSUME NEW d \in Dests, Choose(f, d) PROVE DeliveredInv'
    BY <1>1, <1>2, <1>3, <2>2 DEF Choose
  <2>3. CASE TransferOk(f)
    <3>1. TookBackup(wdest[f])'
      BY <1>2, <1>3, <2>3, ConstantsAssumption DEF TransferOk, TookBackup, TypeOK
    <3> QED
      BY <1>1, <1>2, <1>3, <2>3, <3>1 DEF TransferOk
  <2>4. CASE TransferFailed(f) \/ Cancelled(f)
    BY <1>1, <1>2, <1>3, <2>4 DEF TransferFailed, MarkDead, Cancelled, PutBack
  <2>5. CASE ChargeAttempt(f) \/ SettleFailure(f)
    BY <1>1, <1>2, <1>3, <2>5 DEF ChargeAttempt, SettleFailure, GivesUp
  <2>6. CASE Acknowledge(f) \/ Cleanup(f)
    BY <1>1, <1>2, <1>3, <2>6 DEF Acknowledge, Cleanup, Report
  <2> QED
    BY <1>6, <2>1, <2>2, <2>3, <2>4, <2>5, <2>6 DEF WorkerStep
<1>7. CASE FinishUpload \/ Crash
  BY <1>7 DEF FinishUpload, RecordUsed, Crash, EndCall
<1>8. CASE Cancel
  BY <1>1, <1>2, <1>3, <1>8 DEF Cancel
<1> QED
  BY <1>4, <1>5, <1>6, <1>7, <1>8 DEF Next, UploadStep, RunningStep

LEMMA ReportedStep ==
  TypeOK /\ DeliveredInv /\ ReportedTookBackup /\ Next => ReportedTookBackup'
<1> SUFFICES ASSUME TypeOK, DeliveredInv, ReportedTookBackup, Next
             PROVE  ReportedTookBackup'
  OBVIOUS
<1>1. \A d \in Dests : TookBackup(d) => TookBackup(d)'
  BY TookBackupStable
<1>2. CASE UNCHANGED recordVars
  BY <1>1, <1>2 DEF ReportedTookBackup, TookBackup, recordVars, TypeOK
<1>3. CASE FinishUpload
  BY <1>1, <1>2, <1>3 DEF FinishUpload, RecordUsed, ReportedTookBackup, TookBackup, DeliveredInv, TypeOK, recordVars
<1>4. FinishUpload \/ UNCHANGED recordVars
  BY DEF Next, UploadStep, RunningStep, StartUpload, Spawn, WorkerStep, StatMissing, StatPresent, Choose, Exhausted,
         TransferOk, TransferFailed, MarkDead, Cancelled, PutBack, ChargeAttempt, SettleFailure, GivesUp, Acknowledge, Cleanup, Report,
         Cancel, Crash, recordVars
<1> QED
  BY <1>2, <1>3, <1>4

\* What an uploaded file left behind is never replaced: only its own transfers
\* go to its path, and they find it staged whole.
LEMMA CopyStable ==
  ASSUME TypeOK, OwnerInv, PendingIsStaged, Next,
         NEW f \in Files, Sole(f), NEW d \in Dests, remote[d][PathOf[f]] = f
  PROVE  (remote[d][PathOf[f]] = f)'
<1> USE ConstantsAssumption DEF TypeOK
<1>1. CASE UNCHANGED diskVars
  BY <1>1 DEF diskVars
<1>2. ASSUME NEW g \in Files, TransferOk(g) PROVE (remote[d][PathOf[f]] = f)'
  <2>1. CASE g = f
    <3>1. staged[PathOf[f]] = f
      BY <1>2, <2>1 DEF TransferOk, OwnerInv, Claimed, PendingIsStaged
    <3> QED
      BY <1>2, <2>1, <3>1 DEF TransferOk
  <2>2. CASE g # f
    BY <1>2, <2>2 DEF TransferOk, Sole
  <2> QED
    BY <2>1, <2>2
<1>3. ASSUME NEW g \in Files, Cleanup(g) PROVE (remote[d][PathOf[f]] = f)'
  BY <1>3 DEF Cleanup, Report
<1> QED
  BY <1>1, <1>2, <1>3, DiskFrame

LEMMA CopyStep ==
  TypeOK /\ OwnerInv /\ DeadInv /\ PendingIsStaged /\ CopyInv /\ Next => CopyInv'
<1> SUFFICES ASSUME TypeOK, OwnerInv, DeadInv, PendingIsStaged, CopyInv, Next,
                    NEW f \in Files, Sole(f), wpc'[f] = "acknowledge"
             PROVE  remote'[wdest'[f]][PathOf[f]] = f
  BY DEF CopyInv
<1>1. CASE wpc[f] = "acknowledge" /\ wdest'[f] = wdest[f]
  BY <1>1, CopyStable DEF CopyInv, DeadInv, TypeOK
<1>2. CASE TransferOk(f)
  <2>1. staged[PathOf[f]] = f
    BY <1>2 DEF TransferOk, OwnerInv, Claimed, PendingIsStaged
  <2>2. wdest[f] \in Dests /\ PathOf[f] \in Paths /\ wdest'[f] = wdest[f]
    BY <1>2, ConstantsAssumption DEF TransferOk, DeadInv, TypeOK
  <2> QED
    BY <1>2, <2>1, <2>2 DEF TransferOk, TypeOK
<1>3. TransferOk(f) \/ (wpc[f] = "acknowledge" /\ wdest'[f] = wdest[f])
  <2> USE DEF TypeOK, workerVars, callVars
  <2>1. ASSUME NEW g \in Files, WorkerStep(g) PROVE <1>3!:
    BY <2>1 DEF WorkerStep, StatMissing, StatPresent, Choose, Exhausted, TransferOk, TransferFailed, MarkDead,
                Cancelled, PutBack, ChargeAttempt, SettleFailure, GivesUp, Acknowledge, Cleanup, Report
  <2>2. ASSUME NEW g \in Files, Spawn(g) PROVE <1>3!:
    BY <2>2 DEF Spawn
  <2>3. CASE FinishUpload \/ Crash
    BY <2>3 DEF FinishUpload, RecordUsed, Crash, EndCall
  <2>4. CASE Cancel \/ \E D \in SUBSET Dests : StartUpload(D)
    BY <2>4 DEF Cancel, StartUpload
  <2> QED
    BY <2>1, <2>2, <2>3, <2>4 DEF Next, UploadStep, RunningStep
<1> QED
  BY <1>1, <1>2, <1>3

-----------------------------------------------------------------------------
\* How one step may change the row and the count of one file.
RowMove(f) ==
  \/ UNCHANGED <<fstate[f], attempts[f]>>
  \/ StatMissing(f) \/ StatPresent(f) \/ Cancelled(f) \/ ChargeAttempt(f)
  \/ SettleFailure(f) \/ Acknowledge(f)
  \/ Crash

LEMMA RowFrame == TypeOK /\ Next => \A f \in Files : RowMove(f)
<1> SUFFICES ASSUME TypeOK, Next, NEW f \in Files PROVE RowMove(f)
  OBVIOUS
<1> USE DEF RowMove, TypeOK, rowVars
<1>1. ASSUME NEW D \in SUBSET Dests, StartUpload(D) PROVE RowMove(f)
  BY <1>1 DEF StartUpload
<1>2. ASSUME NEW g \in Files, Spawn(g) PROVE RowMove(f)
  BY <1>2 DEF Spawn
<1>3. ASSUME NEW g \in Files, WorkerStep(g) PROVE RowMove(f)
  <2>1. CASE g = f
    BY <1>3, <2>1 DEF WorkerStep, Choose, Exhausted, TransferOk, TransferFailed, MarkDead, Cleanup, Report
  <2>2. CASE g # f
    BY <1>3, <2>2 DEF WorkerStep, StatMissing, StatPresent, Choose, Exhausted, TransferOk,
         TransferFailed, MarkDead, Cancelled, PutBack, ChargeAttempt, SettleFailure, GivesUp, Acknowledge, Cleanup, Report
  <2> QED
    BY <2>1, <2>2
<1>4. CASE FinishUpload \/ Cancel
  BY <1>4 DEF FinishUpload, RecordUsed, Cancel
<1> QED
  BY <1>1, <1>2, <1>3, <1>4 DEF Next, UploadStep, RunningStep

LEMMA PendingStep ==
  TypeOK /\ OwnerInv /\ PendingIsStaged /\ Next => PendingIsStaged'
<1> SUFFICES ASSUME TypeOK, OwnerInv, PendingIsStaged, Next, NEW f \in Files, Sole(f),
                    fstate'[f] \in {"queued", "failed", "uploading"}
             PROVE  staged'[PathOf[f]] = f
  BY DEF PendingIsStaged, Sole
<1> USE DEF TypeOK, OwnerInv, Claimed, Pending
<1>1. fstate[f] \in {"queued", "failed", "uploading"}
  <2>1. RowMove(f)
    BY RowFrame
  <2>2. CASE StatMissing(f) \/ StatPresent(f) \/ Acknowledge(f)
    BY <2>2 DEF StatMissing, StatPresent, Acknowledge
  <2>3. CASE Cancelled(f) \/ ChargeAttempt(f) \/ SettleFailure(f)
    BY <2>3 DEF Cancelled, PutBack, ChargeAttempt, SettleFailure, GivesUp
  <2>4. CASE Crash
    BY <2>4 DEF Crash, ResetStuckFiles
  <2> QED
    BY <2>1, <2>2, <2>3, <2>4 DEF RowMove
<1>2. staged[PathOf[f]] = f
  BY <1>1 DEF PendingIsStaged
<1>3. ASSUME NEW g \in Files, Cleanup(g) PROVE staged'[PathOf[f]] = f
  <2>1. g # f
    BY <1>1, <1>3 DEF Cleanup, Report
  <2>2. PathOf[g] # PathOf[f]
    BY <2>1 DEF Sole
  <2> QED
    BY <1>2, <1>3, <2>2, ConstantsAssumption DEF Cleanup, Report
<1>4. ASSUME NEW g \in Files, TransferOk(g) PROVE staged'[PathOf[f]] = f
  BY <1>2, <1>4 DEF TransferOk
<1> QED
  BY <1>2, <1>3, <1>4, DiskFrame DEF diskVars

LEMMA UploadedStep ==
  TypeOK /\ OwnerInv /\ DeadInv /\ CopyInv /\ PendingIsStaged /\ UploadedHasCopy /\ Next => UploadedHasCopy'
<1> SUFFICES ASSUME TypeOK, OwnerInv, DeadInv, CopyInv, PendingIsStaged, UploadedHasCopy, Next,
                    NEW f \in Files, Sole(f), fstate'[f] \in {"uploaded", "deleted"}
             PROVE  \E d \in Dests : remote'[d][PathOf[f]] = f
  BY DEF UploadedHasCopy, Sole
<1>1. fstate[f] \in {"uploaded", "deleted"} \/ Acknowledge(f)
  <2> USE DEF TypeOK
  <2>1. RowMove(f)
    BY RowFrame
  <2>2. CASE StatMissing(f) \/ StatPresent(f)
    BY <2>2 DEF StatMissing, StatPresent
  <2>3. CASE Cancelled(f) \/ ChargeAttempt(f) \/ SettleFailure(f)
    BY <2>3 DEF Cancelled, PutBack, ChargeAttempt, SettleFailure, GivesUp
  <2>4. CASE Crash
    BY <2>4 DEF Crash, ResetStuckFiles
  <2> QED
    BY <2>1, <2>2, <2>3, <2>4 DEF RowMove
<1>2. \E d \in Dests : remote[d][PathOf[f]] = f
  BY <1>1 DEF UploadedHasCopy, Acknowledge, CopyInv, DeadInv, TypeOK
<1> QED
  BY <1>2, CopyStable

LEMMA AbandonedStep ==
  TypeOK /\ OwnerInv /\ SnapInv /\ PendingIsStaged /\ AbandonedIsExhausted /\ Next
    => AbandonedIsExhausted'
<1> SUFFICES ASSUME TypeOK, OwnerInv, SnapInv, PendingIsStaged, AbandonedIsExhausted, Next,
                    NEW f \in Files, Sole(f), fstate'[f] = "abandoned"
             PROVE  attempts'[f] >= MaxAttempts
  BY DEF AbandonedIsExhausted, Sole
<1> USE ConstantsAssumption DEF TypeOK, OwnerInv, Claimed, Pending
<1>1. RowMove(f)
  BY RowFrame
<1>2. CASE UNCHANGED <<fstate[f], attempts[f]>>
  BY <1>2 DEF AbandonedIsExhausted
<1>3. ~StatMissing(f)
  BY DEF StatMissing, PendingIsStaged
<1>4. CASE SettleFailure(f)
  BY <1>4 DEF SettleFailure, GivesUp, SnapInv
<1>5. CASE StatPresent(f) \/ Cancelled(f) \/ Acknowledge(f) \/ ChargeAttempt(f)
  BY <1>5 DEF StatPresent, Cancelled, PutBack, Acknowledge, ChargeAttempt
<1>6. CASE Crash
  BY <1>6 DEF Crash, ResetStuckFiles, AbandonedIsExhausted
<1> QED
  BY <1>1, <1>2, <1>3, <1>4, <1>5, <1>6 DEF RowMove

-----------------------------------------------------------------------------
\* The invariant is inductive.
LEMMA StepInv == IInv /\ [Next]_vars => IInv'
<1> SUFFICES ASSUME IInv, [Next]_vars PROVE IInv'
  OBVIOUS
<1>1. CASE Next
  BY <1>1, TypeStep, OwnerStep, SnapStep, DeadStep, DeliveredStep, CopyStep, ReportedStep,
     PendingStep, UploadedStep, AbandonedStep DEF IInv
<1>2. CASE UNCHANGED vars
  BY <1>2 DEF IInv, vars, rowVars, diskVars, recordVars, callVars, resultVars, workerVars, histVars,
     TypeOK, OwnerInv, NoCall, SnapInv, DeadInv, DeliveredInv, TookBackup, CopyInv,
     UploadedHasCopy, PendingIsStaged, AbandonedIsExhausted, ReportedTookBackup, Sole
<1> QED
  BY <1>1, <1>2

LEMMA Invariance == Spec => []IInv
BY InitInv, StepInv, PTL DEF Spec

\* Every variable of the uploader keeps its type.
THEOREM TypeCorrect == Spec => []TypeOK
<1>1. IInv => TypeOK
  BY DEF IInv
<1> QED
  BY <1>1, Invariance, PTL

\* An uploaded row always has its content at a destination, whatever the
\* number of files, destinations, workers, cancellations and crashes.
THEOREM UploadedIsSafe == Spec => []UploadedHasCopy
<1>1. IInv => UploadedHasCopy
  BY DEF IInv
<1> QED
  BY <1>1, Invariance, PTL

\* No path through failure, cancellation or crash loses a staged copy that is
\* still needed.
THEOREM PendingIsSafe == Spec => []PendingIsStaged
<1>1. IInv => PendingIsStaged
  BY DEF IInv
<1> QED
  BY <1>1, Invariance, PTL

\* Giving up takes MaxAttempts charged cycles.
THEOREM AbandonedIsJustified == Spec => []AbandonedIsExhausted
<1>1. IInv => AbandonedIsExhausted
  BY DEF IInv
<1> QED
  BY <1>1, Invariance, PTL

\* What is reported as backed up took a backup.
THEOREM ReportedIsTrue == Spec => []ReportedTookBackup
<1>1. IInv => ReportedTookBackup
  BY DEF IInv
<1> QED
  BY <1>1, Invariance, PTL

\* No row stays uploading once the call has returned or the device restarted.
THEOREM RestIsClean == Spec => []NoUploadingAtRest
<1>1. IInv => NoUploadingAtRest
  BY DEF IInv, OwnerInv, NoUploadingAtRest, Claimed, NoCall
<1> QED
  BY <1>1, Invariance, PTL

LEMMA ChargeStep ==
  ASSUME IInv, Next, NEW f \in Files, attempts'[f] > attempts[f]
  PROVE  dests # {} /\ dests \subseteq dead
<1> USE DEF IInv, TypeOK
<1>1. RowMove(f)
  BY RowFrame
<1>2. attempts'[f] # attempts[f]
  BY DEF RowMove
<1>3. ChargeAttempt(f)
  BY <1>1, <1>2 DEF RowMove, StatMissing, StatPresent, Cancelled, PutBack, SettleFailure, GivesUp, Acknowledge, Crash
<1> QED
  BY <1>3 DEF ChargeAttempt, DeadInv, OwnerInv

\* A cycle is charged only when every destination of the call is dead.
THEOREM ChargesAreFair == Spec => ChargedOnlyWhenAllDead
<1>1. IInv /\ [Next]_vars =>
        [\A f \in Files : attempts'[f] > attempts[f] => dests # {} /\ dests \subseteq dead]_vars
  BY ChargeStep
<1> QED
  BY <1>1, Invariance, PTL DEF Spec, ChargedOnlyWhenAllDead

-----------------------------------------------------------------------------
\* Transfers to one destination, and what they can still do to it: they are
\* among the Workers goroutines, and none starts once the destination is dead.
OnDest(d) == {f \in Files : wpc[f] = "transfer" /\ wdest[f] = d}

BoundInv ==
  /\ IsFiniteSet(Active) /\ Cardinality(Active) <= Workers
  /\ \A d \in Dests : d \notin dead => failures[d] = 0
  /\ \A d \in Dests : failures[d] + Cardinality(OnDest(d)) <= Workers

\* One element more, one element less.
LEMMA OneMore ==
  ASSUME NEW S, NEW x, IsFiniteSet(S)
  PROVE  IsFiniteSet(S \cup {x}) /\ Cardinality(S \cup {x}) <= Cardinality(S) + 1
<1>1. Cardinality(S) \in Nat
  BY FS_CardinalityType
<1> QED
  BY <1>1, FS_AddElement

LEMMA OneLess ==
  ASSUME NEW S, NEW x \in S, IsFiniteSet(S)
  PROVE  Cardinality(S \ {x}) = Cardinality(S) - 1
BY FS_RemoveElement

LEMMA OnDestFinite ==
  ASSUME IsFiniteSet(Active), NEW d
  PROVE  /\ IsFiniteSet(OnDest(d)) /\ Cardinality(OnDest(d)) \in Nat /\ Cardinality(Active) \in Nat
         /\ Cardinality(OnDest(d)) <= Cardinality(Active)
<1>1. OnDest(d) \in SUBSET Active
  BY DEF OnDest, Active
<1> QED
  BY <1>1, FS_Subset, FS_CardinalityType

\* A step that starts neither a goroutine nor a transfer, and fails none,
\* keeps the bound.
LEMMA BoundFrame ==
  ASSUME TypeOK, BoundInv, Active' \subseteq Active, dead' = dead, failures' = failures,
         \A d \in Dests : OnDest(d)' \subseteq OnDest(d)
  PROVE  BoundInv'
<1> USE ConstantsAssumption DEF TypeOK
<1>1. /\ IsFiniteSet(Active') /\ Cardinality(Active') \in Nat /\ Cardinality(Active) \in Nat
      /\ Cardinality(Active') <= Cardinality(Active)
  BY FS_Subset, FS_CardinalityType DEF BoundInv
<1>2. ASSUME NEW d \in Dests
      PROVE  failures'[d] + Cardinality(OnDest(d)') <= Workers
  <2>1. IsFiniteSet(OnDest(d)) /\ Cardinality(OnDest(d)) \in Nat
    BY OnDestFinite DEF BoundInv
  <2>2. Cardinality(OnDest(d)') \in Nat /\ Cardinality(OnDest(d)') <= Cardinality(OnDest(d))
    BY <2>1, FS_Subset, FS_CardinalityType
  <2> QED
    BY <2>1, <2>2 DEF BoundInv
<1> QED
  BY <1>1, <1>2 DEF BoundInv

LEMMA BoundEnd ==
  ASSUME EndCall
  PROVE  BoundInv'
<1> USE ConstantsAssumption
<1>1. Active' = {} /\ \A d \in Dests : OnDest(d)' = {} /\ failures'[d] = 0
  BY DEF EndCall, Active, OnDest
<1> QED
  BY <1>1, FS_EmptySet DEF BoundInv

LEMMA BoundSpawn ==
  ASSUME TypeOK, BoundInv, NEW f \in Files, Spawn(f)
  PROVE  BoundInv'
<1> USE ConstantsAssumption DEF TypeOK
<1>1. Active' = Active \cup {f} /\ dead' = dead /\ failures' = failures
  BY DEF Spawn, Active, histVars
<1>2. Cardinality(Active) \in Nat /\ Cardinality(Active) + 1 <= Workers
  BY FS_CardinalityType DEF Spawn, BoundInv
<1>3. IsFiniteSet(Active') /\ Cardinality(Active') <= Workers
  <2>1. IsFiniteSet(Active \cup {f}) /\ Cardinality(Active \cup {f}) <= Cardinality(Active) + 1
    BY OneMore DEF BoundInv
  <2>2. IsFiniteSet(Active \cup {f}) /\ Cardinality(Active \cup {f}) \in Nat
    BY <2>1, FS_CardinalityType
  <2> QED
    BY <1>1, <1>2, <2>1, <2>2
<1>4. ASSUME NEW d \in Dests
      PROVE  OnDest(d)' \subseteq OnDest(d)
  BY DEF Spawn, OnDest
<1>5. ASSUME NEW d \in Dests
      PROVE  failures'[d] + Cardinality(OnDest(d)') <= Workers
  <2>1. IsFiniteSet(OnDest(d)) /\ Cardinality(OnDest(d)) \in Nat
    BY OnDestFinite DEF BoundInv
  <2>2. Cardinality(OnDest(d)') \in Nat /\ Cardinality(OnDest(d)') <= Cardinality(OnDest(d))
    BY <1>4, <2>1, FS_Subset, FS_CardinalityType
  <2> QED
    BY <1>1, <2>1, <2>2 DEF BoundInv
<1> QED
  BY <1>1, <1>3, <1>5 DEF BoundInv

\* Only a live destination is chosen: nothing has failed there yet, and those
\* transferring to it are workers.
LEMMA BoundChoose ==
  ASSUME TypeOK, BoundInv, NEW f \in Files, NEW e \in Dests, Choose(f, e)
  PROVE  BoundInv'
<1> USE ConstantsAssumption DEF TypeOK
<1>1. Active' = Active /\ dead' = dead /\ failures' = failures
  BY DEF Choose, Active
<1>2. IsFiniteSet(Active') /\ Cardinality(Active') <= Workers /\ Cardinality(Active) \in Nat
  BY <1>1, FS_CardinalityType DEF BoundInv
<1>3. failures[e] = 0
  BY DEF Choose, Candidates, BoundInv
<1>4. ASSUME NEW d \in Dests
      PROVE  failures'[d] + Cardinality(OnDest(d)') <= Workers
  <2>1. CASE d = e
    <3>1. Cardinality(OnDest(d)') \in Nat /\ Cardinality(OnDest(d)') <= Cardinality(Active')
      <4>1. OnDest(d)' \in SUBSET Active'
        BY DEF OnDest, Active
      <4> QED
        BY <1>2, <4>1, FS_Subset, FS_CardinalityType
    <3> QED
      BY <1>1, <1>2, <1>3, <2>1, <3>1
  <2>2. CASE d # e
    <3>1. OnDest(d)' = OnDest(d)
      BY <2>2 DEF Choose, OnDest
    <3> QED
      BY <1>1, <3>1 DEF BoundInv
  <2> QED
    BY <2>1, <2>2
<1> QED
  BY <1>1, <1>2, <1>4 DEF BoundInv

\* A failure is counted as its transfer leaves the destination.
LEMMA BoundFailed ==
  ASSUME TypeOK, DeadInv, BoundInv, NEW f \in Files, TransferFailed(f)
  PROVE  BoundInv'
<1> USE ConstantsAssumption DEF TypeOK
<1> DEFINE e == wdest[f]
<1>1. e \in Dests
  BY DEF TransferFailed, DeadInv
<1>2. Active' = Active /\ dead' = dead \cup {e} /\ failures' = [failures EXCEPT ![e] = @ + 1]
  BY DEF TransferFailed, MarkDead, Active
<1>3. ASSUME NEW d \in Dests
      PROVE  failures'[d] + Cardinality(OnDest(d)') <= Workers
  <2>1. IsFiniteSet(OnDest(d)) /\ Cardinality(OnDest(d)) \in Nat
    BY OnDestFinite DEF BoundInv
  <2>2. CASE d = e
    <3>1. f \in OnDest(d) /\ OnDest(d)' = OnDest(d) \ {f}
      BY <2>2 DEF TransferFailed, OnDest
    <3>2. Cardinality(OnDest(d)') = Cardinality(OnDest(d)) - 1
      <4>1. Cardinality(OnDest(d) \ {f}) = Cardinality(OnDest(d)) - 1
        BY <2>1, <3>1, OneLess
      <4> QED
        BY <3>1, <4>1
    <3> QED
      BY <1>1, <1>2, <2>1, <2>2, <3>2 DEF BoundInv
  <2>3. CASE d # e
    <3>1. OnDest(d)' = OnDest(d)
      BY <2>3 DEF TransferFailed, OnDest
    <3> QED
      BY <1>1, <1>2, <2>3, <3>1 DEF BoundInv
  <2> QED
    BY <2>2, <2>3
<1>4. \A d \in Dests : d \notin dead' => failures'[d] = 0
  BY <1>1, <1>2 DEF BoundInv
<1> QED
  BY <1>2, <1>3, <1>4 DEF BoundInv

LEMMA BoundStep == TypeOK /\ DeadInv /\ BoundInv /\ [Next]_vars => BoundInv'
<1> SUFFICES ASSUME TypeOK, DeadInv, BoundInv, [Next]_vars PROVE BoundInv'
  OBVIOUS
<1> DEFINE Keeps == /\ Active' \subseteq Active /\ dead' = dead /\ failures' = failures
                    /\ \A d \in Dests : OnDest(d)' \subseteq OnDest(d)
<1> USE DEF TypeOK, Active, OnDest, rowVars, callVars, workerVars, histVars
<1>1. ASSUME NEW D \in SUBSET Dests, StartUpload(D) PROVE Keeps
  BY <1>1 DEF StartUpload
<1>2. ASSUME NEW f \in Files, Spawn(f) PROVE BoundInv'
  BY <1>2, BoundSpawn
<1>3. ASSUME NEW f \in Files, WorkerStep(f) PROVE BoundInv'
  <2>1. ASSUME NEW d \in Dests, Choose(f, d) PROVE BoundInv'
    BY <2>1, BoundChoose
  <2>2. CASE TransferFailed(f)
    BY <2>2, BoundFailed
  <2>3. CASE StatMissing(f) \/ StatPresent(f) \/ Exhausted(f)
    <3>1. Keeps
      BY <2>3 DEF StatMissing, StatPresent, Exhausted
    <3> QED
      BY <3>1, BoundFrame
  <2>4. CASE TransferOk(f) \/ Cancelled(f) \/ ChargeAttempt(f)
    <3>1. Keeps
      BY <2>4 DEF TransferOk, Cancelled, ChargeAttempt
    <3> QED
      BY <3>1, BoundFrame
  <2>5. CASE SettleFailure(f) \/ Acknowledge(f) \/ Cleanup(f)
    <3>1. Keeps
      BY <2>5 DEF SettleFailure, Acknowledge, Cleanup
    <3> QED
      BY <3>1, BoundFrame
  <2> QED
    BY <1>3, <2>1, <2>2, <2>3, <2>4, <2>5 DEF WorkerStep
<1>4. CASE FinishUpload \/ Crash
  BY <1>4, BoundEnd DEF FinishUpload, Crash
<1>5. CASE Cancel
  <2>1. Keeps
    BY <1>5 DEF Cancel
  <2> QED
    BY <2>1, BoundFrame
<1>6. CASE UNCHANGED vars
  <2>1. Keeps
    BY <1>6 DEF vars
  <2> QED
    BY <2>1, BoundFrame
<1> QED
  BY <1>1, <1>2, <1>3, <1>4, <1>5, <1>6, BoundFrame DEF Next, UploadStep, RunningStep

LEMMA BoundInit ==
  ASSUME NoCall
  PROVE  BoundInv
<1>1. Active = {} /\ \A d \in Dests : OnDest(d) = {} /\ failures[d] = 0
  BY DEF NoCall, Active, OnDest
<1> QED
  BY <1>1, ConstantsAssumption, FS_EmptySet DEF BoundInv

LEMMA BoundHolds ==
  ASSUME TypeOK, BoundInv
  PROVE  DeadDestBound
<1> SUFFICES ASSUME NEW d \in Dests PROVE failures[d] <= Workers
  BY DEF DeadDestBound
<1>1. Cardinality(OnDest(d)) \in Nat
  BY OnDestFinite DEF BoundInv
<1> QED
  BY <1>1, ConstantsAssumption DEF BoundInv, TypeOK

\* However many files are queued, a destination that is down costs a call at
\* most one failed transfer per worker.
THEOREM DeadDestCostsLittle == Spec => []DeadDestBound
<1>1. Init => BoundInv
  BY BoundInit DEF Init
<1>2. IInv /\ BoundInv /\ [Next]_vars => BoundInv'
  BY BoundStep DEF IInv
<1>3. IInv /\ BoundInv => DeadDestBound
  BY BoundHolds DEF IInv
<1> QED
  BY <1>1, <1>2, <1>3, Invariance, PTL DEF Spec

-----------------------------------------------------------------------------
(* Refinement: rows that share their path with no other follow FileLifecycle. *)

LState == [f \in SoleFiles |-> fstate[f]]
LTries == [f \in SoleFiles |-> attempts[f]]
LCopies == [f \in SoleFiles |-> {d \in Dests : remote[d][PathOf[f]] = f}]

LEMMA LifecycleInit == Init => Lifecycle!Init
<1> SUFFICES ASSUME Init PROVE Lifecycle!Init
  OBVIOUS
<1>1. \A f \in SoleFiles : PathOf[f] \in Paths /\ f # NoFile
  BY ConstantsAssumption DEF SoleFiles
<1>2. LState \in [SoleFiles -> {"absent", "queued"}] /\ LTries = [f \in SoleFiles |-> 0]
  BY DEF Init, LState, LTries, SoleFiles
<1>3. LCopies = [f \in SoleFiles |-> {}]
  <2>1. \A f \in SoleFiles : {d \in Dests : remote[d][PathOf[f]] = f} = {}
    BY <1>1 DEF Init
  <2> QED
    BY <2>1 DEF LCopies
<1> QED
  BY <1>2, <1>3 DEF Lifecycle!Init, LState, LTries, LCopies

\* A step that moves nothing of a sole file is a stuttering step.
LEMMA Stutter ==
  ASSUME UNCHANGED <<LState, LTries, LCopies>> PROVE UNCHANGED Lifecycle!vars
BY DEF Lifecycle!vars, LState, LTries, LCopies

\* Destinations of the other files are left alone by a transfer.
LEMMA TransferCopies ==
  ASSUME IInv, NEW f \in Files, TransferOk(f)
  PROVE  LCopies' = IF f \in SoleFiles
                    THEN [LCopies EXCEPT ![f] = @ \cup {wdest[f]}] ELSE LCopies
<1> USE ConstantsAssumption DEF IInv, TypeOK
<1>1. wdest[f] \in Dests /\ PathOf[f] \in Paths
  BY DEF TransferOk, DeadInv
<1>2. ASSUME NEW g \in SoleFiles, g # f
      PROVE  \A d \in Dests : remote'[d][PathOf[g]] = remote[d][PathOf[g]]
  BY <1>1, <1>2 DEF TransferOk, SoleFiles, Sole
<1>3. ASSUME f \in SoleFiles
      PROVE  {d \in Dests : remote'[d][PathOf[f]] = f} =
             {d \in Dests : remote[d][PathOf[f]] = f} \cup {wdest[f]}
  <2>1. staged[PathOf[f]] = f
    BY <1>3 DEF TransferOk, OwnerInv, Claimed, PendingIsStaged, SoleFiles
  <2> QED
    BY <1>1, <2>1 DEF TransferOk
<1>4. ASSUME NEW g \in SoleFiles, g # f
      PROVE  {d \in Dests : remote'[d][PathOf[g]] = g} = {d \in Dests : remote[d][PathOf[g]] = g}
  BY <1>2, <1>4
<1>5. CASE f \in SoleFiles
  <2>1. \A g \in SoleFiles : LCopies'[g] = IF g = f THEN LCopies[f] \cup {wdest[f]} ELSE LCopies[g]
    BY <1>3, <1>4, <1>5 DEF LCopies
  <2> QED
    BY <1>5, <2>1 DEF LCopies
<1>6. CASE f \notin SoleFiles
  <2>1. \A g \in SoleFiles : LCopies'[g] = LCopies[g]
    BY <1>4, <1>6 DEF LCopies
  <2> QED
    BY <1>6, <2>1 DEF LCopies
<1> QED
  BY <1>5, <1>6

\* An update of a sole file's row is that update of the abstract row.
LEMMA RowUpdate ==
  ASSUME TypeOK, NEW f \in SoleFiles, NEW x
  PROVE  /\ fstate' = [fstate EXCEPT ![f] = x] => LState' = [LState EXCEPT ![f] = x]
         /\ attempts' = [attempts EXCEPT ![f] = @ + 1] => LTries' = [LTries EXCEPT ![f] = @ + 1]
         /\ LState[f] = fstate[f] /\ LTries[f] = attempts[f]
<1> USE DEF TypeOK, LState, LTries, SoleFiles
<1>1. ASSUME fstate' = [fstate EXCEPT ![f] = x] PROVE LState' = [LState EXCEPT ![f] = x]
  <2>1. \A g \in SoleFiles : LState'[g] = [LState EXCEPT ![f] = x][g]
    BY <1>1
  <2> QED
    BY <2>1
<1>2. ASSUME attempts' = [attempts EXCEPT ![f] = @ + 1] PROVE LTries' = [LTries EXCEPT ![f] = @ + 1]
  <2>1. \A g \in SoleFiles : LTries'[g] = [LTries EXCEPT ![f] = @ + 1][g]
    BY <1>2
  <2> QED
    BY <2>1
<1> QED
  BY <1>1, <1>2

LEMMA DeliverIsNext ==
  ASSUME NEW f \in SoleFiles, NEW d \in Dests, Lifecycle!Deliver(f, d) PROVE Lifecycle!Next
BY Zenon DEF Lifecycle!Next

LEMMA RequeueIsNext ==
  ASSUME NEW S \in SUBSET SoleFiles, Lifecycle!Requeue(S) PROVE Lifecycle!Next
BY Zenon DEF Lifecycle!Next

\* Every step is a step of FileLifecycle, or moves nothing of it.
LEMMA LifecycleStep == IInv /\ [Next]_vars => [Lifecycle!Next]_(Lifecycle!vars)
<1> SUFFICES ASSUME IInv, [Next]_vars PROVE Lifecycle!Next \/ UNCHANGED Lifecycle!vars
  OBVIOUS
<1> USE DEF IInv, TypeOK
<1>1. ASSUME NEW f \in Files, WorkerStep(f)
      PROVE  Lifecycle!Next \/ UNCHANGED Lifecycle!vars
  <2>1. CASE TransferOk(f)
    <3>1. UNCHANGED <<LState, LTries>>
      BY <2>1 DEF TransferOk, rowVars, LState, LTries
    <3>2. CASE f \notin SoleFiles
      BY <2>1, <3>1, <3>2, TransferCopies, Stutter
    <3>3. CASE f \in SoleFiles
      <4>1. PICK d \in Dests : d = wdest[f]
        BY <2>1 DEF TransferOk, DeadInv
      <4>2. Lifecycle!Deliver(f, d)
        BY <4>1, <2>1, <3>1, <3>3, TransferCopies
           DEF Lifecycle!Deliver, LState, LTries, LCopies, TransferOk, OwnerInv, Claimed
      <4> QED
        BY <3>3, <4>2, DeliverIsNext
    <3> QED
      BY <3>2, <3>3
  <2>2. CASE ~TransferOk(f)
    <3>1. UNCHANGED LCopies
      BY <1>1, <2>2 DEF WorkerStep, StatMissing, StatPresent, Choose, Exhausted, TransferFailed, MarkDead, Cancelled, PutBack,
         ChargeAttempt, SettleFailure, GivesUp, Acknowledge, Cleanup, Report, diskVars, LCopies
    <3>2. CASE UNCHANGED <<LState, LTries>>
      BY <3>1, <3>2, Stutter
    <3>3. CASE f \in SoleFiles /\ ~UNCHANGED <<fstate, attempts>>
      <4>1. Sole(f) /\ PathOf[f] \in Paths /\ f # NoFile
        BY <3>3, ConstantsAssumption DEF SoleFiles
      <4>2. CASE StatMissing(f)
        BY <4>1, <4>2 DEF StatMissing, PendingIsStaged, OwnerInv, Pending
      <4>3. CASE StatPresent(f)
        <5>1. LState' = [LState EXCEPT ![f] = "uploading"] /\ UNCHANGED LTries
          BY <3>3, <4>3, RowUpdate DEF StatPresent, LTries
        <5>2. LState[f] \in {"queued", "failed"}
          BY <3>3, <4>3, RowUpdate DEF StatPresent, OwnerInv, Pending
        <5>3. Lifecycle!Claim(f)
          BY <3>1, <5>1, <5>2 DEF Lifecycle!Claim, Lifecycle!Move, LState, LTries, LCopies
        <5> QED
          BY <3>3, <5>3 DEF Lifecycle!Next
      <4>4. CASE Cancelled(f)
        <5>1. fstate' = [fstate EXCEPT ![f] = "queued"] /\ UNCHANGED LTries /\ fstate[f] = "uploading"
          BY <4>4 DEF Cancelled, PutBack, LTries, OwnerInv, Claimed
        <5>2. LState' = [g \in SoleFiles |-> IF g \in {f} THEN "queued" ELSE LState[g]]
          BY <3>3, <5>1 DEF LState, SoleFiles
        <5>3. Lifecycle!Requeue({f})
          BY <3>1, <3>3, <5>1, <5>2 DEF Lifecycle!Requeue, LState, LTries, LCopies
        <5>4. {f} \in SUBSET SoleFiles
          BY <3>3
        <5> QED
          BY <5>3, <5>4, RequeueIsNext
      <4>5. CASE ChargeAttempt(f)
        <5>1. LTries' = [LTries EXCEPT ![f] = @ + 1] /\ UNCHANGED LState /\ LState[f] = "uploading"
          BY <3>3, <4>5, RowUpdate DEF ChargeAttempt, LState, OwnerInv, Claimed
        <5>2. Lifecycle!Charge(f)
          BY <3>1, <5>1 DEF Lifecycle!Charge, LState, LTries, LCopies
        <5> QED
          BY <3>3, <5>2 DEF Lifecycle!Next
      <4>6. CASE SettleFailure(f)
        <5>1. UNCHANGED LTries /\ LState[f] = "uploading" /\ LTries[f] = snap[f] + 1
          BY <3>3, <4>6, RowUpdate DEF SettleFailure, GivesUp, LTries, OwnerInv, Claimed, SnapInv
        <5>2. CASE snap[f] + 1 >= MaxAttempts
          <6>1. LState' = [LState EXCEPT ![f] = "abandoned"]
            BY <3>3, <4>6, <5>2, RowUpdate DEF SettleFailure, GivesUp
          <6>2. Lifecycle!GiveUp(f)
            BY <3>1, <5>1, <5>2, <6>1 DEF Lifecycle!GiveUp, Lifecycle!Move, LState, LTries, LCopies
          <6> QED
            BY <3>3, <6>2 DEF Lifecycle!Next
        <5>3. CASE ~(snap[f] + 1 >= MaxAttempts)
          <6>1. LState' = [LState EXCEPT ![f] = "failed"]
            BY <3>3, <4>6, <5>3, RowUpdate DEF SettleFailure, GivesUp
          <6>2. LTries[f] < MaxAttempts
            BY <5>1, <5>3, ConstantsAssumption
          <6>3. Lifecycle!Retry(f)
            BY <3>1, <5>1, <6>1, <6>2 DEF Lifecycle!Retry, Lifecycle!Move, LState, LTries, LCopies
          <6> QED
            BY <3>3, <6>3 DEF Lifecycle!Next
        <5> QED
          BY <5>2, <5>3
      <4>7. CASE Acknowledge(f)
        <5>1. LCopies[f] # {}
          BY <3>3, <4>1, <4>7 DEF Acknowledge, CopyInv, DeadInv, LCopies
        <5>2. LState' = [LState EXCEPT ![f] = "uploaded"] /\ UNCHANGED LTries /\ LState[f] = "uploading"
          BY <3>3, <4>7, RowUpdate DEF Acknowledge, LTries, OwnerInv, Claimed
        <5>3. Lifecycle!Acknowledge(f)
          BY <3>1, <5>1, <5>2 DEF Lifecycle!Acknowledge, Lifecycle!Move, LState, LTries, LCopies
        <5> QED
          BY <3>3, <5>3 DEF Lifecycle!Next
      <4> QED
        BY <1>1, <2>2, <3>3, <4>2, <4>3, <4>4, <4>5, <4>6, <4>7
           DEF WorkerStep, Choose, Exhausted, TransferFailed, MarkDead, Cleanup, Report, rowVars
    <3>4. CASE f \notin SoleFiles
      <4>1. \A g \in Files : g # f => fstate'[g] = fstate[g] /\ attempts'[g] = attempts[g]
        BY <1>1, <2>2 DEF WorkerStep, StatMissing, StatPresent, Choose, Exhausted, TransferFailed, MarkDead, Cancelled, PutBack,
           ChargeAttempt, SettleFailure, GivesUp, Acknowledge, Cleanup, Report, rowVars
      <4>2. UNCHANGED <<LState, LTries>>
        BY <3>4, <4>1 DEF LState, LTries, SoleFiles
      <4> QED
        BY <3>1, <4>2, Stutter
    <3>5. CASE UNCHANGED <<fstate, attempts>>
      BY <3>1, <3>5, Stutter DEF LState, LTries
    <3> QED
      BY <3>3, <3>4, <3>5
  <2> QED
    BY <2>1, <2>2
<1>2. CASE Crash
  <2>0. PICK S \in SUBSET SoleFiles : S = {f \in SoleFiles : fstate[f] = "uploading"}
    OBVIOUS
  <2>1. LState' = [g \in SoleFiles |-> IF g \in S THEN "queued" ELSE LState[g]]
    BY <1>2, <2>0 DEF Crash, ResetStuckFiles, LState, SoleFiles
  <2>2. UNCHANGED <<LTries, LCopies>>
    BY <1>2 DEF Crash, diskVars, LTries, LCopies
  <2>3. Lifecycle!Requeue(S)
    BY <2>0, <2>1, <2>2 DEF Lifecycle!Requeue, LState, LTries, LCopies
  <2> QED
    BY <2>3, RequeueIsNext
<1>3. CASE UNCHANGED <<fstate, attempts, remote>>
  BY <1>3, Stutter DEF LState, LTries, LCopies
<1>4. \/ \E f \in Files : WorkerStep(f)
      \/ Crash
      \/ UNCHANGED <<fstate, attempts, remote>>
  BY DEF Next, UploadStep, RunningStep, StartUpload, Spawn, FinishUpload, RecordUsed, Cancel, vars, rowVars, diskVars
<1> QED
  BY <1>1, <1>2, <1>3, <1>4

\* The uploader implements the life cycle the files table promises.
THEOREM ImplementsLifecycle == Spec => LifecycleSpec
<1>1. Spec => []IInv
  BY Invariance
<1> QED
  BY <1>1, LifecycleInit, LifecycleStep, PTL DEF Spec, LifecycleSpec, Lifecycle!Spec

-----------------------------------------------------------------------------
(* What the abstract life cycle promises whoever implements it.            *)

\* An abstract step moves one row, delivers it or charges it, or requeues some.
LEMMA PromiseStep ==
  ASSUME Lifecycle!TypeOK, Lifecycle!BackedUp, Lifecycle!AbandonedIsExhausted,
         [Lifecycle!Next]_(Lifecycle!vars)
  PROVE  Lifecycle!TypeOK' /\ Lifecycle!BackedUp' /\ Lifecycle!AbandonedIsExhausted'
<1> DEFINE Kept == Lifecycle!TypeOK' /\ Lifecycle!BackedUp' /\ Lifecycle!AbandonedIsExhausted'
<1> USE DEF Lifecycle!TypeOK, Lifecycle!FileState, Lifecycle!BackedUp, Lifecycle!AbandonedIsExhausted,
      Lifecycle!Move
<1>1. ASSUME NEW f \in SoleFiles,
             Lifecycle!Discover(f) \/ Lifecycle!Stage(f) \/ Lifecycle!Enqueue(f) \/ Lifecycle!Claim(f)
      PROVE  Kept
  BY <1>1 DEF Lifecycle!Discover, Lifecycle!Stage, Lifecycle!Enqueue, Lifecycle!Claim
<1>2. ASSUME NEW f \in SoleFiles, Lifecycle!Acknowledge(f) \/ Lifecycle!Purge(f) PROVE Kept
  BY <1>2 DEF Lifecycle!Acknowledge, Lifecycle!Purge
<1>3. ASSUME NEW f \in SoleFiles, Lifecycle!Retry(f) \/ Lifecycle!GiveUp(f) PROVE Kept
  BY <1>3 DEF Lifecycle!Retry, Lifecycle!GiveUp
<1>4. ASSUME NEW f \in SoleFiles, NEW d \in Dests, Lifecycle!Deliver(f, d) PROVE Kept
  BY <1>4 DEF Lifecycle!Deliver
<1>5. ASSUME NEW f \in SoleFiles, Lifecycle!Charge(f) PROVE Kept
  <2>1. /\ UNCHANGED <<LState, LCopies>> /\ LState[f] = "uploading"
        /\ LTries' = [LTries EXCEPT ![f] = @ + 1] /\ LTries \in [SoleFiles -> Nat]
    BY <1>5 DEF Lifecycle!Charge, LState, LTries, LCopies
  <2>2. LTries' \in [SoleFiles -> Nat] /\ \A g \in SoleFiles : g # f => LTries'[g] = LTries[g]
    BY <2>1
  <2> QED
    BY <2>1, <2>2 DEF LState, LTries, LCopies
<1>6. ASSUME NEW S \in SUBSET SoleFiles, Lifecycle!Requeue(S) PROVE Kept
  BY <1>6 DEF Lifecycle!Requeue
<1>7. CASE UNCHANGED Lifecycle!vars
  BY <1>7 DEF Lifecycle!vars
<1> QED
  BY <1>1, <1>2, <1>3, <1>4, <1>5, <1>6, <1>7 DEF Lifecycle!Next

\* Whatever implements FileLifecycle says uploaded, or purges a file from the
\* drive, only with a copy at a destination, and abandons a file only after
\* MaxAttempts charged cycles (upload.go:231-254, ingest.go:357).
THEOREM LifecyclePromises ==
  LifecycleSpec => [](Lifecycle!BackedUp /\ Lifecycle!AbandonedIsExhausted)
<1>1. Lifecycle!Init => Lifecycle!TypeOK /\ Lifecycle!BackedUp /\ Lifecycle!AbandonedIsExhausted
  BY DEF Lifecycle!Init, Lifecycle!TypeOK, Lifecycle!FileState, Lifecycle!BackedUp, Lifecycle!AbandonedIsExhausted
<1> QED
  BY <1>1, PromiseStep, PTL DEF LifecycleSpec, Lifecycle!Spec

=============================================================================
