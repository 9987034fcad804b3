------------------------- MODULE FilePipelineProofs -------------------------
(***************************************************************************)
(* What holds of a file on its whole way from the drive to a destination,  *)
(* for any files, paths, destinations, workers, cancellations and power    *)
(* failures. The uploader's invariant is taken over from UploadAllProofs:  *)
(* its own steps keep it, and a cycle touches rows and staging area only   *)
(* while no upload runs.                                                   *)
(***************************************************************************)
EXTENDS FilePipeline, UploadAllProofs

\* No upload runs, and none is due, while the device has the drive.
QuietInv == phase # "host" => call = "idle" /\ ~uploadDue

\* What is on the drive is where its row will say it is; the walk only has
\* files left that are still there.
DriveInv ==
  /\ \A p \in Paths : drive[p] # NoFile => PathOf[drive[p]] = p
  /\ \A p \in walk : drive[p] # NoFile
  /\ walk # {} \/ cur # NoFile => phase = "ingest"

\* The row of the content being ingested follows its copy, which stays whole.
CopyingInv ==
  /\ copying \in {"copy", "copied"} => fstate[cur] = "discovered"
  /\ copying = "marked" => fstate[cur] = "copied"
  /\ copying \in {"copied", "marked"} => staged[PathOf[cur]] = cur

\* Retention considers uploaded rows only, each of them once.
RetainInv ==
  /\ victims # {} \/ purging # NoFile => phase = "purge"
  /\ \A f \in victims : fstate[f] = "uploaded"
  /\ purging # NoFile => fstate[purging] = "uploaded" /\ purging \notin victims

CycleInv == QuietInv /\ DriveInv /\ CopyingInv /\ RetainInv
PipeInv == PipeTypeOK /\ IInv /\ CycleInv

-----------------------------------------------------------------------------
LEMMA PipeInitInv == PipeInit => PipeInv
<1> SUFFICES ASSUME PipeInit PROVE PipeInv
  OBVIOUS
<1> USE ConstantsAssumption DEF PipeInit, NoCall
<1>1. TypeOK
  BY DEF TypeOK, Content, FileState, Step, Dests
<1>2. PipeTypeOK
  BY <1>1 DEF PipeTypeOK
<1>3. OwnerInv /\ SnapInv /\ DeadInv /\ DeliveredInv /\ CopyInv
  BY DEF OwnerInv, SnapInv, DeadInv, DeliveredInv, CopyInv, Pending, Claimed
<1>4. UploadedHasCopy /\ PendingIsStaged /\ AbandonedIsExhausted /\ ReportedTookBackup
  BY DEF UploadedHasCopy, PendingIsStaged, AbandonedIsExhausted, ReportedTookBackup
<1>5. CycleInv
  BY DEF CycleInv, QuietInv, DriveInv, CopyingInv, RetainInv
<1> QED
  BY <1>1, <1>2, <1>3, <1>4, <1>5 DEF PipeInv, IInv

-----------------------------------------------------------------------------
(* The uploader's invariant.                                               *)

\* With no call afterwards, a change of rows and staging area that leaves no
\* row uploading, keeps what is pending staged, and neither confirms nor gives
\* up a file, keeps the uploader's invariant.
LEMMA NoCallStep ==
  ASSUME IInv, TypeOK', NoCall', UNCHANGED <<attempts, remote, recordVars>>,
         PendingIsStaged',
         \A f \in Files : /\ fstate'[f] # "uploading"
                          /\ fstate'[f] \in {"uploaded", "deleted"}
                               => fstate[f] \in {"uploaded", "deleted"}
                          /\ fstate'[f] = "abandoned" => fstate[f] = "abandoned"
  PROVE  IInv'
<1> USE DEF IInv, recordVars
<1>1. OwnerInv' /\ SnapInv' /\ DeadInv' /\ DeliveredInv' /\ CopyInv'
  BY DEF NoCall, OwnerInv, SnapInv, DeadInv, DeliveredInv, CopyInv, Claimed
<1>2. UploadedHasCopy' /\ AbandonedIsExhausted'
  BY DEF UploadedHasCopy, AbandonedIsExhausted, Sole
<1>3. ReportedTookBackup'
  BY DEF ReportedTookBackup
<1> QED
  BY <1>1, <1>2, <1>3

\* What a cycle does to a row and to the staging area.
IngestWrite ==
  \/ \E p \in Paths : Insert(p)
  \/ Copy \/ CopyFails \/ MarkCopied \/ MarkQueued \/ MarkDeleted

\* Steps of the uploader, and steps that leave its variables alone.
UploaderOrNot ==
  \/ RunningStep \/ \E D \in SUBSET Dests : StartUpload(D)
  \/ UNCHANGED vars

LEMMA StepKinds ==
  ASSUME PipeNext
  PROVE  UploaderOrNot \/ IngestWrite \/ PowerLoss
BY DEF PipeNext, UploaderOrNot, IngestWrite, HostWrite, HostDelete, BeginCycle, IngestStep, WalkStep,
     Skip, LeaveWalk, RetentionStep, BeginRetention, Purge, PurgeFails, EndRetention, Present,
     BeginUpload, UploadNothing

LEMMA UploaderStep ==
  ASSUME IInv, UploaderOrNot
  PROVE  IInv'
BY StepInv DEF UploaderOrNot, Next, UploadStep

\* A cycle writes rows and staged copies while no upload runs.
LEMMA IngestWriteStep ==
  ASSUME PipeInv, IngestWrite
  PROVE  IInv'
<1> USE ConstantsAssumption DEF PipeInv, PipeTypeOK, CycleInv, QuietInv, DriveInv, CopyingInv, RetainInv
<1>1. NoCall /\ \A f \in Files : fstate[f] # "uploading"
  <2>1. call = "idle"
    BY DEF IngestWrite, Insert, Copy, CopyFails, MarkCopied, MarkQueued, MarkDeleted
  <2> QED
    BY <2>1 DEF IInv, OwnerInv, NoCall, Claimed
<1>2. NoCall' /\ UNCHANGED <<attempts, remote, recordVars, cancels, crashes, sent>>
  BY <1>1 DEF IngestWrite, Insert, Copy, CopyFails, MarkCopied, MarkQueued, MarkDeleted, NoCall,
       uploadSide, rowVars, diskVars, callVars, resultVars, workerVars, histVars, recordVars
<1>3. TypeOK'
  <2>1. fstate' \in [Files -> FileState]
    <3> USE DEF TypeOK, FileState
    <3>1. CASE UNCHANGED fstate
      BY <3>1
    <3>2. ASSUME NEW p \in Paths, Insert(p) PROVE <2>1!:
      BY <3>2 DEF Insert, NewRowState
    <3>3. CASE MarkCopied \/ MarkQueued \/ MarkDeleted
      BY <3>3 DEF MarkCopied, MarkQueued, MarkDeleted
    <3> QED
      BY <3>1, <3>2, <3>3 DEF IngestWrite, Copy, CopyFails, rowVars
  <2>2. staged' \in [Paths -> Content]
    BY DEF IngestWrite, Insert, Copy, CopyFails, MarkCopied, MarkQueued, MarkDeleted, TypeOK, Content, diskVars
  <2> QED
    BY <1>2, <2>1, <2>2 DEF TypeOK, NoCall, Step, recordVars
<1>4. \A f \in Files : /\ fstate'[f] # "uploading"
                       /\ fstate'[f] \in {"uploaded", "deleted"} => fstate[f] \in {"uploaded", "deleted"}
                       /\ fstate'[f] = "abandoned" => fstate[f] = "abandoned"
  BY <1>1 DEF IngestWrite, Insert, NewRowState, Copy, CopyFails, MarkCopied, MarkQueued, MarkDeleted, TypeOK, rowVars
<1>5. PendingIsStaged'
  <2> SUFFICES ASSUME NEW f \in Files, Sole(f), fstate'[f] \in {"queued", "failed", "uploading"}
               PROVE  staged'[PathOf[f]] = f
    BY DEF PendingIsStaged, Sole
  <2>1. CASE MarkQueued /\ f = cur
    BY <2>1 DEF MarkQueued, diskVars
  <2>2. CASE fstate[f] \in {"queued", "failed", "uploading"}
    <3>1. staged[PathOf[f]] = f
      BY <2>2 DEF IInv, PendingIsStaged
    <3>2. CASE UNCHANGED staged
      BY <3>1, <3>2
    <3>3. CASE Copy \/ CopyFails
      <4>1. cur \in Files /\ cur # f
        BY <2>2, <3>3 DEF Copy, CopyFails, TypeOK
      <4>2. PathOf[cur] # PathOf[f]
        BY <4>1 DEF Sole
      <4> QED
        BY <3>1, <3>3, <4>1, <4>2 DEF Copy, CopyFails, TypeOK
    <3> QED
      BY <3>2, <3>3 DEF IngestWrite, Insert, MarkCopied, MarkQueued, MarkDeleted, diskVars
  <2>3. (MarkQueued /\ f = cur) \/ fstate[f] \in {"queued", "failed", "uploading"}
    BY DEF IngestWrite, Insert, NewRowState, Copy, CopyFails, MarkCopied, MarkQueued, MarkDeleted, TypeOK, rowVars
  <2> QED
    BY <2>1, <2>2, <2>3
<1> QED
  BY <1>2, <1>3, <1>4, <1>5, NoCallStep

\* A copy cut off is of a file whose row is not queued yet.
LEMMA PowerLossStep ==
  ASSUME PipeInv, PowerLoss
  PROVE  IInv'
<1> USE ConstantsAssumption DEF PipeInv, PipeTypeOK, CycleInv, CopyingInv
<1>1. NoCall' /\ UNCHANGED <<attempts, remote, recordVars>>
  BY DEF PowerLoss, EndCall, NoCall
<1>2. TypeOK'
  <2>1. fstate' \in [Files -> FileState]
    BY DEF PowerLoss, ResetStuckFiles, TypeOK, FileState
  <2>2. staged' \in [Paths -> Content]
    BY DEF PowerLoss, TypeOK, Content
  <2>3. crashes' \in Nat /\ UNCHANGED <<cancels, sent>>
    BY DEF PowerLoss, TypeOK
  <2> QED
    BY <1>1, <2>1, <2>2, <2>3 DEF TypeOK, NoCall, Step, recordVars
<1>3. \A f \in Files : fstate'[f] = IF fstate[f] = "uploading" THEN "queued" ELSE fstate[f]
  BY DEF PowerLoss, ResetStuckFiles
<1>4. PendingIsStaged'
  <2> SUFFICES ASSUME NEW f \in Files, Sole(f), fstate'[f] \in {"queued", "failed", "uploading"}
               PROVE  staged'[PathOf[f]] = f
    BY DEF PendingIsStaged, Sole
  <2>1. fstate[f] \in {"queued", "failed", "uploading"}
    BY <1>3
  <2>2. staged[PathOf[f]] = f
    BY <2>1 DEF IInv, PendingIsStaged
  <2>3. ASSUME copying = "copy", NEW x, staged' = [staged EXCEPT ![PathOf[cur]] = x]
        PROVE  staged'[PathOf[f]] = f
    <3>1. cur \in Files /\ cur # f
      BY <2>1, <2>3
    <3>2. PathOf[cur] # PathOf[f]
      BY <3>1 DEF Sole
    <3> QED
      BY <2>2, <2>3, <3>2 DEF TypeOK
  <2> QED
    BY <2>2, <2>3 DEF PowerLoss
<1> QED
  BY <1>1, <1>2, <1>3, <1>4, NoCallStep

LEMMA UploadInvStep == PipeInv /\ [PipeNext]_allVars => IInv'
<1> SUFFICES ASSUME PipeInv, [PipeNext]_allVars PROVE IInv'
  OBVIOUS
<1>1. CASE PipeNext
  BY <1>1, StepKinds, UploaderStep, IngestWriteStep, PowerLossStep DEF PipeInv
<1>2. CASE UNCHANGED allVars
  BY <1>2, UploaderStep DEF allVars, UploaderOrNot, PipeInv
<1> QED
  BY <1>1, <1>2

-----------------------------------------------------------------------------
(* The cycle's own invariant.                                              *)

\* Steps of the uploader leave the cycle alone, and what a cycle relies on is
\* out of their reach, since there are none while it has the drive.
LEMMA CycleKeptByUploader ==
  ASSUME PipeInv, RunningStep, UNCHANGED pipeVars
  PROVE  CycleInv'
<1> USE DEF PipeInv, PipeTypeOK, CycleInv, QuietInv, DriveInv, CopyingInv, RetainInv, pipeVars, ingestVars, retainVars
<1>1. phase = "host"
  BY DEF RunningStep, Spawn, WorkerStep, StatMissing, StatPresent, Choose, Exhausted, TransferOk, TransferFailed,
       Cancelled, ChargeAttempt, SettleFailure, Acknowledge, Cleanup, FinishUpload, Cancel, IInv, OwnerInv
<1> QED
  BY <1>1

LEMMA CycleStep ==
  ASSUME PipeInv, PipeNext
  PROVE  CycleInv' /\ PipeTypeOK'
<1> USE ConstantsAssumption DEF PipeInv, PipeTypeOK, CycleInv, QuietInv, DriveInv, CopyingInv, RetainInv, Visited, EndIngest
<1>0. TypeOK'
  BY UploadInvStep DEF IInv
<1> USE <1>0 DEF ingestVars, retainVars
<1> HIDE DEF PipeInv
<1>inv. PipeTypeOK /\ CycleInv
  BY DEF PipeInv
<1>1. ASSUME NEW f \in Files, HostWrite(f) PROVE CycleInv' /\ PipeTypeOK'
  BY <1>1, <1>inv DEF HostWrite, vars, rowVars, callVars
<1>2. ASSUME NEW p \in Paths, HostDelete(p) PROVE CycleInv' /\ PipeTypeOK'
  BY <1>2, <1>inv DEF HostDelete, vars, rowVars, callVars
<1>3. CASE BeginCycle
  BY <1>3, <1>inv DEF BeginCycle, vars, rowVars, callVars
<1>4. ASSUME NEW p \in Paths, Skip(p) PROVE CycleInv' /\ PipeTypeOK'
  BY <1>4, <1>inv DEF Skip, vars, rowVars, diskVars, callVars
<1>5. ASSUME NEW p \in Paths, Insert(p) PROVE CycleInv' /\ PipeTypeOK'
  BY <1>5, <1>inv DEF Insert, NewRowState, TypeOK, uploadSide, diskVars, callVars
<1>6. CASE Copy
  BY <1>6, <1>inv DEF Copy, TypeOK, rowVars, uploadSide, callVars
<1>7. CASE CopyFails
  BY <1>7, <1>inv DEF CopyFails, rowVars, uploadSide, callVars
<1>8. CASE MarkCopied
  BY <1>8, <1>inv DEF MarkCopied, TypeOK, uploadSide, diskVars, callVars
<1>9. CASE MarkQueued
  BY <1>9, <1>inv DEF MarkQueued, TypeOK, uploadSide, diskVars, callVars
<1>10. CASE LeaveWalk
  BY <1>10, <1>inv DEF LeaveWalk, vars, rowVars, callVars
<1>11. CASE BeginRetention
  BY <1>11, <1>inv DEF BeginRetention, EligibleForDeletion, vars, rowVars, diskVars, callVars
<1>12. ASSUME NEW f \in Files, Purge(f) PROVE CycleInv' /\ PipeTypeOK'
  BY <1>12, <1>inv DEF Purge, vars, rowVars, diskVars, callVars
<1>13. ASSUME NEW f \in Files, PurgeFails(f) PROVE CycleInv' /\ PipeTypeOK'
  BY <1>13, <1>inv DEF PurgeFails, vars, rowVars, diskVars, callVars
<1>14. CASE MarkDeleted
  BY <1>14, <1>inv DEF MarkDeleted, TypeOK, uploadSide, diskVars, callVars
<1>15. CASE EndRetention \/ Present
  <2>1. CASE EndRetention
    BY <2>1, <1>inv DEF EndRetention, vars, rowVars, diskVars, callVars
  <2>2. CASE Present
    <3>1. uploadDue' \in BOOLEAN
      BY <2>2 DEF Present
    <3> QED
      BY <2>2, <3>1, <1>inv DEF Present, vars, rowVars, diskVars, callVars
  <2> QED
    BY <1>15, <2>1, <2>2
<1>16. ASSUME NEW D \in SUBSET Dests, BeginUpload(D) PROVE CycleInv' /\ PipeTypeOK'
  BY <1>16, <1>inv DEF BeginUpload, StartUpload, rowVars, diskVars
<1>17. CASE UploadNothing
  BY <1>17, <1>inv DEF UploadNothing, vars, rowVars, diskVars, callVars
<1>18. CASE RunningStep /\ UNCHANGED pipeVars
  BY <1>18, <1>inv, CycleKeptByUploader DEF pipeVars
<1>19. CASE PowerLoss
  BY <1>19, <1>inv DEF PowerLoss, EndCall
<1> QED
  BY <1>1, <1>2, <1>3, <1>4, <1>5, <1>6, <1>7, <1>8, <1>9, <1>10, <1>11, <1>12, <1>13, <1>14, <1>15, <1>16, <1>17,
     <1>18, <1>19 DEF PipeNext, IngestStep, WalkStep, RetentionStep

LEMMA PipeInvariance == PipeSpec => []PipeInv
<1>1. PipeInv /\ [PipeNext]_allVars => PipeInv'
  <2> SUFFICES ASSUME PipeInv, [PipeNext]_allVars PROVE PipeInv'
    OBVIOUS
  <2>1. IInv'
    BY UploadInvStep
  <2>2. CASE PipeNext
    BY <2>1, <2>2, CycleStep DEF PipeInv
  <2>3. CASE UNCHANGED allVars
    BY <2>1, <2>3 DEF PipeInv, IInv, PipeTypeOK, CycleInv, QuietInv, DriveInv, CopyingInv, RetainInv, allVars, vars,
         pipeVars, ingestVars, retainVars, rowVars, diskVars, callVars
  <2> QED
    BY <2>2, <2>3
<1> QED
  BY <1>1, PipeInitInv, PTL DEF PipeSpec

-----------------------------------------------------------------------------
\* Every variable of the pipeline keeps its type, and no step of ingest or
\* retention is left dangling outside its phase.
THEOREM PipeTypeCorrect == PipeSpec => []PipeTypeOK
<1>1. PipeInv => PipeTypeOK
  BY DEF PipeInv
<1> QED
  BY <1>1, PipeInvariance, PTL

\* With discovery, ingest and retention around the uploader and power failing
\* anywhere, a file that shares its path with no other is uploaded or deleted
\* only with a copy, staged whole while pending, and given up only when its
\* attempts are used up.
THEOREM RowsKeepTheirWord == PipeSpec => [](UploadedHasCopy /\ PendingIsStaged /\ AbandonedIsExhausted)
<1>1. PipeInv => UploadedHasCopy /\ PendingIsStaged /\ AbandonedIsExhausted
  BY DEF PipeInv, IInv
<1> QED
  BY <1>1, PipeInvariance, PTL

\* A destination recorded as backed up keeps something for good: neither
\* ingest nor retention takes anything from a destination.
THEOREM RecordsStayTrue == PipeSpec => []ReportedTookBackup
<1>1. PipeInv => ReportedTookBackup
  BY DEF PipeInv, IInv
<1> QED
  BY <1>1, PipeInvariance, PTL

\* Between calls no row is left uploading, whatever a cycle does in between.
THEOREM PipeRestIsClean == PipeSpec => []NoUploadingAtRest
<1>1. PipeInv => NoUploadingAtRest
  BY DEF PipeInv, IInv, OwnerInv, NoUploadingAtRest, Claimed, NoCall
<1> QED
  BY <1>1, PipeInvariance, PTL

\* A failed cycle is charged to a file only when all destinations of its call
\* are dead; nothing a cycle or a restart does to the rows charges one.
THEOREM PipeChargesAreFair == PipeSpec => ChargedOnlyWhenAllDead
<1>1. PipeInv /\ [PipeNext]_allVars =>
        [\A f \in Files : attempts'[f] > attempts[f] => dests # {} /\ dests \subseteq dead]_vars
  <2> SUFFICES ASSUME PipeInv, PipeNext, NEW f \in Files, attempts'[f] > attempts[f]
               PROVE  dests # {} /\ dests \subseteq dead
    BY DEF allVars, vars
  <2>1. attempts[f] \in Nat
    BY DEF PipeInv, IInv, TypeOK
  <2>2. attempts' # attempts
    BY <2>1
  <2>3. Next
    BY <2>2, StepKinds DEF UploaderOrNot, IngestWrite, Insert, Copy, CopyFails, MarkCopied, MarkQueued, MarkDeleted,
         PowerLoss, Next, UploadStep, vars, rowVars
  <2> QED
    BY <2>3, ChargeStep DEF PipeInv
<1> QED
  BY <1>1, PipeInvariance, PTL DEF PipeSpec, ChargedOnlyWhenAllDead

LEMMA PipeBoundStep == PipeInv /\ BoundInv /\ [PipeNext]_allVars => BoundInv'
<1> SUFFICES ASSUME PipeInv, BoundInv, [PipeNext]_allVars PROVE BoundInv'
  OBVIOUS
<1>1. TypeOK /\ DeadInv
  BY DEF PipeInv, IInv
<1>2. CASE UploaderOrNot \/ UNCHANGED allVars
  BY <1>1, <1>2, BoundStep DEF UploaderOrNot, Next, UploadStep, allVars
<1>3. CASE IngestWrite
  <2>1. UNCHANGED <<wpc, wdest, dead, failures>>
    BY <1>3 DEF IngestWrite, Insert, Copy, CopyFails, MarkCopied, MarkQueued, MarkDeleted, uploadSide, workerVars, histVars
  <2> QED
    BY <1>1, <2>1, BoundFrame DEF Active, OnDest
<1>4. CASE PowerLoss
  BY <1>4, BoundEnd DEF PowerLoss
<1> QED
  BY <1>2, <1>3, <1>4, StepKinds

\* In the pipeline too a destination that is down costs a call at most one
\* failed transfer per worker, however many files ingest has queued.
THEOREM PipeDeadDestCostsLittle == PipeSpec => []DeadDestBound
<1>1. PipeInit => BoundInv
  BY BoundInit DEF PipeInit
<1>2. PipeInv /\ BoundInv => DeadDestBound
  BY BoundHolds DEF PipeInv, IInv
<1> QED
  BY <1>1, <1>2, PipeBoundStep, PipeInvariance, PTL DEF PipeSpec

\* Only retention's os.Remove changes the drive during the purge; what it
\* removes at a path is the content whose uploaded row named that path, unless
\* another content came to that path later.
LEMMA PurgeStep ==
  ASSUME PipeInv, PipeNext, NEW p \in Paths, phase = "purge", drive'[p] # drive[p],
         drive[p] \in Files => Sole(drive[p])
  PROVE  \E d \in Dests : remote[d][p] = drive[p]
<1> USE ConstantsAssumption DEF PipeInv, PipeTypeOK, CycleInv, DriveInv, QuietInv, CopyingInv
<1>1. PICK f \in Files : Purge(f)
  <2>1. phase # "host" /\ phase # "present"
    OBVIOUS
  <2> QED
    BY <2>1 DEF PipeNext, IngestStep, WalkStep, RetentionStep, HostWrite, HostDelete, BeginCycle, Skip, Insert, Copy, CopyFails,
         MarkCopied, MarkQueued, LeaveWalk, BeginRetention, PurgeFails, MarkDeleted, EndRetention, Present,
         BeginUpload, UploadNothing, PowerLoss, pipeVars
<1>2. p = PathOf[f] /\ drive[p] # NoFile
  BY <1>1 DEF Purge
<1>3. drive[p] = f
  BY <1>2 DEF Sole
<1>4. fstate[f] = "uploaded"
  BY <1>1 DEF Purge, RetainInv
<1> QED
  BY <1>2, <1>3, <1>4 DEF IInv, UploadedHasCopy

\* No two contents were ever recorded under one name.
NamesAreUnique == \A f \in Files : Sole(f)

\* If the host reuses no file name, retention removes from the drive only what
\* some destination holds, byte for byte. (The run FilePipelineReusedName
\* shows that it is the reuse of names that breaks this.)
THEOREM RetentionKeepsBackups == NamesAreUnique => (PipeSpec => RetentionIsSafe)
<1> SUFFICES ASSUME NamesAreUnique PROVE PipeSpec => RetentionIsSafe
  OBVIOUS
<1>1. PipeInv /\ [PipeNext]_allVars =>
        [\A p \in Paths : phase = "purge" /\ drive'[p] # drive[p] =>
           \E d \in Dests : remote[d][p] = drive[p]]_allVars
  <2> SUFFICES ASSUME PipeInv, PipeNext, NEW p \in Paths, phase = "purge", drive'[p] # drive[p]
               PROVE  \E d \in Dests : remote[d][p] = drive[p]
    OBVIOUS
  <2> QED
    BY PurgeStep DEF NamesAreUnique
<1> QED
  BY <1>1, PipeInvariance, PTL DEF PipeSpec, RetentionIsSafe

\* Where a file's row becomes uploaded, the destination it was sent to holds
\* its own content, if it shares its path with no other.
LEMMA ConfirmStep ==
  ASSUME PipeInv, PipeNext, NEW f \in Files, Sole(f), fstate[f] # "uploaded", fstate'[f] = "uploaded"
  PROVE  remote[wdest[f]][PathOf[f]] = f
<1> USE DEF PipeInv, IInv
<1>1. Next
  <2>1. ~PowerLoss /\ ~IngestWrite /\ ~UNCHANGED vars
    BY DEF PowerLoss, ResetStuckFiles, IngestWrite, Insert, NewRowState, Copy, CopyFails, MarkCopied, MarkQueued, MarkDeleted,
         TypeOK, vars, rowVars
  <2> QED
    BY <2>1, StepKinds DEF UploaderOrNot, Next, UploadStep
<1>2. Acknowledge(f)
  BY <1>1, RowFrame DEF RowMove, StatMissing, StatPresent, Cancelled, PutBack, ChargeAttempt, SettleFailure, GivesUp,
       Crash, ResetStuckFiles, rowVars, TypeOK
<1> QED
  BY <1>2 DEF Acknowledge, CopyInv

\* If the host reuses no file name, "Confirmed at destination" is true of the
\* content the row is about.
THEOREM ConfirmationIsTrue == NamesAreUnique => (PipeSpec => ConfirmedIsOwnContent)
<1> SUFFICES ASSUME NamesAreUnique PROVE PipeSpec => ConfirmedIsOwnContent
  OBVIOUS
<1>1. PipeInv /\ [PipeNext]_allVars =>
        [\A f \in Files : fstate[f] # "uploaded" /\ fstate'[f] = "uploaded" =>
           remote[wdest[f]][PathOf[f]] = f]_allVars
  BY ConfirmStep DEF NamesAreUnique
<1> QED
  BY <1>1, PipeInvariance, PTL DEF PipeSpec, ConfirmedIsOwnContent

-----------------------------------------------------------------------------
(* Refinement: from discovery to deletion, rows follow FileLifecycle.      *)

LEMMA PipeLifecycleInit == PipeInit => Lifecycle!Init
<1> SUFFICES ASSUME PipeInit PROVE Lifecycle!Init
  OBVIOUS
<1>1. \A f \in SoleFiles : PathOf[f] \in Paths /\ f # NoFile
  BY ConstantsAssumption DEF SoleFiles
<1>2. LState \in [SoleFiles -> {"absent", "queued"}] /\ LTries = [f \in SoleFiles |-> 0]
  BY DEF PipeInit, LState, LTries, SoleFiles
<1>3. LCopies = [f \in SoleFiles |-> {}]
  <2>1. \A f \in SoleFiles : {d \in Dests : remote[d][PathOf[f]] = f} = {}
    BY <1>1 DEF PipeInit
  <2> QED
    BY <2>1 DEF LCopies
<1> QED
  BY <1>2, <1>3 DEF Lifecycle!Init, LState, LTries, LCopies

\* Discovery, staging, queueing and purging of a row are those of the abstract row.
LEMMA CycleMove ==
  ASSUME TypeOK, NEW f \in Files, NEW x, fstate' = [fstate EXCEPT ![f] = x], UNCHANGED <<attempts, remote>>,
         \/ fstate[f] = "absent" /\ x = "discovered"
         \/ fstate[f] = "discovered" /\ x = "copied"
         \/ fstate[f] = "copied" /\ x = "queued"
         \/ fstate[f] = "uploaded" /\ x = "deleted"
  PROVE  Lifecycle!Next \/ UNCHANGED Lifecycle!vars
<1>1. UNCHANGED <<LTries, LCopies>>
  BY DEF LTries, LCopies
<1>2. CASE f \notin SoleFiles
  <2>1. UNCHANGED LState
    BY <1>2 DEF LState, SoleFiles, TypeOK
  <2> QED
    BY <1>1, <2>1, Stutter
<1>3. CASE f \in SoleFiles
  <2>1. LState' = [LState EXCEPT ![f] = x] /\ LState[f] = fstate[f]
    BY <1>3, RowUpdate
  <2>2. Lifecycle!Discover(f) \/ Lifecycle!Stage(f) \/ Lifecycle!Enqueue(f) \/ Lifecycle!Purge(f)
    BY <1>1, <2>1 DEF Lifecycle!Discover, Lifecycle!Stage, Lifecycle!Enqueue, Lifecycle!Purge, Lifecycle!Move,
         LState, LTries, LCopies
  <2> QED
    BY <1>3, <2>2 DEF Lifecycle!Next
<1> QED
  BY <1>2, <1>3

LEMMA IngestWriteIsLifecycle ==
  ASSUME PipeInv, IngestWrite
  PROVE  Lifecycle!Next \/ UNCHANGED Lifecycle!vars
<1> USE DEF PipeInv, PipeTypeOK, CycleInv, DriveInv, CopyingInv, RetainInv, rowVars, diskVars
<1>1. CASE Copy \/ CopyFails
  <2>1. UNCHANGED <<fstate, attempts, remote>>
    BY <1>1 DEF Copy, CopyFails
  <2> QED
    BY <2>1, Stutter DEF LState, LTries, LCopies
<1>2. ASSUME NEW p \in Paths, Insert(p) PROVE Lifecycle!Next \/ UNCHANGED Lifecycle!vars
  BY <1>2, CycleMove DEF Insert, NewRowState
<1>3. CASE MarkCopied
  BY <1>3, CycleMove DEF MarkCopied
<1>4. CASE MarkQueued
  BY <1>4, CycleMove DEF MarkQueued
<1>5. CASE MarkDeleted
  BY <1>5, CycleMove DEF MarkDeleted
<1> QED
  BY <1>1, <1>2, <1>3, <1>4, <1>5 DEF IngestWrite

LEMMA PowerLossIsLifecycle ==
  ASSUME PowerLoss
  PROVE  Lifecycle!Next
<1>1. PICK S \in SUBSET SoleFiles : S = {f \in SoleFiles : fstate[f] = "uploading"}
  OBVIOUS
<1>2. LState' = [g \in SoleFiles |-> IF g \in S THEN "queued" ELSE LState[g]]
  BY <1>1 DEF PowerLoss, ResetStuckFiles, LState, SoleFiles
<1>3. UNCHANGED <<LTries, LCopies>>
  BY DEF PowerLoss, LTries, LCopies
<1>4. Lifecycle!Requeue(S)
  BY <1>1, <1>2, <1>3 DEF Lifecycle!Requeue, LState, LTries, LCopies
<1> QED
  BY <1>4, RequeueIsNext

\* The whole pipeline implements the life cycle the files table promises:
\* every step is a step of FileLifecycle or moves nothing of it.
THEOREM PipeImplementsLifecycle == PipeSpec => LifecycleSpec
<1>1. PipeInv /\ [PipeNext]_allVars => [Lifecycle!Next]_(Lifecycle!vars)
  <2> SUFFICES ASSUME PipeInv, [PipeNext]_allVars PROVE Lifecycle!Next \/ UNCHANGED Lifecycle!vars
    OBVIOUS
  <2>1. CASE UploaderOrNot
    BY <2>1, LifecycleStep DEF UploaderOrNot, Next, UploadStep, PipeInv
  <2>2. CASE IngestWrite
    BY <2>2, IngestWriteIsLifecycle
  <2>3. CASE PowerLoss
    BY <2>3, PowerLossIsLifecycle
  <2>4. CASE UNCHANGED allVars
    <3>1. [Next]_vars
      BY <2>4 DEF allVars
    <3> QED
      BY <3>1, LifecycleStep DEF PipeInv
  <2> QED
    BY <2>1, <2>2, <2>3, <2>4, StepKinds
<1> QED
  BY <1>1, PipeInvariance, PipeLifecycleInit, PTL DEF PipeSpec, LifecycleSpec, Lifecycle!Spec
=============================================================================
