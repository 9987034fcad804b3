---------------------------- MODULE FilePipeline ----------------------------
(***************************************************************************)
(* A file's way from the drive to the destinations: the host writes the    *)
(* drive, a maintenance cycle mounts it, ingests new contents into the     *)
(* staging area (internal/ingest/ingest.go Run), frees space (ApplyReten-  *)
(* tion), hands the drive back, and UploadAll sends what is queued. Power  *)
(* may fail anywhere. How cycles are triggered and interrupted is the      *)
(* subject of module Maintenance.                                          *)
(***************************************************************************)
EXTENDS UploadAll

CONSTANTS Ignored,     \* paths the ignore rules and the provisioning sentinels exclude
          RetainFrom   \* files on the drive at which usage reaches the threshold

ASSUME PipelineAssumption == Ignored \subseteq Paths /\ RetainFrom \in Nat

VARIABLES
  drive,      \* [Paths -> Files \cup {NoFile}], the USB drive's files
  phase,      \* "host": the host owns the drive; else the step of the cycle
  walk,       \* paths WalkDir has not visited yet
  cur,        \* content being ingested, NoFile between files
  copying,    \* step of cur: "copy", "copied", "marked"; "none" between files
  copiedAny,  \* result.FilesCopied > 0
  victims,    \* uploaded rows retention has still to consider
  purging,    \* content removed from the drive whose row is not updated yet
  uploadDue   \* the cycle has started the upload goroutine

ingestVars == <<walk, cur, copying, copiedAny>>
retainVars == <<victims, purging>>
pipeVars == <<drive, phase, ingestVars, retainVars, uploadDue>>
allVars == <<vars, pipeVars>>
uploadSide == <<recordVars, callVars, dead, resultVars, workerVars, histVars>>

PipeTypeOK ==
  /\ TypeOK
  /\ drive \in [Paths -> Files \cup {NoFile}]
  /\ phase \in {"host", "ingest", "retain", "purge", "present"}
  /\ walk \subseteq Paths /\ cur \in Files \cup {NoFile}
  /\ copying \in {"none", "copy", "copied", "marked"} /\ copiedAny \in BOOLEAN
  /\ copying # "none" <=> cur # NoFile /\ phase = "ingest"
  /\ victims \subseteq Files /\ purging \in Files \cup {NoFile} /\ uploadDue \in BOOLEAN

PipeInit ==
  /\ fstate = [f \in Files |-> "absent"] /\ attempts = [f \in Files |-> 0]
  /\ staged = [p \in Paths |-> NoFile]
  /\ remote = [d \in Dests |-> [p \in Paths |-> NoFile]]
  /\ reported = {} /\ lastSyncDest = 0 /\ cancels = 0 /\ crashes = 0 /\ sent = {}
  /\ NoCall
  /\ drive = [p \in Paths |-> NoFile] /\ phase = "host"
  /\ walk = {} /\ cur = NoFile /\ copying = "none" /\ copiedAny = FALSE
  /\ victims = {} /\ purging = NoFile /\ uploadDue = FALSE

-----------------------------------------------------------------------------
(* The host, while it owns the drive (uploads go on meanwhile).            *)

\* Recording a file, or replacing the one of that path.
HostWrite(f) ==
  /\ phase = "host" /\ drive[PathOf[f]] # f
  /\ drive' = [drive EXCEPT ![PathOf[f]] = f]
  /\ UNCHANGED <<vars, phase, ingestVars, retainVars, uploadDue>>

HostDelete(p) ==
  /\ phase = "host" /\ drive[p] # NoFile
  /\ drive' = [drive EXCEPT ![p] = NoFile]
  /\ UNCHANGED <<vars, phase, ingestVars, retainVars, uploadDue>>

-----------------------------------------------------------------------------
(* Ingest.                                                                 *)

\* One cycle at a time: Maintenance says when runMaintenance's check of the
\* state keeps cycles apart and when it does not.
BeginCycle ==
  /\ phase = "host" /\ call = "idle" /\ ~uploadDue
  /\ phase' = "ingest" /\ copiedAny' = FALSE
  /\ walk' = {p \in Paths \ Ignored : drive[p] # NoFile}
  /\ UNCHANGED <<vars, drive, cur, copying, retainVars, uploadDue>>

\* Mutant: a visited file is visited again.
VisitedNot(p) == UNCHANGED walk

Visited(p) == walk' = walk \ {p}

\* A content with any row at all is skipped, whatever the row's state.
Skip(p) ==
  /\ phase = "ingest" /\ cur = NoFile /\ p \in walk
  /\ fstate[drive[p]] # "absent"
  /\ Visited(p)
  /\ UNCHANGED <<vars, drive, phase, cur, copying, copiedAny, retainVars, uploadDue>>

NewRowState == "discovered"

Insert(p) ==
  /\ phase = "ingest" /\ cur = NoFile /\ p \in walk
  /\ fstate[drive[p]] = "absent"
  /\ fstate' = [fstate EXCEPT ![drive[p]] = NewRowState]
  /\ cur' = drive[p] /\ copying' = "copy"
  /\ Visited(p)
  /\ UNCHANGED <<attempts, diskVars, uploadSide, drive, phase, copiedAny, retainVars, uploadDue>>

\* copyAndVerify: the staged file is replaced, synced and compared.
Copy ==
  /\ copying = "copy"
  /\ staged' = [staged EXCEPT ![PathOf[cur]] = cur]
  /\ copying' = "copied"
  /\ UNCHANGED <<rowVars, remote, uploadSide, drive, phase, walk, cur, copiedAny, retainVars, uploadDue>>

\* Mutant: the error leaves the file's step behind.
EndIngestDangling == phase' = "retain" /\ walk' = {} /\ cur' = NoFile /\ UNCHANGED copying

EndIngest == phase' = "retain" /\ walk' = {} /\ cur' = NoFile /\ copying' = "none"

\* Before os.Create nothing is touched; after it the partial copy is removed.
\* Either way the error ends the walk and the row stays discovered.
CopyFails ==
  /\ copying = "copy"
  /\ \/ UNCHANGED staged
     \/ staged' = [staged EXCEPT ![PathOf[cur]] = NoFile]
  /\ EndIngest
  /\ UNCHANGED <<rowVars, remote, uploadSide, drive, copiedAny, retainVars, uploadDue>>

MarkCopied ==
  /\ copying = "copied"
  /\ fstate' = [fstate EXCEPT ![cur] = "copied"]
  /\ copying' = "marked"
  /\ UNCHANGED <<attempts, diskVars, uploadSide, drive, phase, walk, cur, copiedAny, retainVars, uploadDue>>

MarkQueued ==
  /\ copying = "marked"
  /\ fstate' = [fstate EXCEPT ![cur] = "queued"]
  /\ cur' = NoFile /\ copying' = "none" /\ copiedAny' = TRUE
  /\ UNCHANGED <<attempts, diskVars, uploadSide, drive, phase, walk, retainVars, uploadDue>>

\* The walk is over, or cut short: provisioning failed, a read failed.
LeaveWalk ==
  /\ phase = "ingest" /\ cur = NoFile
  /\ EndIngest
  /\ UNCHANGED <<vars, drive, copiedAny, retainVars, uploadDue>>

-----------------------------------------------------------------------------
(* Retention, with the drive still mounted.                                *)

OverThreshold == Cardinality({p \in Paths : drive[p] # NoFile}) >= RetainFrom

\* Mutant: rows that were given up count as done.
EligibleForDeletionLax == {f \in Files : fstate[f] \in {"uploaded", "abandoned"}}

EligibleForDeletion == {f \in Files : fstate[f] = "uploaded"}

\* Disabled, below the threshold, or the list of uploaded rows. Only seconds
\* order that list, so any of them may come first.
BeginRetention ==
  /\ phase = "retain"
  /\ \/ phase' = "present" /\ UNCHANGED retainVars
     \/ /\ OverThreshold
        /\ phase' = "purge" /\ victims' = EligibleForDeletion /\ UNCHANGED purging
  /\ UNCHANGED <<vars, drive, ingestVars, uploadDue>>

\* os.Remove of the row's path; a missing file counts as removed.
Purge(f) ==
  /\ phase = "purge" /\ purging = NoFile /\ f \in victims /\ OverThreshold
  /\ drive' = [drive EXCEPT ![PathOf[f]] = NoFile]
  /\ purging' = f /\ victims' = victims \ {f}
  /\ UNCHANGED <<vars, phase, ingestVars, uploadDue>>

PurgeFails(f) ==
  /\ phase = "purge" /\ purging = NoFile /\ f \in victims /\ OverThreshold
  /\ victims' = victims \ {f}
  /\ UNCHANGED <<vars, drive, phase, ingestVars, purging, uploadDue>>

MarkDeleted ==
  /\ purging # NoFile
  /\ fstate' = [fstate EXCEPT ![purging] = "deleted"]
  /\ purging' = NoFile
  /\ UNCHANGED <<attempts, diskVars, uploadSide, drive, phase, ingestVars, victims, uploadDue>>

EndRetention ==
  /\ phase = "purge" /\ purging = NoFile /\ (victims = {} \/ ~OverThreshold)
  /\ phase' = "present" /\ victims' = {}
  /\ UNCHANGED <<vars, drive, ingestVars, purging, uploadDue>>

\* Unmount, give the drive back; upload if files were copied or staged.
Present ==
  /\ phase = "present"
  /\ phase' = "host"
  /\ uploadDue' = (copiedAny \/ \E p \in Paths : staged[p] # NoFile)
  /\ UNCHANGED <<vars, drive, ingestVars, retainVars>>

-----------------------------------------------------------------------------
BeginUpload(D) ==
  /\ uploadDue /\ StartUpload(D)
  /\ uploadDue' = FALSE
  /\ UNCHANGED <<drive, phase, ingestVars, retainVars>>

\* UploadAll returns at once: cancelled, no destination, or nothing queued.
UploadNothing ==
  /\ uploadDue
  /\ uploadDue' = FALSE
  /\ UNCHANGED <<vars, drive, phase, ingestVars, retainVars>>

\* A copy cut off leaves a partial file in the staging area.
PowerLoss ==
  /\ crashes < MaxCrashes
  /\ crashes' = crashes + 1
  /\ ResetStuckFiles
  /\ EndCall
  /\ \/ UNCHANGED staged
     \/ /\ copying = "copy"
        /\ \E left \in {NoFile, Torn} : staged' = [staged EXCEPT ![PathOf[cur]] = left]
  /\ phase' = "host" /\ walk' = {} /\ cur' = NoFile /\ copying' = "none" /\ copiedAny' = FALSE
  /\ victims' = {} /\ purging' = NoFile /\ uploadDue' = FALSE
  /\ UNCHANGED <<attempts, remote, recordVars, cancels, sent, drive>>

WalkStep == (\E p \in Paths : Skip(p) \/ Insert(p)) \/ Copy \/ MarkCopied \/ MarkQueued
IngestStep == WalkStep \/ CopyFails \/ LeaveWalk
RetentionStep ==
  \/ BeginRetention \/ (\E f \in Files : Purge(f) \/ PurgeFails(f)) \/ MarkDeleted \/ EndRetention \/ Present

PipeNext ==
  \/ \E f \in Files : HostWrite(f)
  \/ \E p \in Paths : HostDelete(p)
  \/ BeginCycle \/ IngestStep \/ RetentionStep
  \/ \E D \in SUBSET Dests : BeginUpload(D)
  \/ UploadNothing
  \/ RunningStep /\ UNCHANGED pipeVars
  \/ PowerLoss

PipeSpec == PipeInit /\ [][PipeNext]_allVars

\* The cycle's goroutine runs; the walk ends when it has visited every file.
\* The upload's goroutines run as in UploadAll. No new cycle is assumed.
FairPipeSpec == /\ PipeSpec
                /\ WF_allVars(WalkStep)
                /\ WF_allVars(walk = {} /\ LeaveWalk)
                /\ WF_allVars(RetentionStep)
                /\ WF_allVars((\E f \in Files : Spawn(f)) /\ UNCHANGED pipeVars)
                /\ \A f \in Files : WF_allVars(WorkerStep(f) /\ UNCHANGED pipeVars)
                /\ WF_allVars(FinishUpload /\ UNCHANGED pipeVars)

-----------------------------------------------------------------------------
\* Retention "only ever deletes files confirmed uploaded" (config.go:49): what
\* it removes from the drive is, byte for byte, at some destination.
RetentionIsSafe ==
  [][\A p \in Paths : phase = "purge" /\ drive'[p] # drive[p] =>
       \E d \in Dests : remote[d][p] = drive[p]]_allVars

\* A row becomes uploaded ("Confirmed at destination", technical_spec.md:259)
\* only with its own content at the destination it was sent to.
ConfirmedIsOwnContent ==
  [][\A f \in Files : fstate[f] # "uploaded" /\ fstate'[f] = "uploaded" =>
       remote[wdest[f]][PathOf[f]] = f]_allVars

\* "Skip if already in DB with state >= copied" (technical_spec.md:280): a
\* content on the drive is passed over only if it was staged before.
SkippedWasCopied ==
  [][\A p \in walk : Skip(p) => fstate[drive[p]] # "discovered"]_allVars

\* Every cycle hands the drive back to the host.
DriveComesBack == (phase # "host") ~> (phase = "host")
=============================================================================
