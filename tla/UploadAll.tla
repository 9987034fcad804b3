----------------------------- MODULE UploadAll -----------------------------
(***************************************************************************)
(* internal/upload/upload.go UploadAll, the goroutine of main.go that runs *)
(* it after a maintenance cycle, and the rows of internal/db/files.go and  *)
(* the upload_queue directory it works on.                                 *)
(*                                                                         *)
(* One goroutine per file, at most Workers at a time, each trying the      *)
(* destinations in priority order; a destination that fails is skipped by  *)
(* everybody for the rest of the call; a cancelled call (host plugged in)  *)
(* puts its files back; a crash anywhere is followed by startup recovery.  *)
(*                                                                         *)
(* A file is its content: the table has one row per checksum. PathOf gives *)
(* the path the content was ingested under, which is where it is staged    *)
(* and the path it gets at every destination; two contents may share it.   *)
(***************************************************************************)
EXTENDS Naturals, FiniteSets

CONSTANTS Files,          \* contents (SHA-256), one row each
          Paths,          \* relative paths on the drive, in upload_queue and remotely
          PathOf,         \* [Files -> Paths], the Filename column
          NDests,         \* destinations the portal may configure, 1 = highest priority
          Workers,        \* cfg.Workers after defaulting
          MaxAttempts,    \* maxUploadAttempts
          MaxCancels,     \* bound: cancellations per behaviour
          MaxCrashes,     \* bound: crashes per behaviour
          NoFile,         \* nothing at this path
          Torn            \* a partial copy left by a crash

ASSUME ConstantsAssumption ==
  /\ PathOf \in [Files -> Paths]
  /\ NDests \in Nat /\ Workers \in Nat \ {0} /\ MaxAttempts \in Nat \ {0}
  /\ MaxCancels \in Nat /\ MaxCrashes \in Nat
  /\ NoFile \notin Files /\ Torn \notin Files /\ NoFile # Torn

Dests == 1..NDests
Content == Files \cup {NoFile, Torn}

VARIABLES
  \* persistent: SQLite, the staging directory, the destinations
  fstate,       \* [Files -> FileState]
  attempts,     \* [Files -> Nat], upload_attempts
  staged,       \* [Paths -> Content], upload_queue/
  remote,       \* [Dests -> [Paths -> Content]]
  reported,     \* destinations RecordDestinationBackup was called for
  lastSyncDest, \* last_sync_destination, 0 = never set
  \* one call of UploadAll
  call,         \* "idle" | "running"
  dests,        \* cfg.Destinations of this call
  todo,         \* files the loop has not started a goroutine for
  snap,         \* f.UploadAttempts as GetQueuedFiles read it
  dead,         \* deadDest
  ctxDone,      \* uploadCtx cancelled
  failed,       \* some worker returned an error: what g.Wait reports
  uploaded,     \* the result lists
  used,
  wpc,          \* [Files -> step of the file's goroutine, "none" if it has none]
  wdest,        \* [Files -> index of the destination being tried]
  \* history, read by properties only
  cancels,      \* cancellations so far
  crashes,      \* crashes so far
  failures,     \* [Dests -> Nat], transfers to it that failed in this call
  sent          \* files rclone was ever started for

rowVars    == <<fstate, attempts>>
diskVars   == <<staged, remote>>
recordVars == <<reported, lastSyncDest>>
callVars   == <<call, dests, todo, snap, ctxDone>>
resultVars == <<failed, uploaded, used>>
workerVars == <<wpc, wdest>>
histVars   == <<cancels, crashes, failures, sent>>
vars == <<rowVars, diskVars, recordVars, callVars, dead, resultVars, workerVars, histVars>>

FileState == {"absent", "discovered", "copied", "queued", "uploading",
              "uploaded", "failed", "abandoned", "deleted"}
Step == {"none", "stat", "choose", "transfer", "charge", "settle", "acknowledge", "cleanup"}

Active == {f \in Files : wpc[f] # "none"}

TypeOK ==
  /\ fstate \in [Files -> FileState] /\ attempts \in [Files -> Nat]
  /\ staged \in [Paths -> Content] /\ remote \in [Dests -> [Paths -> Content]]
  /\ reported \in SUBSET Dests /\ lastSyncDest \in Dests \cup {0}
  /\ call \in {"idle", "running"} /\ dests \in SUBSET Dests /\ todo \in SUBSET Files
  /\ snap \in [Files -> Nat] /\ dead \in SUBSET Dests
  /\ ctxDone \in BOOLEAN /\ failed \in BOOLEAN
  /\ uploaded \in SUBSET Files /\ used \in SUBSET Dests
  /\ wpc \in [Files -> Step] /\ wdest \in [Files -> Nat]
  /\ cancels \in Nat /\ crashes \in Nat /\ failures \in [Dests -> Nat] /\ sent \in SUBSET Files

NoCall == /\ call = "idle" /\ dests = {} /\ todo = {} /\ snap = [f \in Files |-> 0]
          /\ dead = {} /\ ctxDone = FALSE /\ failed = FALSE
          /\ uploaded = {} /\ used = {}
          /\ wpc = [f \in Files |-> "none"] /\ wdest = [f \in Files |-> 0]
          /\ failures = [d \in Dests |-> 0]

\* The call's variables die with it.
EndCall ==
  /\ call' = "idle" /\ dests' = {} /\ todo' = {} /\ snap' = [f \in Files |-> 0]
  /\ dead' = {} /\ ctxDone' = FALSE /\ failed' = FALSE
  /\ uploaded' = {} /\ used' = {}
  /\ wpc' = [f \in Files |-> "none"] /\ wdest' = [f \in Files |-> 0]
  /\ failures' = [d \in Dests |-> 0]

\* Every file freshly ingested; where contents share a path the last copy won.
Init == /\ fstate = [f \in Files |-> "queued"]
        /\ attempts = [f \in Files |-> 0]
        /\ staged \in {s \in [Paths -> Content] :
                         \A p \in Paths : LET at == {f \in Files : PathOf[f] = p} IN
                           IF at = {} THEN s[p] = NoFile ELSE s[p] \in at}
        /\ remote = [d \in Dests |-> [p \in Paths |-> NoFile]]
        /\ reported = {} /\ lastSyncDest = 0 /\ cancels = 0 /\ crashes = 0 /\ sent = {}
        /\ NoCall

-----------------------------------------------------------------------------
\* Mutant: files whose last cycle failed are not selected again.
QueuedFilesFresh == {f \in Files : fstate[f] = "queued"}

QueuedFiles == {f \in Files : fstate[f] \in {"queued", "failed"}}

\* With nothing queued, no destination, or a context already cancelled the
\* call returns at once and changes nothing.
StartUpload(D) ==
  /\ call = "idle" /\ D # {} /\ QueuedFiles # {}
  /\ call' = "running" /\ dests' = D /\ todo' = QueuedFiles /\ snap' = attempts
  /\ UNCHANGED <<rowVars, diskVars, recordVars, ctxDone, dead, resultVars, workerVars, histVars>>

\* sem <- struct{}{}; g.Go(...). Rows discovered within one second tie in the
\* ORDER BY, so any remaining row may be next.
Spawn(f) ==
  /\ f \in todo /\ Cardinality(Active) < Workers
  /\ todo' = todo \ {f} /\ wpc' = [wpc EXCEPT ![f] = "stat"]
  /\ UNCHANGED <<rowVars, diskVars, recordVars, call, dests, snap, ctxDone, dead, resultVars, wdest, histVars>>

StatMissing(f) ==
  /\ wpc[f] = "stat" /\ staged[PathOf[f]] = NoFile
  /\ fstate' = [fstate EXCEPT ![f] = "abandoned"]
  /\ wpc' = [wpc EXCEPT ![f] = "none"]
  /\ UNCHANGED <<attempts, diskVars, recordVars, callVars, dead, resultVars, wdest, histVars>>

StatPresent(f) ==
  /\ wpc[f] = "stat" /\ staged[PathOf[f]] # NoFile
  /\ fstate' = [fstate EXCEPT ![f] = "uploading"]
  /\ wpc' = [wpc EXCEPT ![f] = "choose"]
  /\ UNCHANGED <<attempts, diskVars, recordVars, callVars, dead, resultVars, wdest, histVars>>

\* Mutant: no fallback once the primary failed.
CandidatesPrimary(f) == {d \in dests : wdest[f] = 0 /\ d \notin dead}

\* Destinations the loop has still to look at and does not skip as dead.
Candidates(f) == {d \in dests : d > wdest[f] /\ d \notin dead}

\* The loop moves on to its next live destination; a cancelled context makes
\* rclone fail to start, which is the cancelled return.
Choose(f, d) ==
  /\ wpc[f] = "choose" /\ ~ctxDone
  /\ d \in Candidates(f) /\ \A e \in Candidates(f) : d <= e
  /\ wdest' = [wdest EXCEPT ![f] = d]
  /\ wpc' = [wpc EXCEPT ![f] = "transfer"]
  /\ sent' = sent \cup {f}
  /\ UNCHANGED <<rowVars, diskVars, recordVars, callVars, dead, resultVars, cancels, crashes, failures>>

\* Mutant: the check that some destination took the file is dropped.
ExhaustedUnchecked(f) ==
  /\ wpc[f] = "choose" /\ Candidates(f) = {}
  /\ wpc' = [wpc EXCEPT ![f] = "acknowledge"]
  /\ UNCHANGED <<rowVars, diskVars, recordVars, callVars, dead, resultVars, wdest, histVars>>

Exhausted(f) ==
  /\ wpc[f] = "choose" /\ Candidates(f) = {}
  /\ wpc' = [wpc EXCEPT ![f] = "charge"]
  /\ UNCHANGED <<rowVars, diskVars, recordVars, callVars, dead, resultVars, wdest, histVars>>

\* Mutant: the staged copy goes before the row is written.
TransferOkRemovesFirst(f) ==
  /\ wpc[f] = "transfer" /\ staged[PathOf[f]] # NoFile
  /\ remote' = [remote EXCEPT ![wdest[f]][PathOf[f]] = staged[PathOf[f]]]
  /\ staged' = [staged EXCEPT ![PathOf[f]] = NoFile]
  /\ wpc' = [wpc EXCEPT ![f] = "acknowledge"]
  /\ UNCHANGED <<rowVars, recordVars, callVars, dead, resultVars, wdest, histVars>>

\* rclone copies whatever is staged at the path now; it may finish even though
\* the context was cancelled after it started.
TransferOk(f) ==
  /\ wpc[f] = "transfer" /\ staged[PathOf[f]] # NoFile
  /\ remote' = [remote EXCEPT ![wdest[f]][PathOf[f]] = staged[PathOf[f]]]
  /\ wpc' = [wpc EXCEPT ![f] = "acknowledge"]
  /\ UNCHANGED <<rowVars, staged, recordVars, callVars, dead, resultVars, wdest, histVars>>

\* Mutant: a failed destination is not remembered.
MarkDeadNot(f) == UNCHANGED dead

MarkDead(f) == dead' = dead \cup {wdest[f]}

TransferFailed(f) ==
  /\ wpc[f] = "transfer" /\ ~ctxDone
  /\ MarkDead(f)
  /\ failures' = [failures EXCEPT ![wdest[f]] = @ + 1]
  /\ wpc' = [wpc EXCEPT ![f] = "choose"]
  /\ UNCHANGED <<rowVars, diskVars, recordVars, callVars, resultVars, wdest, cancels, crashes, sent>>

\* Mutant: a cancelled row is left uploading.
PutBackNot(f) == UNCHANGED fstate

PutBack(f) == fstate' = [fstate EXCEPT ![f] = "queued"]

\* Mutant: the error is taken for a lost destination's and tried again.
CancelledRetries(f) ==
  /\ ctxDone
  /\ wpc[f] = "transfer" \/ (wpc[f] = "choose" /\ Candidates(f) # {})
  /\ wpc' = [wpc EXCEPT ![f] = "choose"]
  /\ UNCHANGED <<rowVars, diskVars, recordVars, callVars, dead, resultVars, wdest, histVars>>

\* The only error a worker returns, and only with the context already done:
\* errgroup's own cancellation never comes first.
Cancelled(f) ==
  /\ ctxDone
  /\ wpc[f] = "transfer" \/ (wpc[f] = "choose" /\ Candidates(f) # {})
  /\ PutBack(f)
  /\ failed' = TRUE
  /\ wpc' = [wpc EXCEPT ![f] = "none"]
  /\ UNCHANGED <<attempts, diskVars, recordVars, callVars, dead, uploaded, used, wdest, histVars>>

ChargeAttempt(f) ==
  /\ wpc[f] = "charge"
  /\ attempts' = [attempts EXCEPT ![f] = @ + 1]
  /\ wpc' = [wpc EXCEPT ![f] = "settle"]
  /\ UNCHANGED <<fstate, diskVars, recordVars, callVars, dead, resultVars, wdest, histVars>>

\* Mutant: one attempt too few.
GivesUpEarly(f) == snap[f] + 2 >= MaxAttempts

\* Decided on the count read before the call, not on the one just written.
GivesUp(f) == snap[f] + 1 >= MaxAttempts

SettleFailure(f) ==
  /\ wpc[f] = "settle"
  /\ fstate' = [fstate EXCEPT ![f] = IF GivesUp(f) THEN "abandoned" ELSE "failed"]
  /\ wpc' = [wpc EXCEPT ![f] = "none"]
  /\ UNCHANGED <<attempts, diskVars, recordVars, callVars, dead, resultVars, wdest, histVars>>

Acknowledge(f) ==
  /\ wpc[f] = "acknowledge"
  /\ fstate' = [fstate EXCEPT ![f] = "uploaded"]
  /\ wpc' = [wpc EXCEPT ![f] = "cleanup"]
  /\ UNCHANGED <<attempts, diskVars, recordVars, callVars, dead, resultVars, wdest, histVars>>

Report(f) == uploaded' = uploaded \cup {f} /\ used' = used \cup {wdest[f]}

Cleanup(f) ==
  /\ wpc[f] = "cleanup"
  /\ staged' = [staged EXCEPT ![PathOf[f]] = NoFile]
  /\ Report(f)
  /\ wpc' = [wpc EXCEPT ![f] = "none"]
  /\ UNCHANGED <<rowVars, remote, recordVars, callVars, dead, failed, wdest, histVars>>

\* Mutant: every configured destination is recorded as backed up.
RecordAllConfigured == reported' = reported \cup dests

RecordUsed == reported' = reported \cup used

\* g.Wait and what main does with the result: on an error it returns before
\* recording anything.
FinishUpload ==
  /\ call = "running" /\ todo = {} /\ Active = {}
  /\ IF failed \/ uploaded = {}
     THEN UNCHANGED recordVars
     ELSE /\ RecordUsed
          /\ \E d \in used : (\A e \in used : d <= e) /\ lastSyncDest' = d
  /\ EndCall
  /\ UNCHANGED <<rowVars, diskVars, cancels, crashes, sent>>

-----------------------------------------------------------------------------
\* holder.call(): the host was plugged in, or SIGTERM.
Cancel ==
  /\ call = "running" /\ ~ctxDone /\ cancels < MaxCancels
  /\ ctxDone' = TRUE /\ cancels' = cancels + 1
  /\ UNCHANGED <<rowVars, diskVars, recordVars, call, dests, todo, snap, dead, resultVars, workerVars, crashes, failures, sent>>

\* Mutant: everything not uploaded is queued again.
ResetStuckFilesAll == fstate' = [f \in Files |-> IF fstate[f] # "uploaded" THEN "queued" ELSE fstate[f]]

ResetStuckFiles == fstate' = [f \in Files |-> IF fstate[f] = "uploading" THEN "queued" ELSE fstate[f]]

\* Power loss during a call, then startupRecovery before anything else runs.
Crash ==
  /\ call = "running" /\ crashes < MaxCrashes
  /\ crashes' = crashes + 1
  /\ ResetStuckFiles
  /\ EndCall
  /\ UNCHANGED <<attempts, diskVars, recordVars, cancels, sent>>

WorkerStep(f) ==
  \/ StatMissing(f) \/ StatPresent(f)
  \/ \E d \in Dests : Choose(f, d)
  \/ Exhausted(f) \/ TransferOk(f) \/ TransferFailed(f) \/ Cancelled(f)
  \/ ChargeAttempt(f) \/ SettleFailure(f) \/ Acknowledge(f) \/ Cleanup(f)

\* The error of a row's update is ignored: the goroutine goes on as if the row
\* had been written. (UploadTwo; Next takes database writes to succeed.)
RowWriteFails(f) ==
  /\ \/ /\ \/ /\ wpc[f] = "stat"
              /\ wpc' = [wpc EXCEPT ![f] = IF staged[PathOf[f]] = NoFile THEN "none" ELSE "choose"]
           \/ wpc[f] = "charge" /\ wpc' = [wpc EXCEPT ![f] = "settle"]
           \/ wpc[f] = "settle" /\ wpc' = [wpc EXCEPT ![f] = "none"]
           \/ wpc[f] = "acknowledge" /\ wpc' = [wpc EXCEPT ![f] = "cleanup"]
        /\ UNCHANGED failed
     \/ /\ ctxDone
        /\ wpc[f] = "transfer" \/ (wpc[f] = "choose" /\ Candidates(f) # {})
        /\ failed' = TRUE /\ wpc' = [wpc EXCEPT ![f] = "none"]
  /\ UNCHANGED <<rowVars, diskVars, recordVars, callVars, dead, uploaded, used, wdest, histVars>>

\* What a call in progress may do.
RunningStep ==
  \/ \E f \in Files : Spawn(f) \/ WorkerStep(f)
  \/ FinishUpload \/ Cancel

UploadStep == RunningStep \/ \E D \in SUBSET Dests : StartUpload(D)

Next == UploadStep \/ Crash

Spec == Init /\ [][Next]_vars

\* Goroutines are scheduled, an rclone process ends, and the schedule keeps
\* starting cycles while something is queued.
FairSpec == /\ Spec
            /\ WF_vars(\E D \in SUBSET Dests : StartUpload(D))
            /\ WF_vars(\E f \in Files : Spawn(f))
            /\ \A f \in Files : WF_vars(WorkerStep(f))
            /\ WF_vars(FinishUpload)
-----------------------------------------------------------------------------
\* No other content was ever recorded under this file's path.
Sole(f) == \A g \in Files : PathOf[g] = PathOf[f] => g = f

\* A row says uploaded only if some destination holds exactly that content
\* (UpdateFileUploaded comes after uploadFile, and nothing later replaces it).
UploadedHasCopy ==
  \A f \in Files : Sole(f) /\ fstate[f] \in {"uploaded", "deleted"} =>
    \E d \in Dests : remote[d][PathOf[f]] = f

\* Until a row is uploaded its staged copy is intact, through failures,
\* cancellation and crashes: os.Remove(src) comes only after the row is written.
PendingIsStaged ==
  \A f \in Files : Sole(f) /\ fstate[f] \in {"queued", "failed", "uploading"} =>
    staged[PathOf[f]] = f

\* A file is given up only after MaxAttempts whole cycles were charged to it,
\* never because its staged copy vanished (upload.go:181) or a call was cut off.
AbandonedIsExhausted ==
  \A f \in Files : Sole(f) /\ fstate[f] = "abandoned" => attempts[f] >= MaxAttempts

\* When no call runs, no row is left uploading: GetQueuedFiles would never
\* see it again before the next restart.
NoUploadingAtRest == call = "idle" => \A f \in Files : fstate[f] # "uploading"

\* "A down primary doesn't stall every file": in one call a destination fails
\* at most once per concurrent worker, however many files are queued.
DeadDestBound == \A d \in Dests : failures[d] <= Workers

\* A cycle is charged to a file only when every destination of the call has
\* failed for somebody; a cancelled transfer is never charged.
ChargedOnlyWhenAllDead ==
  [][\A f \in Files : attempts'[f] > attempts[f] => dests # {} /\ dests \subseteq dead]_vars

\* What the heartbeat reports as backed up did take a backup, and the
\* destination labelled "last sync" is one of them.
ReportedTookBackup ==
  /\ \A d \in reported : \E p \in Paths : remote[d][p] # NoFile
  /\ lastSyncDest # 0 => lastSyncDest \in reported

\* Every call ends: the semaphore, the wait group and cancellation never
\* leave it blocked.
CallReturns == (call = "running") ~> (call = "idle")

\* The rows of files that share their path with no other follow FileLifecycle.
SoleFiles == {f \in Files : Sole(f)}
Lifecycle == INSTANCE FileLifecycle WITH
  Files <- SoleFiles,
  fstate <- [f \in SoleFiles |-> fstate[f]],
  attempts <- [f \in SoleFiles |-> attempts[f]],
  copies <- [f \in SoleFiles |-> {d \in Dests : remote[d][PathOf[f]] = f}]
LifecycleSpec == Lifecycle!Spec
=============================================================================
