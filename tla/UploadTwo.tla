----------------------------- MODULE UploadTwo -----------------------------
(***************************************************************************)
(* Two calls of UploadAll at once, and row writes that fail.               *)
(*                                                                         *)
(* A cycle's upload outlives its hold on the drive (main.go:463), and a    *)
(* trigger between the writes of Disconnected and Archiving, or a host     *)
(* plugged in and out meanwhile, starts a second cycle, whose upload works *)
(* on the same rows and the same staging area. Both uploads share the one  *)
(* slot for a cancel function (main.go:37). upload.go looks at no error of *)
(* a row's update (182, 187, 215, 237-243, 253).                           *)
(***************************************************************************)
EXTENDS UploadAll

CONSTANT MaxLost  \* bound: row writes that fail, at most one for each file

ASSUME UploadTwoAssumption == MaxLost \in Nat

VARIABLES
  \* the second call
  call2, dests2, todo2, snap2, dead2, ctxDone2, failed2, uploaded2, used2, wpc2, wdest2, failures2,
  slot,       \* cancelHolder.fn: the call it cancels, 0 for none
  unwritten   \* history: files one of whose row writes failed

Second == INSTANCE UploadAll WITH
  call <- call2, dests <- dests2, todo <- todo2, snap <- snap2, dead <- dead2,
  ctxDone <- ctxDone2, failed <- failed2, uploaded <- uploaded2, used <- used2,
  wpc <- wpc2, wdest <- wdest2, failures <- failures2

firstVars  == <<callVars, dead, resultVars, workerVars, failures>>
secondVars == <<call2, dests2, todo2, snap2, dead2, ctxDone2, failed2, uploaded2, used2,
                wpc2, wdest2, failures2>>
sharedVars == <<rowVars, diskVars, recordVars, cancels, crashes, sent>>
twoVars == <<firstVars, secondVars, sharedVars, slot, unwritten>>

Running == {c \in {1, 2} : IF c = 1 THEN call = "running" ELSE call2 = "running"}

TwoInit == Init /\ Second!NoCall /\ slot = 0 /\ unwritten = {}
-----------------------------------------------------------------------------
\* A cycle's cancel function is stored when the cycle has begun, long before
\* its upload: of two, either may have been stored last.
HolderSet(c) == slot' \in {c} \cup Running

StartFirst(D) == StartUpload(D) /\ HolderSet(1) /\ UNCHANGED <<secondVars, unwritten>>

\* The second call is the one that begins while the other is running.
StartSecond(D) ==
  /\ Running = {1} /\ Second!StartUpload(D)
  /\ HolderSet(2) /\ UNCHANGED <<firstVars, unwritten>>

\* holder.call reaches the one upload whose function is in the slot.
HolderCall ==
  /\ \/ slot = 1 /\ Cancel /\ UNCHANGED secondVars
     \/ slot = 2 /\ Second!Cancel /\ UNCHANGED firstVars
  /\ UNCHANGED <<slot, unwritten>>

StepOfFirst(f) == WorkerStep(f) /\ UNCHANGED <<secondVars, slot, unwritten>>
StepOfSecond(f) == Second!WorkerStep(f) /\ UNCHANGED <<firstVars, slot, unwritten>>

\* The database is busy, full or gone for one update.
LosesWrite(f) ==
  /\ f \notin unwritten /\ Cardinality(unwritten) < MaxLost
  /\ unwritten' = unwritten \cup {f}
  /\ \/ RowWriteFails(f) /\ UNCHANGED secondVars
     \/ Second!RowWriteFails(f) /\ UNCHANGED firstVars
  /\ UNCHANGED slot

SpawnAny ==
  /\ \E f \in Files : \/ Spawn(f) /\ UNCHANGED secondVars
                      \/ Second!Spawn(f) /\ UNCHANGED firstVars
  /\ UNCHANGED <<slot, unwritten>>

FinishFirst == FinishUpload /\ UNCHANGED <<secondVars, slot, unwritten>>
FinishSecond == Second!FinishUpload /\ UNCHANGED <<firstVars, slot, unwritten>>

\* Both calls die; startupRecovery follows.
CrashBoth ==
  /\ Running # {} /\ crashes < MaxCrashes
  /\ crashes' = crashes + 1
  /\ ResetStuckFiles
  /\ EndCall /\ Second!EndCall
  /\ slot' = 0
  /\ UNCHANGED <<attempts, diskVars, recordVars, cancels, sent, unwritten>>

TwoNext ==
  \/ \E D \in SUBSET Dests : StartFirst(D) \/ StartSecond(D)
  \/ \E f \in Files : StepOfFirst(f) \/ StepOfSecond(f) \/ LosesWrite(f)
  \/ SpawnAny \/ FinishFirst \/ FinishSecond
  \/ HolderCall \/ CrashBoth

TwoSpec == TwoInit /\ [][TwoNext]_twoVars

\* As in UploadAll: goroutines are scheduled, an rclone process ends, and
\* cycles go on being started while something is queued.
TwoFairSpec ==
  /\ TwoSpec
  /\ WF_twoVars(\E D \in SUBSET Dests : StartFirst(D))
  /\ WF_twoVars(SpawnAny)
  /\ \A f \in Files : WF_twoVars(StepOfFirst(f)) /\ WF_twoVars(StepOfSecond(f))
  /\ WF_twoVars(FinishFirst) /\ WF_twoVars(FinishSecond)
-----------------------------------------------------------------------------
\* Whatever two calls, a cancellation, a crash and a row write that fails make
\* of a row, its content is staged or at a destination: os.Remove(src) comes
\* only after a transfer of that call that worked (upload.go:255).
NothingLost ==
  \A f \in Files : Sole(f) =>
    \/ staged[PathOf[f]] = f
    \/ \E d \in Dests : remote[d][PathOf[f]] = f

\* A row that no call will ever look at again, since it stays uploading with
\* both calls over, is one whose update failed; a restart queues it again.
StuckRowAccounted ==
  Running = {} => \A f \in Files : fstate[f] = "uploading" => f \in unwritten

\* A file is given up early only if the other call delivered it, or if a row
\* write failed after which its staged copy was removed; it is never given up
\* early with no copy at a destination.
EarlyGiveUpIsDelivered ==
  \A f \in Files : fstate[f] = "abandoned" /\ attempts[f] < MaxAttempts =>
    \/ \E d \in Dests : remote[d][PathOf[f]] = f
    \/ f \in unwritten

\* Two calls that overwrite each other's rows do not go on doing so for ever:
\* each file is in the end uploaded or given up and stays so.
FilesSettle ==
  \A f \in Files : <>[](fstate[f] \in {"uploaded", "abandoned"} \/ f \in unwritten)
=============================================================================
