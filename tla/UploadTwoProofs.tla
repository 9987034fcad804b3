--------------------------- MODULE UploadTwoProofs ---------------------------
(***************************************************************************)
(* What two calls of UploadAll at once, over the same rows and the same    *)
(* staging area, cannot do to a file, for any files, destinations, workers,*)
(* cancellations, crashes and row writes that fail. An invariant about one *)
(* call is an operator applied to the variables of either; each step moves *)
(* one call and may write what both share.                                 *)
(***************************************************************************)
EXTENDS UploadTwo, TLAPS

Claimed == {"choose", "transfer", "charge", "settle", "acknowledge"}

\* The types of what matters to a file.
TwoTypeOK ==
  /\ fstate \in [Files -> FileState] /\ attempts \in [Files -> Nat]
  /\ staged \in [Paths -> Content] /\ remote \in [Dests -> [Paths -> Content]]
  /\ todo \in SUBSET Files /\ snap \in [Files -> Nat]
  /\ wpc \in [Files -> Step] /\ wdest \in [Files -> Nat]
  /\ todo2 \in SUBSET Files /\ snap2 \in [Files -> Nat]
  /\ wpc2 \in [Files -> Step] /\ wdest2 \in [Files -> Nat]
  /\ unwritten \in SUBSET Files

\* Goroutines, and files waiting for one, exist only while the call runs.
CallRuns(c, td, w) ==
  \A f \in Files :
    /\ f \in td => c = "running" /\ w[f] = "none"
    /\ w[f] # "none" => c = "running"

\* From its transfer on a goroutine has a destination; past it, that
\* destination holds the file.
Targets(w, wd) ==
  \A f \in Files : w[f] \in {"transfer", "acknowledge", "cleanup"} => wd[f] \in Dests
Delivered(w, wd) ==
  \A f \in Files : Sole(f) /\ w[f] \in {"acknowledge", "cleanup"} => remote[wd[f]][PathOf[f]] = f

\* The count a call has read may be behind the row's, never ahead of it; at
\* the end of a failed cycle the row has one more, unless that write failed.
Tries(w, sn) ==
  \A f \in Files :
    /\ sn[f] <= attempts[f]
    /\ w[f] = "settle" => sn[f] + 1 <= attempts[f] \/ f \in unwritten

CallInv(c, td, w, wd, sn) == CallRuns(c, td, w) /\ Targets(w, wd) /\ Delivered(w, wd) /\ Tries(w, sn)
FirstInv  == CallInv(call, todo, wpc, wdest, snap)
SecondInv == CallInv(call2, todo2, wpc2, wdest2, snap2)

\* A row is uploading only while some goroutine owns it, or one of its writes failed.
OwnedInv ==
  \A f \in Files : fstate[f] = "uploading" => wpc[f] \in Claimed \/ wpc2[f] \in Claimed \/ f \in unwritten

\* Nothing but the file itself is ever staged where only it belongs.
StagedInv == \A f \in Files : Sole(f) => staged[PathOf[f]] \in {f, NoFile}

\* EarlyGiveUpIsDelivered for a file that shares its path with no other.
EarlyInv ==
  \A f \in Files : Sole(f) /\ fstate[f] = "abandoned" /\ attempts[f] < MaxAttempts =>
    \/ \E d \in Dests : remote[d][PathOf[f]] = f
    \/ f \in unwritten

TwoInv ==
  /\ TwoTypeOK /\ FirstInv /\ SecondInv
  /\ OwnedInv /\ StagedInv /\ NothingLost /\ EarlyInv /\ UploadedHasCopy

-----------------------------------------------------------------------------
LEMMA TwoInitInv == TwoInit => TwoInv
<1> SUFFICES ASSUME TwoInit PROVE TwoInv
  OBVIOUS
<1> USE ConstantsAssumption DEF TwoInit, Init, NoCall, Second!NoCall
<1>1. TwoTypeOK
  BY DEF TwoTypeOK, Content, FileState, Step
<1>2. FirstInv /\ SecondInv
  BY DEF FirstInv, SecondInv, CallInv, CallRuns, Targets, Delivered, Tries
<1>3. \A f \in Files : Sole(f) => staged[PathOf[f]] = f
  BY DEF Sole
<1>4. OwnedInv /\ StagedInv /\ NothingLost /\ EarlyInv /\ UploadedHasCopy
  BY <1>3 DEF OwnedInv, StagedInv, NothingLost, EarlyInv, UploadedHasCopy
<1> QED
  BY <1>1, <1>2, <1>4 DEF TwoInv

-----------------------------------------------------------------------------
(* What a step does to the shared rows, disks and records.                 *)

\* A copy of a file's own stays; counts and failed writes only grow.
Grows ==
  /\ \A f \in Files, d \in Dests : Sole(f) /\ remote[d][PathOf[f]] = f => remote'[d][PathOf[f]] = f
  /\ \A f \in Files : attempts[f] <= attempts'[f]
  /\ unwritten \subseteq unwritten'

\* A call that does not move keeps its invariant while the rest grows.
LEMMA OtherCall ==
  ASSUME TwoTypeOK, TwoTypeOK', Grows
  PROVE  /\ FirstInv /\ UNCHANGED firstVars => FirstInv'
         /\ SecondInv /\ UNCHANGED secondVars => SecondInv'
<1> USE DEF Grows, CallInv, CallRuns, Targets, Delivered, Tries, TwoTypeOK
<1>1. ASSUME FirstInv, UNCHANGED firstVars PROVE FirstInv'
  BY <1>1 DEF FirstInv, firstVars, callVars, workerVars, Sole
<1>2. ASSUME SecondInv, UNCHANGED secondVars PROVE SecondInv'
  BY <1>2 DEF SecondInv, secondVars, Sole
<1> QED
  BY <1>1, <1>2

\* A file without a copy keeps its staged one, and its row is neither
\* confirmed nor given up early, unless one of its writes failed.
SharedMoves ==
  \A f \in Files :
    Sole(f) =>
      \/ \E d \in Dests : remote'[d][PathOf[f]] = f
      \/ /\ staged'[PathOf[f]] = staged[PathOf[f]]
         /\ fstate'[f] # fstate[f] =>
              \/ fstate'[f] \notin {"uploaded", "deleted", "abandoned"}
              \/ fstate'[f] = "abandoned" /\ (attempts'[f] >= MaxAttempts \/ f \in unwritten')

LEMMA SharedStep ==
  ASSUME TwoInv, TwoTypeOK', Grows, SharedMoves
  PROVE  NothingLost' /\ EarlyInv' /\ UploadedHasCopy'
<1> USE ConstantsAssumption DEF TwoInv, Grows, SharedMoves
<1>1. NothingLost'
  BY DEF NothingLost, Sole
<1>2. EarlyInv'
  <2> SUFFICES ASSUME NEW f \in Files, Sole(f), fstate'[f] = "abandoned", attempts'[f] < MaxAttempts,
                      ~\E d \in Dests : remote'[d][PathOf[f]] = f
               PROVE  f \in unwritten'
    BY DEF EarlyInv, Sole
  <2>1. attempts[f] \in Nat /\ attempts'[f] \in Nat
    BY DEF TwoTypeOK
  <2>2. CASE fstate'[f] = fstate[f]
    <3>1. attempts[f] < MaxAttempts
      BY <2>1
    <3> QED
      BY <2>2, <3>1 DEF EarlyInv
  <2>3. CASE fstate'[f] # fstate[f]
    BY <2>1, <2>3
  <2> QED
    BY <2>2, <2>3
<1>3. UploadedHasCopy'
  BY DEF UploadedHasCopy, Sole
<1> QED
  BY <1>1, <1>2, <1>3

-----------------------------------------------------------------------------
(* A goroutine of the first call moves, and the same of the second.        *)

LEMMA FirstWorker ==
  ASSUME TwoInv, NEW f \in Files, StepOfFirst(f)
  PROVE  TwoTypeOK' /\ Grows /\ SharedMoves /\ OwnedInv' /\ StagedInv' /\ FirstInv'
<1> USE ConstantsAssumption DEF TwoInv, FirstInv, CallInv, TwoTypeOK
<1>1. WorkerStep(f) /\ UNCHANGED <<secondVars, unwritten>>
  BY DEF StepOfFirst
<1>2. CASE \/ StatMissing(f) \/ StatPresent(f) \/ Exhausted(f) \/ TransferFailed(f)
           \/ Cancelled(f) \/ ChargeAttempt(f) \/ SettleFailure(f) \/ Acknowledge(f)
           \/ \E d \in Dests : Choose(f, d)
  <2> USE <1>2 DEF StatMissing, StatPresent, Exhausted, TransferFailed, MarkDead, Cancelled, PutBack,
      ChargeAttempt, SettleFailure, GivesUp, Acknowledge, Choose, rowVars, diskVars, callVars,
      workerVars
  <2>1. UNCHANGED <<staged, remote, todo, snap, unwritten>>
    BY <1>1
  <2>2. Grows
    BY <2>1 DEF Grows
  <2>3. wpc' \in [Files -> Step] /\ wdest' \in [Files -> Nat] /\ call' = call
    <3>1. Dests \subseteq Nat
      BY DEF Dests
    <3>2. UNCHANGED wdest \/ \E d \in Dests : wdest' = [wdest EXCEPT ![f] = d]
      OBVIOUS
    <3>3. \E x \in Step : wpc' = [wpc EXCEPT ![f] = x]
      BY DEF Step
    <3>4. call' = call
      OBVIOUS
    <3> HIDE <1>2
    <3> QED
      BY <3>1, <3>2, <3>3, <3>4
  <2>4. fstate' \in [Files -> FileState] /\ attempts' \in [Files -> Nat]
    BY DEF FileState
  <2>5. TwoTypeOK'
    BY <1>1, <2>1, <2>3, <2>4 DEF secondVars
  <2>6. CallRuns(call, todo, wpc)'
    BY <2>1 DEF CallRuns
  <2>7. Targets(wpc, wdest)'
    BY DEF Targets
  <2>8. Delivered(wpc, wdest)'
    BY <2>1 DEF Delivered, Sole
  <2>9. Tries(wpc, snap)'
    BY <2>1 DEF Tries
  <2>10. OwnedInv'
    BY <1>1, <2>1 DEF OwnedInv, Claimed, secondVars
  <2>11. StagedInv'
    BY <2>1 DEF StagedInv, Sole
  <2>12. SharedMoves
    BY <2>1 DEF SharedMoves, NothingLost, StagedInv, Delivered, Tries, Targets, Sole
  <2> QED
    BY <2>2, <2>5, <2>6, <2>7, <2>8, <2>9, <2>10, <2>11, <2>12
<1>3. CASE TransferOk(f)
  <2> USE <1>3 DEF TransferOk, rowVars, diskVars, callVars, workerVars
  <2>1. UNCHANGED <<fstate, attempts, staged, todo, snap, wdest, call, unwritten>>
    BY <1>1
  <2>2. wdest[f] \in Dests /\ (Sole(f) => staged[PathOf[f]] = f)
    BY DEF Targets, StagedInv
  <2>3. Grows
    BY <2>1, <2>2 DEF Grows, Sole
  <2>4. TwoTypeOK'
    BY <1>1, <2>1, <2>2 DEF secondVars, Step
  <2>5. Delivered(wpc, wdest)'
    BY <2>1, <2>2, <2>3 DEF Delivered, Targets, Grows, Sole
  <2>6. CallRuns(call, todo, wpc)' /\ Targets(wpc, wdest)' /\ Tries(wpc, snap)'
    BY <2>1 DEF CallRuns, Targets, Tries
  <2>7. OwnedInv' /\ StagedInv'
    BY <1>1, <2>1 DEF OwnedInv, StagedInv, Claimed, Sole, secondVars
  <2>8. SharedMoves
    BY <2>1 DEF SharedMoves
  <2> QED
    BY <2>3, <2>4, <2>5, <2>6, <2>7, <2>8
<1>4. CASE Cleanup(f)
  <2> USE <1>4 DEF Cleanup, Report, rowVars, diskVars, callVars, workerVars
  <2>1. UNCHANGED <<fstate, attempts, remote, todo, snap, wdest, call, unwritten>>
    BY <1>1
  <2>2. Grows
    BY <2>1 DEF Grows
  <2>3. TwoTypeOK'
    BY <1>1, <2>1 DEF secondVars, Step, Content
  <2>4. CallRuns(call, todo, wpc)' /\ Targets(wpc, wdest)' /\ Tries(wpc, snap)'
    BY <2>1 DEF CallRuns, Targets, Tries
  <2>5. Delivered(wpc, wdest)'
    BY <2>1 DEF Delivered, Sole
  <2>6. OwnedInv' /\ StagedInv'
    BY <1>1, <2>1 DEF OwnedInv, StagedInv, Claimed, Sole, secondVars
  <2>7. SharedMoves
    <3>1. Sole(f) => wdest[f] \in Dests /\ remote'[wdest[f]][PathOf[f]] = f
      BY <2>1 DEF Delivered, Targets
    <3>2. ASSUME NEW g \in Files, Sole(g), g # f PROVE staged'[PathOf[g]] = staged[PathOf[g]]
      BY <3>2 DEF Sole
    <3> QED
      BY <2>1, <3>1, <3>2 DEF SharedMoves
  <2> QED
    BY <2>2, <2>3, <2>4, <2>5, <2>6, <2>7
<1> QED
  BY <1>1, <1>2, <1>3, <1>4 DEF WorkerStep

LEMMA SecondWorker ==
  ASSUME TwoInv, NEW f \in Files, StepOfSecond(f)
  PROVE  TwoTypeOK' /\ Grows /\ SharedMoves /\ OwnedInv' /\ StagedInv' /\ SecondInv'
<1> USE ConstantsAssumption DEF TwoInv, SecondInv, CallInv, TwoTypeOK
<1>1. Second!WorkerStep(f) /\ UNCHANGED <<firstVars, unwritten>>
  BY DEF StepOfSecond
<1>2. CASE \/ Second!StatMissing(f) \/ Second!StatPresent(f) \/ Second!Exhausted(f) \/ Second!TransferFailed(f)
           \/ Second!Cancelled(f) \/ Second!ChargeAttempt(f) \/ Second!SettleFailure(f) \/ Second!Acknowledge(f)
           \/ \E d \in Dests : Second!Choose(f, d)
  <2> USE <1>2 DEF Second!StatMissing, Second!StatPresent, Second!Exhausted, Second!TransferFailed,
      Second!MarkDead, Second!Cancelled, Second!PutBack, Second!ChargeAttempt,
      Second!SettleFailure, Second!GivesUp, Second!Acknowledge, Second!Choose, Second!rowVars,
      Second!diskVars, Second!callVars, Second!workerVars
  <2>1. UNCHANGED <<staged, remote, todo2, snap2, unwritten>>
    BY <1>1
  <2>2. Grows
    BY <2>1 DEF Grows
  <2>3. wpc2' \in [Files -> Step] /\ wdest2' \in [Files -> Nat] /\ call2' = call2
    <3>1. Dests \subseteq Nat
      BY DEF Dests
    <3>2. UNCHANGED wdest2 \/ \E d \in Dests : wdest2' = [wdest2 EXCEPT ![f] = d]
      OBVIOUS
    <3>3. \E x \in Step : wpc2' = [wpc2 EXCEPT ![f] = x]
      BY DEF Step
    <3>4. call2' = call2
      OBVIOUS
    <3> HIDE <1>2
    <3> QED
      BY <3>1, <3>2, <3>3, <3>4
  <2>4. fstate' \in [Files -> FileState] /\ attempts' \in [Files -> Nat]
    BY DEF FileState
  <2>5. TwoTypeOK'
    BY <1>1, <2>1, <2>3, <2>4 DEF firstVars, callVars, workerVars
  <2>6. CallRuns(call2, todo2, wpc2)'
    BY <2>1 DEF CallRuns
  <2>7. Targets(wpc2, wdest2)'
    BY DEF Targets
  <2>8. Delivered(wpc2, wdest2)'
    BY <2>1 DEF Delivered, Sole
  <2>9. Tries(wpc2, snap2)'
    BY <2>1 DEF Tries
  <2>10. OwnedInv'
    BY <1>1, <2>1 DEF OwnedInv, Claimed, firstVars, callVars, workerVars
  <2>11. StagedInv'
    BY <2>1 DEF StagedInv, Sole
  <2>12. SharedMoves
    BY <2>1 DEF SharedMoves, NothingLost, StagedInv, Delivered, Tries, Targets, Sole
  <2> QED
    BY <2>2, <2>5, <2>6, <2>7, <2>8, <2>9, <2>10, <2>11, <2>12
<1>3. CASE Second!TransferOk(f)
  <2> USE <1>3 DEF Second!TransferOk, Second!rowVars, Second!diskVars, Second!callVars, Second!workerVars
  <2>1. UNCHANGED <<fstate, attempts, staged, todo2, snap2, wdest2, call2, unwritten>>
    BY <1>1
  <2>2. wdest2[f] \in Dests /\ (Sole(f) => staged[PathOf[f]] = f)
    BY DEF Targets, StagedInv
  <2>3. Grows
    BY <2>1, <2>2 DEF Grows, Sole
  <2>4. TwoTypeOK'
    BY <1>1, <2>1, <2>2 DEF firstVars, callVars, workerVars, Step
  <2>5. Delivered(wpc2, wdest2)'
    BY <2>1, <2>2, <2>3 DEF Delivered, Targets, Grows, Sole
  <2>6. CallRuns(call2, todo2, wpc2)' /\ Targets(wpc2, wdest2)' /\ Tries(wpc2, snap2)'
    BY <2>1 DEF CallRuns, Targets, Tries
  <2>7. OwnedInv' /\ StagedInv'
    BY <1>1, <2>1 DEF OwnedInv, StagedInv, Claimed, Sole, firstVars, callVars, workerVars
  <2>8. SharedMoves
    BY <2>1 DEF SharedMoves
  <2> QED
    BY <2>3, <2>4, <2>5, <2>6, <2>7, <2>8
<1>4. CASE Second!Cleanup(f)
  <2> USE <1>4 DEF Second!Cleanup, Second!Report, Second!rowVars, Second!diskVars, Second!callVars, Second!workerVars
  <2>1. UNCHANGED <<fstate, attempts, remote, todo2, snap2, wdest2, call2, unwritten>>
    BY <1>1
  <2>2. Grows
    BY <2>1 DEF Grows
  <2>3. TwoTypeOK'
    BY <1>1, <2>1 DEF firstVars, callVars, workerVars, Step, Content
  <2>4. CallRuns(call2, todo2, wpc2)' /\ Targets(wpc2, wdest2)' /\ Tries(wpc2, snap2)'
    BY <2>1 DEF CallRuns, Targets, Tries
  <2>5. Delivered(wpc2, wdest2)'
    BY <2>1 DEF Delivered, Sole
  <2>6. OwnedInv' /\ StagedInv'
    BY <1>1, <2>1 DEF OwnedInv, StagedInv, Claimed, Sole, firstVars, callVars, workerVars
  <2>7. SharedMoves
    <3>1. Sole(f) => wdest2[f] \in Dests /\ remote'[wdest2[f]][PathOf[f]] = f
      BY <2>1 DEF Delivered, Targets
    <3>2. ASSUME NEW g \in Files, Sole(g), g # f PROVE staged'[PathOf[g]] = staged[PathOf[g]]
      BY <3>2 DEF Sole
    <3> QED
      BY <2>1, <3>1, <3>2 DEF SharedMoves
  <2> QED
    BY <2>2, <2>3, <2>4, <2>5, <2>6, <2>7
<1> QED
  BY <1>1, <1>2, <1>3, <1>4 DEF Second!WorkerStep, Second!Dests, Dests

-----------------------------------------------------------------------------
(* Row writes that fail: the goroutine goes on, the row does not follow.   *)

LEMMA FirstLosesWrite ==
  ASSUME TwoInv, NEW f \in Files, RowWriteFails(f), UNCHANGED secondVars, unwritten' = unwritten \cup {f}
  PROVE  TwoTypeOK' /\ Grows /\ SharedMoves /\ OwnedInv' /\ StagedInv' /\ FirstInv'
<1> USE ConstantsAssumption DEF TwoInv, FirstInv, CallInv, TwoTypeOK
<1>1. /\ UNCHANGED <<fstate, attempts, staged, remote, call, todo, snap, wdest>>
      /\ wpc[f] # "none"
      /\ \E x \in {"none", "choose", "settle", "cleanup"} :
            /\ wpc' = [wpc EXCEPT ![f] = x]
            /\ x = "cleanup" => wpc[f] = "acknowledge"
  BY DEF RowWriteFails, rowVars, diskVars, recordVars, callVars, resultVars, workerVars, histVars
<1>2. Grows /\ SharedMoves /\ StagedInv'
  BY <1>1 DEF Grows, SharedMoves, StagedInv, Sole
<1>3. TwoTypeOK'
  BY <1>1 DEF Step, secondVars
<1>4. CallRuns(call, todo, wpc)' /\ Targets(wpc, wdest)' /\ Tries(wpc, snap)'
  BY <1>1 DEF CallRuns, Targets, Tries
<1>5. Delivered(wpc, wdest)'
  BY <1>1 DEF Delivered, Sole
<1>6. OwnedInv'
  BY <1>1 DEF OwnedInv, secondVars
<1> QED
  BY <1>2, <1>3, <1>4, <1>5, <1>6

LEMMA SecondLosesWrite ==
  ASSUME TwoInv, NEW f \in Files, Second!RowWriteFails(f), UNCHANGED firstVars, unwritten' = unwritten \cup {f}
  PROVE  TwoTypeOK' /\ Grows /\ SharedMoves /\ OwnedInv' /\ StagedInv' /\ SecondInv'
<1> USE ConstantsAssumption DEF TwoInv, SecondInv, CallInv, TwoTypeOK
<1>1. /\ UNCHANGED <<fstate, attempts, staged, remote, call2, todo2, snap2, wdest2>>
      /\ wpc2[f] # "none"
      /\ \E x \in {"none", "choose", "settle", "cleanup"} :
            /\ wpc2' = [wpc2 EXCEPT ![f] = x]
            /\ x = "cleanup" => wpc2[f] = "acknowledge"
  BY DEF Second!RowWriteFails, Second!rowVars, Second!diskVars, Second!recordVars, Second!callVars, Second!resultVars, Second!workerVars, Second!histVars
<1>2. Grows /\ SharedMoves /\ StagedInv'
  BY <1>1 DEF Grows, SharedMoves, StagedInv, Sole
<1>3. TwoTypeOK'
  BY <1>1 DEF Step, firstVars, callVars, workerVars
<1>4. CallRuns(call2, todo2, wpc2)' /\ Targets(wpc2, wdest2)' /\ Tries(wpc2, snap2)'
  BY <1>1 DEF CallRuns, Targets, Tries
<1>5. Delivered(wpc2, wdest2)'
  BY <1>1 DEF Delivered, Sole
<1>6. OwnedInv'
  BY <1>1 DEF OwnedInv, firstVars, callVars, workerVars
<1> QED
  BY <1>2, <1>3, <1>4, <1>5, <1>6

-----------------------------------------------------------------------------
(* Calls start, are cancelled, start goroutines and end: rows and disks are *)
(* left alone.                                                             *)

LEMMA FirstBegins ==
  ASSUME TwoInv, UNCHANGED <<secondVars, unwritten>>,
         (\E D \in SUBSET Dests : StartUpload(D)) \/ (\E f \in Files : Spawn(f)) \/ Cancel
  PROVE  TwoTypeOK' /\ Grows /\ SharedMoves /\ OwnedInv' /\ StagedInv' /\ FirstInv'
<1> USE ConstantsAssumption DEF TwoInv, FirstInv, CallInv, TwoTypeOK
<1>1. UNCHANGED <<fstate, attempts, staged, remote, wdest, unwritten, secondVars>>
  BY DEF StartUpload, Spawn, Cancel, rowVars, diskVars, recordVars, callVars, resultVars, workerVars, histVars
<1>2. Grows /\ SharedMoves /\ StagedInv'
  BY <1>1 DEF Grows, SharedMoves, StagedInv, Sole
<1>3. ASSUME NEW D \in SUBSET Dests, StartUpload(D)
      PROVE  TwoTypeOK' /\ OwnedInv' /\ FirstInv'
  <2>1. /\ call = "idle" /\ call' = "running" /\ todo' \subseteq Files /\ snap' = attempts
        /\ UNCHANGED wpc
    BY <1>3 DEF StartUpload, QueuedFiles, rowVars, diskVars, recordVars, callVars, resultVars, workerVars, histVars
  <2> QED
    BY <1>1, <2>1 DEF OwnedInv, CallRuns, Targets, Delivered, Tries, Sole, secondVars
<1>4. ASSUME NEW f \in Files, Spawn(f)
      PROVE  TwoTypeOK' /\ OwnedInv' /\ FirstInv'
  <2>1. /\ f \in todo /\ todo' = todo \ {f} /\ wpc' = [wpc EXCEPT ![f] = "stat"]
        /\ UNCHANGED <<call, snap>>
    BY <1>4 DEF Spawn, rowVars, diskVars, recordVars, callVars, resultVars, workerVars, histVars
  <2>2. TwoTypeOK'
    BY <1>1, <2>1 DEF Step, secondVars
  <2>3. OwnedInv'
    BY <1>1, <2>1 DEF OwnedInv, CallRuns, Claimed, secondVars
  <2> QED
    BY <1>1, <2>1, <2>2, <2>3 DEF CallRuns, Targets, Delivered, Tries, Sole
<1>5. CASE Cancel
  <2>1. UNCHANGED <<call, todo, wpc, snap>>
    BY <1>5 DEF Cancel, rowVars, diskVars, recordVars, callVars, resultVars, workerVars, histVars
  <2> QED
    BY <1>1, <1>2, <2>1 DEF OwnedInv, CallRuns, Targets, Delivered, Tries, Sole, secondVars
<1> QED
  BY <1>2, <1>3, <1>4, <1>5

LEMMA FirstFinishes ==
  ASSUME TwoInv, FinishUpload, UNCHANGED <<secondVars, unwritten>>
  PROVE  TwoTypeOK' /\ Grows /\ SharedMoves /\ OwnedInv' /\ StagedInv' /\ FirstInv'
<1> USE ConstantsAssumption DEF TwoInv, FirstInv, CallInv, TwoTypeOK
<1>1. UNCHANGED <<fstate, attempts, staged, remote>>
  BY DEF FinishUpload, rowVars, diskVars, recordVars, callVars, resultVars, workerVars, histVars
<1>2. Grows /\ SharedMoves /\ StagedInv'
  BY <1>1 DEF Grows, SharedMoves, StagedInv, Sole
<1>3. /\ todo' = {} /\ snap' = [f \in Files |-> 0]
      /\ wpc' = [f \in Files |-> "none"] /\ wdest' = [f \in Files |-> 0]
  BY DEF FinishUpload, EndCall
<1>4. TwoTypeOK' /\ FirstInv'
  BY <1>1, <1>3 DEF CallRuns, Targets, Delivered, Tries, Step, secondVars
<1>5. \A f \in Files : wpc[f] = "none"
  BY DEF FinishUpload, Active
<1>6. OwnedInv'
  BY <1>1, <1>5 DEF OwnedInv, Claimed, secondVars
<1> QED
  BY <1>2, <1>4, <1>6

LEMMA SecondBegins ==
  ASSUME TwoInv, UNCHANGED <<firstVars, unwritten>>,
         (\E D \in SUBSET Dests : Second!StartUpload(D)) \/ (\E f \in Files : Second!Spawn(f)) \/ Second!Cancel
  PROVE  TwoTypeOK' /\ Grows /\ SharedMoves /\ OwnedInv' /\ StagedInv' /\ SecondInv'
<1> USE ConstantsAssumption DEF TwoInv, SecondInv, CallInv, TwoTypeOK
<1>1. UNCHANGED <<fstate, attempts, staged, remote, wdest2, unwritten, firstVars>>
  BY DEF Second!StartUpload, Second!Spawn, Second!Cancel, Second!rowVars, Second!diskVars, Second!recordVars, Second!callVars, Second!resultVars, Second!workerVars, Second!histVars
<1>2. Grows /\ SharedMoves /\ StagedInv'
  BY <1>1 DEF Grows, SharedMoves, StagedInv, Sole
<1>3. ASSUME NEW D \in SUBSET Dests, Second!StartUpload(D)
      PROVE  TwoTypeOK' /\ OwnedInv' /\ SecondInv'
  <2>1. /\ call2 = "idle" /\ call2' = "running" /\ todo2' \subseteq Files /\ snap2' = attempts
        /\ UNCHANGED wpc2
    BY <1>3 DEF Second!StartUpload, Second!QueuedFiles, Second!rowVars, Second!diskVars, Second!recordVars, Second!callVars, Second!resultVars, Second!workerVars, Second!histVars
  <2> QED
    BY <1>1, <2>1 DEF OwnedInv, CallRuns, Targets, Delivered, Tries, Sole, firstVars, callVars, workerVars
<1>4. ASSUME NEW f \in Files, Second!Spawn(f)
      PROVE  TwoTypeOK' /\ OwnedInv' /\ SecondInv'
  <2>1. /\ f \in todo2 /\ todo2' = todo2 \ {f} /\ wpc2' = [wpc2 EXCEPT ![f] = "stat"]
        /\ UNCHANGED <<call2, snap2>>
    BY <1>4 DEF Second!Spawn, Second!rowVars, Second!diskVars, Second!recordVars, Second!callVars, Second!resultVars, Second!workerVars, Second!histVars
  <2>2. TwoTypeOK'
    BY <1>1, <2>1 DEF Step, firstVars, callVars, workerVars
  <2>3. OwnedInv'
    BY <1>1, <2>1 DEF OwnedInv, CallRuns, Claimed, firstVars, callVars, workerVars
  <2> QED
    BY <1>1, <2>1, <2>2, <2>3 DEF CallRuns, Targets, Delivered, Tries, Sole
<1>5. CASE Second!Cancel
  <2>1. UNCHANGED <<call2, todo2, wpc2, snap2>>
    BY <1>5 DEF Second!Cancel, Second!rowVars, Second!diskVars, Second!recordVars, Second!callVars, Second!resultVars, Second!workerVars, Second!histVars
  <2> QED
    BY <1>1, <1>2, <2>1 DEF OwnedInv, CallRuns, Targets, Delivered, Tries, Sole, firstVars, callVars, workerVars
<1> QED
  BY <1>2, <1>3, <1>4, <1>5

LEMMA SecondFinishes ==
  ASSUME TwoInv, Second!FinishUpload, UNCHANGED <<firstVars, unwritten>>
  PROVE  TwoTypeOK' /\ Grows /\ SharedMoves /\ OwnedInv' /\ StagedInv' /\ SecondInv'
<1> USE ConstantsAssumption DEF TwoInv, SecondInv, CallInv, TwoTypeOK
<1>1. UNCHANGED <<fstate, attempts, staged, remote>>
  BY DEF Second!FinishUpload, Second!rowVars, Second!diskVars, Second!recordVars, Second!callVars, Second!resultVars, Second!workerVars, Second!histVars
<1>2. Grows /\ SharedMoves /\ StagedInv'
  BY <1>1 DEF Grows, SharedMoves, StagedInv, Sole
<1>3. /\ todo2' = {} /\ snap2' = [f \in Files |-> 0]
      /\ wpc2' = [f \in Files |-> "none"] /\ wdest2' = [f \in Files |-> 0]
  BY DEF Second!FinishUpload, Second!EndCall
<1>4. TwoTypeOK' /\ SecondInv'
  BY <1>1, <1>3 DEF CallRuns, Targets, Delivered, Tries, Step, firstVars, callVars, workerVars
<1>5. \A f \in Files : wpc2[f] = "none"
  BY DEF Second!FinishUpload, Second!Active
<1>6. OwnedInv'
  BY <1>1, <1>5 DEF OwnedInv, Claimed, firstVars, callVars, workerVars
<1> QED
  BY <1>2, <1>4, <1>6

-----------------------------------------------------------------------------
(* Both calls end at once, with the process.                               *)

LEMMA CrashBothStep ==
  ASSUME TwoInv, CrashBoth
  PROVE  TwoInv'
<1> USE ConstantsAssumption DEF TwoInv, TwoTypeOK
<1>1. /\ UNCHANGED <<attempts, staged, remote, unwritten>>
      /\ fstate' = [f \in Files |-> IF fstate[f] = "uploading" THEN "queued" ELSE fstate[f]]
  BY DEF CrashBoth, ResetStuckFiles, diskVars
<1>2. /\ todo' = {} /\ snap' = [f \in Files |-> 0]
      /\ wpc' = [f \in Files |-> "none"] /\ wdest' = [f \in Files |-> 0]
      /\ todo2' = {} /\ snap2' = [f \in Files |-> 0]
      /\ wpc2' = [f \in Files |-> "none"] /\ wdest2' = [f \in Files |-> 0]
  BY DEF CrashBoth, EndCall, Second!EndCall
<1>3. TwoTypeOK'
  BY <1>1, <1>2 DEF FileState, Step
<1>4. FirstInv' /\ SecondInv'
  BY <1>1, <1>2 DEF FirstInv, SecondInv, CallInv, CallRuns, Targets, Delivered, Tries
<1>5. OwnedInv' /\ StagedInv'
  BY <1>1 DEF OwnedInv, StagedInv, Sole
<1>6. Grows /\ SharedMoves
  BY <1>1 DEF Grows, SharedMoves
<1> QED
  BY <1>3, <1>4, <1>5, <1>6, SharedStep

-----------------------------------------------------------------------------
\* One of the calls moves; the other's part of the invariant is kept because
\* copies, counts and failed writes only grow.
LEMMA TwoStep == TwoInv /\ [TwoNext]_twoVars => TwoInv'
<1> SUFFICES ASSUME TwoInv, [TwoNext]_twoVars PROVE TwoInv'
  OBVIOUS
<1>1. CASE TwoTypeOK' /\ Grows /\ SharedMoves /\ OwnedInv' /\ StagedInv' /\ FirstInv' /\ UNCHANGED secondVars
  BY <1>1, OtherCall, SharedStep DEF TwoInv
<1>2. CASE TwoTypeOK' /\ Grows /\ SharedMoves /\ OwnedInv' /\ StagedInv' /\ SecondInv' /\ UNCHANGED firstVars
  BY <1>2, OtherCall, SharedStep DEF TwoInv
<1>3. ASSUME NEW D \in SUBSET Dests, StartFirst(D) \/ StartSecond(D) PROVE TwoInv'
  BY <1>1, <1>2, <1>3, FirstBegins, SecondBegins DEF StartFirst, StartSecond
<1>4. ASSUME NEW f \in Files, StepOfFirst(f) \/ StepOfSecond(f) PROVE TwoInv'
  BY <1>1, <1>2, <1>4, FirstWorker, SecondWorker DEF StepOfFirst, StepOfSecond
<1>5. ASSUME NEW f \in Files, LosesWrite(f) PROVE TwoInv'
  BY <1>1, <1>2, <1>5, FirstLosesWrite, SecondLosesWrite DEF LosesWrite
<1>6. CASE SpawnAny
  BY <1>1, <1>2, <1>6, FirstBegins, SecondBegins DEF SpawnAny
<1>7. CASE HolderCall
  BY <1>1, <1>2, <1>7, FirstBegins, SecondBegins DEF HolderCall
<1>8. CASE FinishFirst \/ FinishSecond
  BY <1>1, <1>2, <1>8, FirstFinishes, SecondFinishes DEF FinishFirst, FinishSecond
<1>9. CASE CrashBoth
  BY <1>9, CrashBothStep
<1>10. CASE UNCHANGED twoVars
  <2>1. UNCHANGED <<fstate, attempts, staged, remote, unwritten, firstVars, secondVars>>
    BY <1>10 DEF twoVars, sharedVars, rowVars, diskVars
  <2>2. TwoTypeOK' /\ Grows /\ SharedMoves /\ OwnedInv' /\ StagedInv'
    BY <2>1 DEF TwoInv, TwoTypeOK, Grows, SharedMoves, OwnedInv, StagedInv, Sole, firstVars, secondVars, callVars, workerVars
  <2> QED
    BY <2>1, <2>2, <1>1, OtherCall DEF TwoInv
<1> QED
  BY <1>3, <1>4, <1>5, <1>6, <1>7, <1>8, <1>9, <1>10 DEF TwoNext

LEMMA TwoInvariance == TwoSpec => []TwoInv
BY TwoInitInv, TwoStep, PTL DEF TwoSpec

\* A file that shares its path with no other is always staged or at a
\* destination, whatever two uploads over the same rows do, however they are
\* cancelled, and whichever row writes fail.
THEOREM NothingIsLost == TwoSpec => []NothingLost
<1>1. TwoInv => NothingLost
  BY DEF TwoInv
<1> QED
  BY <1>1, TwoInvariance, PTL

\* Two calls do not confirm what no destination has.
THEOREM TwoConfirmTruly == TwoSpec => []UploadedHasCopy
<1>1. TwoInv => UploadedHasCopy
  BY DEF TwoInv
<1> QED
  BY <1>1, TwoInvariance, PTL

\* With both calls over, only a failed row write leaves a row uploading.
THEOREM OnlyLostWritesStick == TwoSpec => []StuckRowAccounted
<1>1. TwoInv => StuckRowAccounted
  <2> SUFFICES ASSUME TwoInv, Running = {}, NEW f \in Files, fstate[f] = "uploading" PROVE f \in unwritten
    BY DEF StuckRowAccounted
  <2>1. call # "running" /\ call2 # "running"
    BY DEF Running
  <2>2. wpc[f] = "none" /\ wpc2[f] = "none"
    BY <2>1 DEF TwoInv, FirstInv, SecondInv, CallInv, CallRuns
  <2> QED
    BY <2>2 DEF TwoInv, OwnedInv, Claimed
<1> QED
  BY <1>1, TwoInvariance, PTL

\* If no two contents share a path, a file is given up before its attempts are
\* used up only with a copy at a destination or after a failed row write.
THEOREM EarlyGiveUpsAccounted == (\A f \in Files : Sole(f)) => (TwoSpec => []EarlyGiveUpIsDelivered)
<1> SUFFICES ASSUME \A f \in Files : Sole(f) PROVE TwoSpec => []EarlyGiveUpIsDelivered
  OBVIOUS
<1>1. TwoInv => EarlyGiveUpIsDelivered
  BY DEF TwoInv, EarlyInv, EarlyGiveUpIsDelivered
<1> QED
  BY <1>1, TwoInvariance, PTL

-----------------------------------------------------------------------------
(* What is recorded of a call's result.                                    *)

\* A destination that took a file never becomes empty again, and a call
\* reports only such destinations; what it has uploaded went to one of them.
TookBackup(d) == \E p \in Paths : remote[d][p] # NoFile
Reports(w, wd, up, us) ==
  /\ \A f \in Files : w[f] \in {"acknowledge", "cleanup"} => TookBackup(wd[f])
  /\ us \subseteq Dests /\ \A d \in us : TookBackup(d)
  /\ up # {} => us # {}
FirstReports  == Reports(wpc, wdest, uploaded, used)
SecondReports == Reports(wpc2, wdest2, uploaded2, used2)
Recorded == /\ reported \subseteq Dests /\ \A d \in reported : TookBackup(d)
            /\ lastSyncDest # 0 => lastSyncDest \in reported
RecordInv == FirstReports /\ SecondReports /\ Recorded

Keeps == \A d \in Dests : TookBackup(d) => TookBackup(d)'

\* What does not move keeps its word while destinations keep their files.
LEMMA OtherReports ==
  ASSUME TwoInv, RecordInv, Keeps
  PROVE  /\ UNCHANGED <<wpc, wdest, uploaded, used>> => FirstReports'
         /\ UNCHANGED <<wpc2, wdest2, uploaded2, used2>> => SecondReports'
         /\ UNCHANGED recordVars => Recorded'
<1> USE DEF TwoInv, RecordInv, Keeps, Reports
<1>1. ASSUME UNCHANGED <<wpc, wdest, uploaded, used>> PROVE FirstReports'
  BY <1>1 DEF FirstReports, FirstInv, CallInv, Targets
<1>2. ASSUME UNCHANGED <<wpc2, wdest2, uploaded2, used2>> PROVE SecondReports'
  BY <1>2 DEF SecondReports, SecondInv, CallInv, Targets
<1>3. ASSUME UNCHANGED recordVars PROVE Recorded'
  BY <1>3 DEF Recorded, recordVars
<1> QED
  BY <1>1, <1>2, <1>3

LEMMA FirstCallReports ==
  ASSUME TwoInv, RecordInv,
         \/ \E D \in SUBSET Dests : StartUpload(D)
         \/ \E f \in Files : Spawn(f) \/ WorkerStep(f) \/ RowWriteFails(f)
         \/ Cancel \/ FinishUpload
  PROVE  Keeps /\ FirstReports' /\ Recorded'
<1> USE ConstantsAssumption DEF TwoInv, TwoTypeOK, RecordInv, FirstInv, CallInv, Targets, FirstReports, Reports
<1>1. ASSUME UNCHANGED <<remote, recordVars, uploaded, used>>,
             \A f \in Files : wpc'[f] \in {"acknowledge", "cleanup"} =>
                /\ wpc[f] \in {"acknowledge", "cleanup"}
                /\ wdest'[f] = wdest[f]
      PROVE  Keeps /\ FirstReports' /\ Recorded'
  BY <1>1 DEF Keeps, Recorded, TookBackup, recordVars
<1>2. CASE \/ \E D \in SUBSET Dests : StartUpload(D)
           \/ \E f \in Files : Spawn(f)
           \/ Cancel
  BY <1>1, <1>2 DEF StartUpload, Spawn, Cancel, rowVars, diskVars, recordVars, callVars, resultVars,
      workerVars, histVars
<1>3. ASSUME NEW f \in Files, RowWriteFails(f) PROVE Keeps /\ FirstReports' /\ Recorded'
  BY <1>1, <1>3 DEF RowWriteFails, rowVars, diskVars, recordVars, callVars, resultVars, workerVars, histVars
<1>4. ASSUME NEW f \in Files,
             \/ StatMissing(f) \/ StatPresent(f) \/ Exhausted(f) \/ TransferFailed(f)
             \/ Cancelled(f) \/ ChargeAttempt(f) \/ SettleFailure(f) \/ Acknowledge(f)
             \/ \E d \in Dests : Choose(f, d)
      PROVE  Keeps /\ FirstReports' /\ Recorded'
  BY <1>1, <1>4 DEF StatMissing, StatPresent, Choose, Exhausted, TransferFailed, MarkDead, Cancelled, PutBack,
      ChargeAttempt, SettleFailure, GivesUp, Acknowledge, rowVars, diskVars, recordVars, callVars, resultVars,
      workerVars, histVars
<1>5. ASSUME NEW f \in Files, TransferOk(f) PROVE Keeps /\ FirstReports' /\ Recorded'
  <2>1. wdest[f] \in Dests /\ PathOf[f] \in Paths /\ staged[PathOf[f]] # NoFile
    BY <1>5 DEF TransferOk
  <2>2. /\ remote' = [remote EXCEPT ![wdest[f]][PathOf[f]] = staged[PathOf[f]]]
        /\ wpc' = [wpc EXCEPT ![f] = "acknowledge"]
        /\ UNCHANGED <<recordVars, wdest, uploaded, used>>
    BY <1>5 DEF TransferOk, rowVars, diskVars, recordVars, callVars, resultVars, workerVars, histVars,
        recordVars
  <2>3. Keeps /\ TookBackup(wdest[f])'
    BY <2>1, <2>2 DEF Keeps, TookBackup
  <2>4. FirstReports'
    BY <2>2, <2>3 DEF Keeps
  <2> QED
    BY <2>2, <2>3, <2>4, OtherReports
<1>6. ASSUME NEW f \in Files, Cleanup(f) PROVE Keeps /\ FirstReports' /\ Recorded'
  <2>1. /\ UNCHANGED <<remote, recordVars, wdest>>
        /\ wpc[f] = "cleanup" /\ wpc' = [wpc EXCEPT ![f] = "none"]
        /\ uploaded' = uploaded \cup {f} /\ used' = used \cup {wdest[f]}
    BY <1>6 DEF Cleanup, Report, rowVars, diskVars, recordVars, callVars, resultVars, workerVars, histVars,
        recordVars
  <2>2. Keeps
    BY <2>1 DEF Keeps, TookBackup
  <2>3. FirstReports'
    BY <2>1, <2>2 DEF Keeps
  <2> QED
    BY <2>1, <2>2, <2>3, OtherReports
<1>7. ASSUME FinishUpload PROVE Keeps /\ FirstReports' /\ Recorded'
  <2>1. /\ remote' = remote /\ uploaded' = {} /\ used' = {}
        /\ wpc' = [f \in Files |-> "none"]
        /\ \/ UNCHANGED <<reported, lastSyncDest>>
           \/ /\ reported' = reported \cup used
              /\ lastSyncDest' \in used
    BY <1>7 DEF FinishUpload, RecordUsed, EndCall, rowVars, diskVars, recordVars, callVars, resultVars,
        workerVars, histVars, recordVars
  <2>2. Keeps
    BY <2>1 DEF Keeps, TookBackup
  <2> QED
    BY <2>1, <2>2 DEF Keeps, Recorded
<1> QED
  BY <1>2, <1>3, <1>4, <1>5, <1>6, <1>7 DEF WorkerStep

LEMMA SecondCallReports ==
  ASSUME TwoInv, RecordInv,
         \/ \E D \in SUBSET Dests : Second!StartUpload(D)
         \/ \E f \in Files : Second!Spawn(f) \/ Second!WorkerStep(f) \/ Second!RowWriteFails(f)
         \/ Second!Cancel \/ Second!FinishUpload
  PROVE  Keeps /\ SecondReports' /\ Recorded'
<1> USE ConstantsAssumption DEF TwoInv, TwoTypeOK, RecordInv, SecondInv, CallInv, Targets, SecondReports, Reports
<1>1. ASSUME UNCHANGED <<remote, recordVars, uploaded2, used2>>,
             \A f \in Files : wpc2'[f] \in {"acknowledge", "cleanup"} =>
                /\ wpc2[f] \in {"acknowledge", "cleanup"}
                /\ wdest2'[f] = wdest2[f]
      PROVE  Keeps /\ SecondReports' /\ Recorded'
  BY <1>1 DEF Keeps, Recorded, TookBackup, recordVars
<1>2. CASE \/ \E D \in SUBSET Dests : Second!StartUpload(D)
           \/ \E f \in Files : Second!Spawn(f)
           \/ Second!Cancel
  BY <1>1, <1>2 DEF Second!StartUpload, Second!Spawn, Second!Cancel, Second!rowVars, Second!diskVars,
      Second!recordVars, Second!callVars, Second!resultVars, Second!workerVars, Second!histVars, recordVars
<1>3. ASSUME NEW f \in Files, Second!RowWriteFails(f) PROVE Keeps /\ SecondReports' /\ Recorded'
  BY <1>1, <1>3 DEF Second!RowWriteFails, Second!rowVars, Second!diskVars, Second!recordVars, Second!callVars,
      Second!resultVars, Second!workerVars, Second!histVars, recordVars
<1>4. ASSUME NEW f \in Files,
             \/ Second!StatMissing(f) \/ Second!StatPresent(f) \/ Second!Exhausted(f) \/ Second!TransferFailed(f)
             \/ Second!Cancelled(f) \/ Second!ChargeAttempt(f) \/ Second!SettleFailure(f) \/ Second!Acknowledge(f)
             \/ \E d \in Dests : Second!Choose(f, d)
      PROVE  Keeps /\ SecondReports' /\ Recorded'
  BY <1>1, <1>4 DEF Second!StatMissing, Second!StatPresent, Second!Choose, Second!Exhausted,
      Second!TransferFailed, Second!MarkDead, Second!Cancelled, Second!PutBack, Second!ChargeAttempt,
      Second!SettleFailure, Second!GivesUp, Second!Acknowledge, Second!rowVars, Second!diskVars,
      Second!recordVars, Second!callVars, Second!resultVars, Second!workerVars, Second!histVars, recordVars
<1>5. ASSUME NEW f \in Files, Second!TransferOk(f) PROVE Keeps /\ SecondReports' /\ Recorded'
  <2>1. wdest2[f] \in Dests /\ PathOf[f] \in Paths /\ staged[PathOf[f]] # NoFile
    BY <1>5 DEF Second!TransferOk
  <2>2. /\ remote' = [remote EXCEPT ![wdest2[f]][PathOf[f]] = staged[PathOf[f]]]
        /\ wpc2' = [wpc2 EXCEPT ![f] = "acknowledge"]
        /\ UNCHANGED <<recordVars, wdest2, uploaded2, used2>>
    BY <1>5 DEF Second!TransferOk, Second!rowVars, Second!diskVars, Second!recordVars, Second!callVars,
        Second!resultVars, Second!workerVars, Second!histVars, recordVars
  <2>3. Keeps /\ TookBackup(wdest2[f])'
    BY <2>1, <2>2 DEF Keeps, TookBackup
  <2>4. SecondReports'
    BY <2>2, <2>3 DEF Keeps
  <2> QED
    BY <2>2, <2>3, <2>4, OtherReports
<1>6. ASSUME NEW f \in Files, Second!Cleanup(f) PROVE Keeps /\ SecondReports' /\ Recorded'
  <2>1. /\ UNCHANGED <<remote, recordVars, wdest2>>
        /\ wpc2[f] = "cleanup" /\ wpc2' = [wpc2 EXCEPT ![f] = "none"]
        /\ uploaded2' = uploaded2 \cup {f} /\ used2' = used2 \cup {wdest2[f]}
    BY <1>6 DEF Second!Cleanup, Second!Report, Second!rowVars, Second!diskVars, Second!recordVars,
        Second!callVars, Second!resultVars, Second!workerVars, Second!histVars, recordVars
  <2>2. Keeps
    BY <2>1 DEF Keeps, TookBackup
  <2>3. SecondReports'
    BY <2>1, <2>2 DEF Keeps
  <2> QED
    BY <2>1, <2>2, <2>3, OtherReports
<1>7. ASSUME Second!FinishUpload PROVE Keeps /\ SecondReports' /\ Recorded'
  <2>1. /\ remote' = remote /\ uploaded2' = {} /\ used2' = {}
        /\ wpc2' = [f \in Files |-> "none"]
        /\ \/ UNCHANGED <<reported, lastSyncDest>>
           \/ /\ reported' = reported \cup used2
              /\ lastSyncDest' \in used2
    BY <1>7 DEF Second!FinishUpload, Second!RecordUsed, Second!EndCall, Second!rowVars, Second!diskVars,
        Second!recordVars, Second!callVars, Second!resultVars, Second!workerVars, Second!histVars, recordVars
  <2>2. Keeps
    BY <2>1 DEF Keeps, TookBackup
  <2> QED
    BY <2>1, <2>2 DEF Keeps, Recorded
<1> QED
  BY <1>2, <1>3, <1>4, <1>5, <1>6, <1>7 DEF Second!WorkerStep, Second!Dests, Dests

LEMMA RecordStep == TwoInv /\ RecordInv /\ [TwoNext]_twoVars => RecordInv'
<1> SUFFICES ASSUME TwoInv, RecordInv, [TwoNext]_twoVars PROVE RecordInv'
  OBVIOUS
<1>1. CASE Keeps /\ FirstReports' /\ Recorded' /\ UNCHANGED secondVars
  BY <1>1, OtherReports DEF RecordInv, secondVars
<1>2. CASE Keeps /\ SecondReports' /\ Recorded' /\ UNCHANGED firstVars
  BY <1>2, OtherReports DEF RecordInv, firstVars, workerVars, resultVars
<1>3. CASE (\E D \in SUBSET Dests : StartFirst(D)) \/ (\E f \in Files : StepOfFirst(f)) \/ FinishFirst
  BY <1>1, <1>3, FirstCallReports DEF StartFirst, StepOfFirst, FinishFirst
<1>4. CASE (\E D \in SUBSET Dests : StartSecond(D)) \/ (\E f \in Files : StepOfSecond(f)) \/ FinishSecond
  BY <1>2, <1>4, SecondCallReports DEF StartSecond, StepOfSecond, FinishSecond
<1>5. CASE (\E f \in Files : LosesWrite(f)) \/ SpawnAny \/ HolderCall
  BY <1>1, <1>2, <1>5, FirstCallReports, SecondCallReports DEF LosesWrite, SpawnAny, HolderCall
<1>6. CASE CrashBoth
  <2>1. /\ UNCHANGED <<remote, recordVars>>
        /\ wpc' = [f \in Files |-> "none"] /\ wpc2' = [f \in Files |-> "none"]
        /\ uploaded' = {} /\ used' = {} /\ uploaded2' = {} /\ used2' = {}
    BY <1>6 DEF CrashBoth, EndCall, Second!EndCall, diskVars
  <2> QED
    BY <2>1 DEF RecordInv, FirstReports, SecondReports, Reports, Recorded, TookBackup, recordVars
<1>7. CASE UNCHANGED twoVars
  <2>1. UNCHANGED <<remote, recordVars, wpc, wdest, uploaded, used, secondVars>>
    BY <1>7 DEF twoVars, sharedVars, diskVars, firstVars, workerVars, resultVars
  <2>2. Keeps /\ Recorded' /\ FirstReports'
    BY <2>1 DEF Keeps, TookBackup, RecordInv, Recorded, FirstReports, Reports, recordVars
  <2> QED
    BY <1>1, <2>1, <2>2
<1> QED
  BY <1>3, <1>4, <1>5, <1>6, <1>7 DEF TwoNext

\* Of two calls too, what is reported as backed up took a backup, and the
\* destination labelled last is among those reported.
THEOREM TwoReportTruly == TwoSpec => []ReportedTookBackup
<1>1. TwoInit => RecordInv
  BY DEF TwoInit, Init, NoCall, Second!NoCall, RecordInv, FirstReports, SecondReports, Reports, Recorded
<1>2. RecordInv => ReportedTookBackup
  BY DEF RecordInv, Recorded, TookBackup, ReportedTookBackup
<1> QED
  BY <1>1, <1>2, RecordStep, TwoInvariance, PTL DEF TwoSpec
=============================================================================
