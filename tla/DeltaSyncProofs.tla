-------------------------- MODULE DeltaSyncProofs --------------------------
(***************************************************************************)
(* Proofs about DeltaSync, for any number of rows and any batch size: the  *)
(* watermark never passes a change with a stamp of its own.                *)
(***************************************************************************)
EXTENDS DeltaSync, FiniteSetTheorems, TLAPS

\* A stamp of one's own is shared with no other row, and all marks are stamps.
StampInv ==
  /\ \A f \in Files : stamp[f] <= newest
  /\ \A f \in Files \ blurred : ver[f] # 0 => \A g \in Files \ {f} : stamp[g] # stamp[f]
  /\ watermark <= newest /\ mark <= newest

\* Nothing is sent that was not in the table.
ContentInv ==
  \A f \in Files : portal[f] <= ver[f] /\ late[f] <= ver[f] /\ body[f] <= ver[f]

\* What the heartbeat under way leaves out has a stamp beyond its mark.
InFlightInv ==
  sending => \A f \in Files \ blurred :
    portal[f] # ver[f] /\ body[f] # ver[f] => stamp[f] > mark

IInv == DTypeOK /\ StampInv /\ ContentInv /\ InFlightInv /\ PendingIsSelected

\* Of two changes the portal keeps one, and never loses the later.
LEMMA LaterIsOne ==
  ASSUME NEW x \in Nat, NEW y \in Nat
  PROVE  /\ Later(x, y) \in Nat /\ x <= Later(x, y) /\ y <= Later(x, y)
         /\ Later(x, y) = x \/ Later(x, y) = y
  BY DEF Later

LEMMA InitIInv == Init => IInv
<1> SUFFICES ASSUME Init PROVE IInv
  OBVIOUS
<1> USE DEF Init
<1>1. DTypeOK
  BY DEF DTypeOK
<1>2. StampInv /\ ContentInv /\ PendingIsSelected
  BY DEF StampInv, ContentInv, PendingIsSelected
<1>3. InFlightInv
  BY DEF InFlightInv
<1> QED BY <1>1, <1>2, <1>3 DEF IInv

\* A change: its stamp is later than every mark, or it is blurred.
LEMMA WriteStep ==
  ASSUME IInv, NEW f \in Files, NEW up \in BOOLEAN, Write(f, up)
  PROVE  IInv'
<1> USE DEF Write, Stamped, heartbeat, bounds
<1>1. DTypeOK'
  <2>1. CASE clock > newest
    BY <2>1 DEF IInv, DTypeOK
  <2>2. CASE ~(clock > newest)
    BY <2>2 DEF IInv, DTypeOK
  <2> QED BY <2>1, <2>2
<1>2. StampInv'
  <2>1. CASE clock > newest
    BY <2>1 DEF IInv, DTypeOK, StampInv
  <2>2. CASE ~(clock > newest)
    BY <2>2 DEF IInv, DTypeOK, StampInv
  <2> QED BY <2>1, <2>2
<1>3. ContentInv'
  BY DEF IInv, DTypeOK, ContentInv
<1>4. InFlightInv'
  <2>1. CASE clock > newest
    BY <2>1 DEF IInv, DTypeOK, StampInv, InFlightInv
  <2>2. CASE ~(clock > newest)
    BY <2>2 DEF IInv, DTypeOK, StampInv, InFlightInv
  <2> QED BY <2>1, <2>2
<1>5. PendingIsSelected'
  <2>1. CASE clock > newest
    BY <2>1 DEF IInv, DTypeOK, StampInv, PendingIsSelected
  <2>2. CASE ~(clock > newest)
    BY <2>2 DEF IInv, DTypeOK, StampInv, PendingIsSelected
  <2> QED BY <2>1, <2>2
<1> QED BY <1>1, <1>2, <1>3, <1>4, <1>5 DEF IInv

\* A restart: the rows it changes are blurred, the request is forgotten.
LEMMA RestartStep ==
  ASSUME IInv, Restart
  PROVE  IInv'
<1> USE DEF Restart, EndHeartbeat
<1>1. DTypeOK'
  <2>1. ver' \in [Files -> Nat] /\ body' \in [Files -> Nat] /\ restarts' \in Nat
    BY DEF IInv, DTypeOK
  <2>2. uploading' \subseteq Files /\ blurred' \subseteq Files
    BY DEF IInv, DTypeOK
  <2>3. sending' \in BOOLEAN
    OBVIOUS
  <2> QED BY <2>1, <2>2, <2>3 DEF IInv, DTypeOK
<1>2. StampInv'
  BY DEF IInv, DTypeOK, StampInv
<1>3. ContentInv'
  BY DEF IInv, DTypeOK, ContentInv
<1>4. InFlightInv'
  BY DEF InFlightInv
<1>5. PendingIsSelected'
  BY DEF IInv, DTypeOK, PendingIsSelected
<1> QED BY <1>1, <1>2, <1>3, <1>4, <1>5 DEF IInv

\* The clock alone changes nothing the invariant speaks of.
LEMMA ClockStep ==
  ASSUME IInv, Tick \/ StepBack
  PROVE  IInv'
<1>1. clock' \in Nat /\ steps' \in Nat
  BY DEF IInv, DTypeOK, Tick, StepBack, bounds
<1>2. UNCHANGED <<rows, watermark, heartbeat, portal, late, restarts>>
  BY DEF Tick, StepBack, bounds
<1> QED
  BY <1>1, <1>2 DEF IInv, DTypeOK, StampInv, ContentInv, InFlightInv, PendingIsSelected,
                    rows, heartbeat

\* A pending row left out of the batch is no older than any row in it, and no
\* other row has its stamp: the mark stays below it.
LEMMA BeginStep ==
  ASSUME IInv, NEW S \in SUBSET Files, BeginHeartbeat(S)
  PROVE  IInv'
<1> USE DEF BeginHeartbeat, rows, bounds
<1>1. S \subseteq Changed /\ OldestFirst(S) /\ (S = {} => S = Changed)
  BY DeltaAssumption, FS_EmptySet DEF Batch
<1>2. mark' \in Nat /\ mark' <= newest
  BY DEF IInv, DTypeOK, StampInv
<1>3. DTypeOK'
  BY <1>2 DEF IInv, DTypeOK
<1>4. StampInv'
  BY <1>2 DEF IInv, DTypeOK, StampInv
<1>5. ContentInv'
  BY DEF IInv, DTypeOK, ContentInv
<1>6. InFlightInv'
  <2> SUFFICES ASSUME NEW f \in Files \ blurred, portal[f] # ver[f], body'[f] # ver[f]
               PROVE  stamp[f] > mark'
    BY DEF InFlightInv
  <2>1. stamp[f] > watermark /\ ver[f] # 0 /\ f \in Changed
    BY DEF IInv, DTypeOK, ContentInv, PendingIsSelected, Changed
  <2>2. f \notin S
    BY DEF IInv, DTypeOK
  <2>3. PICK g \in S : mark' = stamp[g]
    BY <1>1, <2>1, <2>2
  <2>4. stamp[g] <= stamp[f] /\ stamp[g] # stamp[f]
    BY <1>1, <2>1, <2>2, <2>3 DEF OldestFirst, IInv, StampInv
  <2> QED BY <2>3, <2>4 DEF IInv, DTypeOK
<1>7. PendingIsSelected'
  BY DEF IInv, PendingIsSelected
<1> QED BY <1>3, <1>4, <1>5, <1>6, <1>7 DEF IInv

\* The answer: the watermark takes the mark, which is below what is missing.
LEMMA AcknowledgedStep ==
  ASSUME IInv, Acknowledged
  PROVE  IInv'
<1> USE DEF Acknowledged, Takes, Advance, EndHeartbeat, rows, bounds
<1>1. \A f \in Files : /\ portal'[f] \in Nat /\ portal'[f] <= ver[f]
                       /\ portal[f] <= portal'[f] /\ body[f] <= portal'[f]
  BY LaterIsOne DEF IInv, DTypeOK, ContentInv
<1>2. DTypeOK'
  BY <1>1 DEF IInv, DTypeOK
<1>3. StampInv'
  BY DEF IInv, DTypeOK, StampInv
<1>4. ContentInv'
  BY <1>1 DEF IInv, DTypeOK, ContentInv
<1>5. InFlightInv'
  BY DEF InFlightInv
<1>6. PendingIsSelected'
  BY <1>1 DEF IInv, DTypeOK, ContentInv, InFlightInv, PendingIsSelected
<1> QED BY <1>2, <1>3, <1>4, <1>5, <1>6 DEF IInv

\* No answer: the watermark stays, so all is selected again.
LEMMA UnansweredStep ==
  ASSUME IInv, Unanswered
  PROVE  IInv'
<1> USE DEF Unanswered, EndHeartbeat, rows, bounds
<1>1. \A f \in Files : late'[f] \in Nat /\ late'[f] <= ver[f]
  BY LaterIsOne DEF IInv, DTypeOK, ContentInv
<1>2. DTypeOK'
  BY <1>1 DEF IInv, DTypeOK
<1>3. StampInv'
  BY DEF IInv, DTypeOK, StampInv
<1>4. ContentInv'
  BY <1>1 DEF IInv, DTypeOK, ContentInv
<1>5. InFlightInv'
  BY DEF InFlightInv
<1>6. PendingIsSelected'
  BY DEF IInv, PendingIsSelected
<1> QED BY <1>2, <1>3, <1>4, <1>5, <1>6 DEF IInv

\* A request handled late can only bring the portal closer to the table.
LEMMA HandledLateStep ==
  ASSUME IInv, HandledLate
  PROVE  IInv'
<1> USE DEF HandledLate, Takes, heartbeat, rows, bounds
<1>1. \A f \in Files : portal'[f] \in Nat /\ portal'[f] <= ver[f] /\ portal[f] <= portal'[f]
  BY LaterIsOne DEF IInv, DTypeOK, ContentInv
<1>2. DTypeOK'
  BY <1>1 DEF IInv, DTypeOK
<1>3. StampInv'
  BY DEF IInv, StampInv
<1>4. ContentInv'
  BY <1>1 DEF IInv, DTypeOK, ContentInv
<1>5. InFlightInv'
  BY <1>1 DEF IInv, DTypeOK, ContentInv, InFlightInv
<1>6. PendingIsSelected'
  BY <1>1 DEF IInv, DTypeOK, ContentInv, PendingIsSelected
<1> QED BY <1>2, <1>3, <1>4, <1>5, <1>6 DEF IInv

LEMMA NextIInv ==
  ASSUME IInv, [Next]_vars
  PROVE  IInv'
<1>1. CASE UNCHANGED vars
  BY <1>1 DEF IInv, DTypeOK, StampInv, ContentInv, InFlightInv, PendingIsSelected,
              vars, rows, heartbeat, bounds
<1>2. CASE Next
  BY <1>2, WriteStep, RestartStep, ClockStep, BeginStep, AcknowledgedStep, UnansweredStep,
     HandledLateStep DEF Next
<1> QED BY <1>1, <1>2

LEMMA Invariant == Spec => []IInv
  BY InitIInv, NextIInv, PTL DEF Spec

\* Every reachable state of the file delta is well typed (sendHeartbeat,
\* GetFilesChangedSince and the writes of files.go).
THEOREM TypeCorrect == Spec => []DTypeOK
<1>1. IInv => DTypeOK
  BY DEF IInv
<1> QED BY <1>1, Invariant, PTL

\* Whatever requests and answers are lost or late, a change of a row which has
\* a stamp of its own is at the portal or will be selected again, for any
\* number of rows and any batch size (heartbeat.go:236-324).
THEOREM NoChangeIsPassed == Spec => []PendingIsSelected
<1>1. IInv => PendingIsSelected
  BY DEF IInv
<1> QED BY <1>1, Invariant, PTL
=============================================================================
