--------------------------- MODULE FileLifecycle ---------------------------
(***************************************************************************)
(* What the files table promises about one archived file, whatever the     *)
(* program does in between: the order of its states (internal/db/files.go),*)
(* that "uploaded" is only ever written after a destination holds the      *)
(* file, and that a file is given up only after MaxAttempts failed cycles. *)
(* UploadAll and FilePipeline are shown to implement this module.          *)
(***************************************************************************)
EXTENDS Naturals

CONSTANTS Files,        \* rows of the files table (one per distinct content)
          Dests,        \* backup destinations
          MaxAttempts   \* maxUploadAttempts

VARIABLES fstate,       \* [Files -> FileState], the state column
          attempts,     \* [Files -> Nat], the upload_attempts column
          copies        \* [Files -> SUBSET Dests], the destinations holding it

vars == <<fstate, attempts, copies>>

\* "absent" stands for a content that has no row yet.
FileState == {"absent", "discovered", "copied", "queued", "uploading",
              "uploaded", "failed", "abandoned", "deleted"}

Init == /\ fstate \in [Files -> {"absent", "queued"}]
        /\ attempts = [f \in Files |-> 0]
        /\ copies = [f \in Files |-> {}]

Move(f, from, to) == /\ fstate[f] \in from
                     /\ fstate' = [fstate EXCEPT ![f] = to]

Discover(f) == Move(f, {"absent"}, "discovered") /\ UNCHANGED <<attempts, copies>>
Stage(f)    == Move(f, {"discovered"}, "copied") /\ UNCHANGED <<attempts, copies>>
Enqueue(f)  == Move(f, {"copied"}, "queued") /\ UNCHANGED <<attempts, copies>>
Claim(f)    == Move(f, {"queued", "failed"}, "uploading") /\ UNCHANGED <<attempts, copies>>

\* A destination takes the file; nothing is recorded yet.
Deliver(f, d) == /\ fstate[f] = "uploading"
                 /\ copies' = [copies EXCEPT ![f] = @ \cup {d}]
                 /\ UNCHANGED <<fstate, attempts>>

Acknowledge(f) == /\ copies[f] # {}
                  /\ Move(f, {"uploading"}, "uploaded")
                  /\ UNCHANGED <<attempts, copies>>

\* A whole cycle failed for the file: the counter first, the state after it.
Charge(f) == /\ fstate[f] = "uploading"
             /\ attempts' = [attempts EXCEPT ![f] = @ + 1]
             /\ UNCHANGED <<fstate, copies>>

Retry(f) == /\ attempts[f] < MaxAttempts
            /\ Move(f, {"uploading"}, "failed")
            /\ UNCHANGED <<attempts, copies>>

GiveUp(f) == /\ attempts[f] >= MaxAttempts
             /\ Move(f, {"uploading"}, "abandoned")
             /\ UNCHANGED <<attempts, copies>>

\* Cancellation of one upload, or startup recovery of all that were cut off.
Requeue(S) == /\ \A f \in S : fstate[f] = "uploading"
              /\ fstate' = [f \in Files |-> IF f \in S THEN "queued" ELSE fstate[f]]
              /\ UNCHANGED <<attempts, copies>>

Purge(f) == Move(f, {"uploaded"}, "deleted") /\ UNCHANGED <<attempts, copies>>

Next == \/ \E f \in Files :
             \/ Discover(f) \/ Stage(f) \/ Enqueue(f) \/ Claim(f)
             \/ \E d \in Dests : Deliver(f, d)
             \/ Acknowledge(f) \/ Charge(f) \/ Retry(f) \/ GiveUp(f) \/ Purge(f)
        \/ \E S \in SUBSET Files : Requeue(S)

Spec == Init /\ [][Next]_vars

-----------------------------------------------------------------------------
TypeOK == /\ fstate \in [Files -> FileState]
          /\ attempts \in [Files -> Nat]
          /\ copies \in [Files -> SUBSET Dests]

\* A row says uploaded (or was purged from the drive) only if a destination has it.
BackedUp == \A f \in Files : fstate[f] \in {"uploaded", "deleted"} => copies[f] # {}

\* A row is abandoned only after MaxAttempts charged cycles.
AbandonedIsExhausted == \A f \in Files : fstate[f] = "abandoned" => attempts[f] >= MaxAttempts
=============================================================================
