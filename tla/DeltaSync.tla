----------------------------- MODULE DeltaSync -----------------------------
(***************************************************************************)
(* The heartbeat's file delta (internal/agent/heartbeat.go sendHeartbeat): *)
(* rows of the files table changed since a watermark are sent to the       *)
(* portal, oldest change first and at most Limit of them, and the          *)
(* watermark moves to the newest of them when the portal answers. Rows are *)
(* changed meanwhile by ingest and UploadAll; each change is stamped with  *)
(* the wall clock (internal/db/files.go), startup recovery's is not.       *)
(***************************************************************************)
EXTENDS Integers, FiniteSets

CONSTANTS Files,
          Limit,        \* rows per heartbeat
          MaxChanges,   \* bound: changes of one row
          MaxClock,     \* bound: the clock's milliseconds
          MaxSteps,     \* bound: times the clock is set back
          MaxRestarts   \* bound: restarts of the process

ASSUME DeltaAssumption ==
  /\ IsFiniteSet(Files) /\ Limit \in Nat \ {0}
  /\ MaxChanges \in Nat /\ MaxClock \in Nat /\ MaxSteps \in Nat /\ MaxRestarts \in Nat

VARIABLES
  ver,        \* [Files -> Nat], changes of the row so far, 0 = no row
  stamp,      \* [Files -> Nat], updated_at
  uploading,  \* rows in state uploading
  watermark,  \* file_sync_watermark in the config table
  clock,      \* what strftime('now') yields
  sending,    \* a heartbeat is under way
  body,       \* [Files -> Nat], the rows in it, as read; 0 = not in it
  mark,       \* newWatermark
  portal,     \* [Files -> Nat], the content the portal has
  late,       \* [Files -> Nat], rows of requests given up on, which the
              \* portal may yet handle; 0 = none
  \* history
  newest,     \* the latest stamp ever given
  blurred,    \* rows whose last change has no stamp of its own, later than all before
  steps, restarts

rows      == <<ver, stamp, uploading, newest, blurred>>
heartbeat == <<sending, body, mark>>
bounds    == <<steps, restarts>>
vars == <<rows, watermark, clock, heartbeat, portal, late, bounds>>

DTypeOK ==
  /\ ver \in [Files -> Nat] /\ stamp \in [Files -> Nat] /\ uploading \subseteq Files
  /\ watermark \in Nat /\ clock \in Nat
  /\ sending \in BOOLEAN /\ body \in [Files -> Nat] /\ mark \in Nat
  /\ portal \in [Files -> Nat] /\ late \in [Files -> Nat]
  /\ newest \in Nat /\ blurred \subseteq Files /\ steps \in Nat /\ restarts \in Nat

Init == /\ ver = [f \in Files |-> 0] /\ stamp = [f \in Files |-> 0] /\ uploading = {}
        /\ watermark = 0 /\ clock = 1
        /\ sending = FALSE /\ body = [f \in Files |-> 0] /\ mark = 0
        /\ portal = [f \in Files |-> 0] /\ late = [f \in Files |-> 0]
        /\ newest = 0 /\ blurred = {} /\ steps = 0 /\ restarts = 0

-----------------------------------------------------------------------------
\* Mutant: an existing row's marker is only set when it is inserted.
StampedOnInsert(f) == stamp' = IF ver[f] = 0 THEN [stamp EXCEPT ![f] = clock] ELSE stamp

Stamped(f) == stamp' = [stamp EXCEPT ![f] = clock]

\* InsertFile, UpdateFileState, UpdateFileError, UpdateFileUploaded and the
\* two timings; toUploading says whether the row is then in state uploading.
Write(f, toUploading) ==
  /\ ver[f] < MaxChanges
  /\ ver' = [ver EXCEPT ![f] = @ + 1]
  /\ Stamped(f)
  /\ uploading' = IF toUploading THEN uploading \cup {f} ELSE uploading \ {f}
  /\ IF clock > newest
     THEN newest' = clock /\ blurred' = blurred \ {f}
     ELSE newest' = newest /\ blurred' = blurred \cup {f} \cup {g \in Files : stamp[g] = clock}
  /\ UNCHANGED <<watermark, clock, heartbeat, portal, late, bounds>>

\* The local variables of sendHeartbeat are gone.
EndHeartbeat == sending' = FALSE /\ body' = [f \in Files |-> 0] /\ mark' = 0

\* The process starts again: ResetStuckFiles gives its rows no stamp.
Restart ==
  /\ restarts < MaxRestarts /\ restarts' = restarts + 1
  /\ ver' = [f \in Files |-> IF f \in uploading THEN ver[f] + 1 ELSE ver[f]]
  /\ uploading' = {} /\ blurred' = blurred \cup uploading
  /\ EndHeartbeat
  /\ UNCHANGED <<stamp, newest, watermark, clock, portal, late, steps>>

Tick == /\ clock < MaxClock /\ clock' = clock + 1
        /\ UNCHANGED <<rows, watermark, heartbeat, portal, late, bounds>>

\* NTP, or a board without a battery-backed clock.
StepBack == /\ steps < MaxSteps /\ steps' = steps + 1
            /\ clock' \in 1..clock
            /\ UNCHANGED <<rows, watermark, heartbeat, portal, late, restarts>>

-----------------------------------------------------------------------------
Changed == {f \in Files : stamp[f] > watermark}

\* Mutant: newest change first.
OldestFirstNot(S) == \A f \in S, g \in Changed \ S : stamp[f] >= stamp[g]

OldestFirst(S) == \A f \in S, g \in Changed \ S : stamp[f] <= stamp[g]

\* ORDER BY updated_at LIMIT: which of several rows with one stamp are within
\* the limit is not determined.
Batch(S) == /\ S \subseteq Changed
            /\ Cardinality(S) <= Limit
            /\ Cardinality(S) = Limit \/ S = Changed
            /\ OldestFirst(S)

BeginHeartbeat(S) ==
  /\ ~sending /\ Batch(S)
  /\ sending' = TRUE /\ body' = [f \in Files |-> IF f \in S THEN ver[f] ELSE 0]
  /\ IF S = {} THEN mark' = watermark
               ELSE \E f \in S : (\A g \in S : stamp[g] <= stamp[f]) /\ mark' = stamp[f]
  /\ UNCHANGED <<rows, watermark, clock, portal, late, bounds>>

Later(x, y) == IF x > y THEN x ELSE y

\* The portal keeps the later of two changes of one row.
Takes(sent) == portal' = [f \in Files |-> Later(portal[f], sent[f])]

\* Mutant: the watermark stays.
AdvanceNot == UNCHANGED watermark

Advance == watermark' = mark

\* 200 OK, and the watermark is saved.
Acknowledged ==
  /\ sending /\ Takes(body) /\ Advance
  /\ EndHeartbeat
  /\ UNCHANGED <<rows, clock, late, bounds>>

\* Mutant: the watermark moves before the answer is known.
UnansweredAdvances ==
  /\ sending
  /\ late' = [f \in Files |-> Later(late[f], body[f])]
  /\ EndHeartbeat /\ watermark' = mark
  /\ UNCHANGED <<rows, clock, portal, bounds>>

\* Timeout, lost answer, another status, or a watermark that could not be saved.
Unanswered ==
  /\ sending
  /\ late' = [f \in Files |-> Later(late[f], body[f])]
  /\ EndHeartbeat
  /\ UNCHANGED <<rows, watermark, clock, portal, bounds>>

\* The portal handles requests the relay has given up on, before or after
\* newer ones.
HandledLate ==
  /\ \E f \in Files : late[f] # 0
  /\ Takes(late) /\ late' = [f \in Files |-> 0]
  /\ UNCHANGED <<rows, watermark, clock, heartbeat, bounds>>

Next ==
  \/ \E f \in Files, up \in BOOLEAN : Write(f, up)
  \/ Restart \/ Tick \/ StepBack
  \/ \E S \in SUBSET Files : BeginHeartbeat(S)
  \/ Acknowledged \/ Unanswered \/ HandledLate

Spec == Init /\ [][Next]_vars

\* The ticker keeps sending, and not every request fails.
FairSpec == /\ Spec
            /\ WF_vars(\E S \in SUBSET Files : BeginHeartbeat(S))
            /\ WF_vars(Acknowledged \/ Unanswered)
            /\ SF_vars(Acknowledged)

-----------------------------------------------------------------------------
\* What the portal does not have will be selected again: however requests and
\* answers are lost and rows change meanwhile, the watermark never passes a
\* change with a stamp of its own.
PendingIsSelected ==
  \A f \in Files \ blurred : portal[f] # ver[f] => stamp[f] > watermark

\* A backlog longer than one heartbeat trickles up: each change with a stamp of
\* its own reaches the portal.
BacklogTrickles ==
  \A f \in Files : (f \notin blurred /\ portal[f] # ver[f]) ~> (portal[f] = ver[f] \/ f \in blurred)
=============================================================================
