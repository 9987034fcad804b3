----------------------------- MODULE LogShipper -----------------------------
(***************************************************************************)
(* internal/agent/logs.go: the collector that every line logged by the     *)
(* process is written to, its bounded buffer, and the loop that pushes the *)
(* buffer to the portal every ten seconds. A line is its number in the     *)
(* order of writing, which package log serialises, and has a level. A post *)
(* that is given up (timeout, restart) may still reach the portal, after   *)
(* later ones.                                                             *)
(***************************************************************************)
EXTENDS Integers, Sequences, FiniteSets

CONSTANTS LevelOf,   \* [1..MaxLines -> rank]: the level classifyLevel finds
          MaxLines,  \* bound: lines logged
          Levels,    \* ranks the portal may set as ship level
          Info,      \* the rank to begin with
          Cap        \* lines the buffer holds, 1000 in the program

ASSUME LogAssumption ==
  /\ MaxLines \in Nat /\ Cap \in Nat \ {0} /\ Levels \subseteq Int /\ Info \in Levels
  /\ LevelOf \in [1..MaxLines -> Levels]

VARIABLES
  shipping,   \* collector # nil
  shipLevel,  \* collector.shipLevel
  buffer,     \* collector.buffer
  flight,     \* the batch being posted
  late,       \* a batch given up while it was on its way (external)
  received,   \* what the portal has, in the order of arrival (external)
  \* history, read by guards of bounds and by properties only
  lines,      \* lines written so far
  withheld,   \* lines below the ship level, or logged without a collector
  overflowed, \* lines pushed out of the full buffer
  lost,       \* lines lost with a failed push or with the process
  delayed     \* lines of batches that were given up

fateVars == <<withheld, overflowed, lost, delayed>>
netVars == <<flight, late, received>>
logVars == <<shipping, shipLevel, buffer, netVars, lines, fateVars>>

Lines == 1..MaxLines
Elems(s) == {s[i] : i \in DOMAIN s}

LTypeOK ==
  /\ shipping \in BOOLEAN /\ shipLevel \in Levels
  /\ buffer \in Seq(Lines) /\ Len(buffer) <= Cap
  /\ flight \in Seq(Lines) /\ late \in Seq(Lines) /\ received \in Seq(Lines)
  /\ lines \in 0..MaxLines
  /\ withheld \subseteq Lines /\ overflowed \subseteq Lines /\ lost \subseteq Lines
  /\ delayed \subseteq Lines

LogInit ==
  /\ shipping \in BOOLEAN /\ shipLevel = Info
  /\ buffer = << >> /\ flight = << >> /\ late = << >> /\ received = << >>
  /\ lines = 0 /\ withheld = {} /\ overflowed = {} /\ lost = {} /\ delayed = {}

\* Mutant: the oldest lines are kept.
KeepOldest(b) == IF Len(b) > Cap THEN SubSeq(b, 1, Cap) ELSE b

\* c.buffer[len(c.buffer)-1000:]
Keep(b) == IF Len(b) > Cap THEN SubSeq(b, Len(b) - Cap + 1, Len(b)) ELSE b

Withheld(n) == ~shipping \/ LevelOf[n] < shipLevel

\* log.Printf, anywhere in the process.
Write ==
  LET n == lines + 1
      full == Append(buffer, n) IN
  /\ lines < MaxLines /\ lines' = n
  /\ IF Withheld(n)
     THEN withheld' = withheld \cup {n} /\ UNCHANGED <<buffer, overflowed>>
     ELSE /\ buffer' = Keep(full)
          /\ overflowed' = overflowed \cup (Elems(full) \ Elems(buffer'))
          /\ UNCHANGED withheld
  /\ UNCHANGED <<shipping, shipLevel, netVars, lost, delayed>>

\* The portal's tier-effective level, from a heartbeat's answer.
SetLogShipLevel(r) ==
  /\ shipLevel' = IF shipping THEN r ELSE shipLevel
  /\ UNCHANGED <<shipping, buffer, netVars, lines, fateVars>>

\* Mutant: the buffer is copied, and emptied only by the next push.
TakeCopy ==
  /\ shipping /\ flight = << >> /\ buffer # << >>
  /\ flight' = buffer
  /\ UNCHANGED <<shipping, shipLevel, buffer, late, received, lines, fateVars>>

\* push: the buffer is taken and emptied under the lock.
Take ==
  /\ shipping /\ flight = << >> /\ buffer # << >>
  /\ flight' = buffer /\ buffer' = << >>
  /\ UNCHANGED <<shipping, shipLevel, late, received, lines, fateVars>>

\* The portal has the batch, whether or not its answer arrives.
PushOk ==
  /\ flight # << >>
  /\ received' = received \o flight /\ flight' = << >>
  /\ UNCHANGED <<shipping, shipLevel, buffer, late, lines, fateVars>>

\* Mutant: the batch is put back behind what was logged meanwhile.
PushFailsPutsBack ==
  /\ flight # << >>
  /\ buffer' = Keep(buffer \o flight) /\ flight' = << >>
  /\ overflowed' = overflowed \cup ((Elems(buffer) \cup Elems(flight)) \ Elems(buffer'))
  /\ UNCHANGED <<shipping, shipLevel, late, received, lines, withheld, lost, delayed>>

\* Mutant: the batch is dropped with no account of it.
PushFailsSilent ==
  /\ flight # << >> /\ flight' = << >>
  /\ UNCHANGED <<shipping, shipLevel, buffer, late, received, lines, fateVars>>

\* Refused or unreachable: the batch is not put back.
PushFails ==
  /\ flight # << >>
  /\ lost' = lost \cup Elems(flight) /\ flight' = << >>
  /\ UNCHANGED <<shipping, shipLevel, buffer, late, received, lines, withheld, overflowed, delayed>>

\* The five seconds are over with the request still under way. (One such
\* request at a time is followed up; what becomes of others is PushFails.)
PushTimesOut ==
  /\ flight # << >> /\ late = << >>
  /\ late' = flight /\ flight' = << >>
  /\ delayed' = delayed \cup Elems(flight)
  /\ UNCHANGED <<shipping, shipLevel, buffer, received, lines, withheld, overflowed, lost>>

LateArrives ==
  /\ late # << >>
  /\ received' = received \o late /\ late' = << >>
  /\ UNCHANGED <<shipping, shipLevel, buffer, flight, lines, fateVars>>

LateLost ==
  /\ late # << >>
  /\ lost' = lost \cup Elems(late) /\ late' = << >>
  /\ UNCHANGED <<shipping, shipLevel, buffer, flight, received, lines, withheld, overflowed, delayed>>

\* The process is restarted, and ships logs if it has an identity at boot:
\* InitLogs is not called again when the device is provisioned later. (A post
\* under way is given up first, by one of the actions above.)
Restart(up) ==
  /\ flight = << >>
  /\ shipping' = up /\ shipLevel' = Info
  /\ lost' = lost \cup Elems(buffer) /\ buffer' = << >>
  /\ UNCHANGED <<netVars, lines, withheld, overflowed, delayed>>

LogNext ==
  \/ Write \/ Take \/ PushOk \/ PushFails \/ PushTimesOut \/ LateArrives \/ LateLost
  \/ \E r \in Levels : SetLogShipLevel(r)
  \/ \E up \in BOOLEAN : Restart(up)

LogSpec == LogInit /\ [][LogNext]_logVars

\* The collector's loop ticks every ten seconds and its post ends.
LogFairSpec == LogSpec /\ WF_logVars(Take \/ PushOk \/ PushFails \/ PushTimesOut)
-----------------------------------------------------------------------------
\* Nothing is shipped twice, and the portal gets lines in the order they were
\* logged, but for batches the relay had given up on.
Pipeline == received \o flight \o buffer
ShippedInOrder ==
  \A i, j \in DOMAIN Pipeline : i < j =>
    /\ Pipeline[i] # Pipeline[j]
    /\ Pipeline[i] \in delayed \/ Pipeline[j] \in delayed \/ Pipeline[i] < Pipeline[j]

\* Every line is with the portal, on its way, or missing for one of three
\* reasons: withheld by level, pushed out by newer ones, or lost with a push
\* or with the process.
EveryLineAccounted ==
  1..lines = Elems(Pipeline) \cup Elems(late) \cup withheld \cup overflowed \cup lost

\* What the buffer gave up was older than all it still has: of a burst the
\* newest lines are shipped.
OverflowDropsOldest == \A x \in overflowed, y \in Elems(buffer) : x < y

\* A buffered line gets out: the pushes go on, whatever is logged meanwhile.
BufferDrains == \A n \in Lines : (n \in Elems(buffer)) ~> (n \notin Elems(buffer))
=============================================================================
