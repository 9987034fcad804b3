---------------------------- MODULE Destinations ----------------------------
(***************************************************************************)
(* The destinations a device uploads to: internal/agent/state.go, and in   *)
(* heartbeat.go the reconciliation of every answer of the portal           *)
(* (433-465), the persisted copy read back at startup (99-117) and its     *)
(* encryption (36-64, internal/secret/secret.go).                          *)
(*                                                                         *)
(* A heartbeat loop sends, waits, reconciles and saves, one heartbeat after *)
(* the other; the portal changes the set behind its back, the device may   *)
(* take on another identity while a request is out, and the process may    *)
(* be restarted between any two steps.                                     *)
(***************************************************************************)
EXTENDS Naturals, FiniteSets

CONSTANTS Devices,     \* device records of the portal
          None,        \* no identity
          Dests,       \* destinations, by their ids
          OwnerOf,     \* [Dests -> Devices]: the record a destination is configured for
          Loops,       \* heartbeat loops that agent.Start could launch, 1..n
          Unset,       \* "": never applied, or nothing persisted
          Keys,        \* encryption keys, 1..n; a second one replaces a lost one
          MaxChanges   \* bound: changes made in the portal

\* What Agent assumes of these constants.
DestinationsAssumption ==
  /\ None \notin Devices /\ \A s \in SUBSET Dests : s # Unset
  /\ OwnerOf \in [Dests -> Devices]
  /\ Loops \in SUBSET (Nat \ {0}) /\ Keys \in SUBSET (Nat \ {0}) /\ MaxChanges \in Nat

VARIABLES
  assigned,   \* [Devices -> SUBSET Dests]: what the portal has for each record
  ident,      \* the identity in *cfg
  loops,      \* heartbeat loops launched by this process
  beat,       \* [Loops -> the heartbeat the loop is busy with]
  active,     \* activeDestinations
  last,       \* lastDestJSON
  stored,     \* config key active_destinations: the set, and the key it is encrypted with
  keyFile,    \* secret.key: the key in it, 0 if absent, NoKey if cut short
  mgr,        \* secretMgr: the key in use, 0 for none
  unlinked,   \* a factory reset removed the database under the process
  \* history, read by guards of bounds and by properties only
  newest,     \* the answer served last to this device, and as whom
  unsaved,    \* the set applied last could not be saved
  changes

portalVars == <<assigned, changes>>
processDests == <<ident, loops>>
keyVars == <<keyFile, mgr>>
destVars == <<portalVars, processDests, beat, active, last, stored, keyVars, unlinked, newest, unsaved>>

NoKey == 0 - 1
Own(d) == {x \in Dests : OwnerOf[x] = d}

NoBeat == [stage |-> "idle", as |-> None, got |-> {}]
Beat == [stage : {"idle", "sent", "answered", "save"}, as : Devices \cup {None}, got : SUBSET Dests]
Nothing == [set |-> Unset, under |-> 0]
Applied == (SUBSET Dests) \cup {Unset}

DTypeOK ==
  /\ assigned \in [Devices -> SUBSET Dests] /\ changes \in Nat
  /\ ident \in Devices \cup {None} /\ loops \in Nat
  /\ beat \in [Loops -> Beat]
  /\ active \in SUBSET Dests /\ last \in Applied
  /\ stored \in [set : Applied, under : Keys \cup {0}]
  /\ keyFile \in Keys \cup {0, NoKey} /\ mgr \in Keys \cup {0}
  /\ unlinked \in BOOLEAN /\ unsaved \in BOOLEAN
  /\ newest \in [as : Devices \cup {None}, got : SUBSET Dests]

DestInit ==
  /\ assigned \in [Devices -> SUBSET Dests] /\ changes = 0
  /\ \A d \in Devices : assigned[d] \subseteq Own(d)
  /\ ident = None /\ loops = 0 /\ beat = [l \in Loops |-> NoBeat]
  /\ active = {} /\ last = Unset /\ stored = Nothing
  /\ keyFile = 0 /\ mgr = 0 /\ unlinked = FALSE /\ unsaved = FALSE
  /\ newest = [as |-> None, got |-> {}]

-----------------------------------------------------------------------------
\* secret.NewManager: use the key there is, make one if there is none or it
\* cannot be read; a short file, or one that cannot be written, gives none.
OpenKey ==
  \/ keyFile # 0 /\ mgr' = (IF keyFile = NoKey THEN 0 ELSE keyFile) /\ UNCHANGED keyFile
  \/ \E k \in Keys : /\ k > keyFile /\ keyFile # NoKey
                     /\ keyFile' = k /\ mgr' = k
  \/ keyFile = 0 /\ keyFile' \in {0, NoKey} /\ mgr' = 0

\* Mutant: what was stored in clear before there was a key is not understood.
ReadableEncrypted(s, k) == s.set # Unset /\ s.under = k

\* decryptBlob and the parse after it: clear text passes, text encrypted with
\* another key, or with none at hand, does not parse.
Readable(s, k) == s.set # Unset /\ s.under \in {0, k}

\* agent.Start: open the key, load the persisted set over current set cur.
StartLoop(cur) ==
  /\ loops' = loops + 1
  /\ OpenKey
  /\ active' = IF Readable(stored, mgr') THEN stored.set ELSE cur

\* The process starts, with identity i.
Boot(i) ==
  /\ ident' = i
  /\ IF i = None THEN loops' = 0 /\ active' = {} /\ mgr' = 0 /\ UNCHANGED keyFile
     ELSE /\ loops' = 1 /\ OpenKey
          /\ active' = IF Readable(stored, mgr') THEN stored.set ELSE {}
  /\ beat' = [l \in Loops |-> NoBeat] /\ last' = Unset
  /\ unlinked' = FALSE /\ unsaved' = FALSE /\ newest' = [as |-> None, got |-> {}]
  /\ UNCHANGED <<portalVars, stored>>

StartsNow(i) == i # None /\ loops = 0

\* A cycle provisioned the device: *cfg = *newCfg, agent.Start.
Adopt(i) ==
  /\ ident' = i
  /\ IF StartsNow(i) THEN StartLoop(active) ELSE UNCHANGED <<loops, active, keyVars>>
  /\ UNCHANGED <<portalVars, beat, last, stored, unlinked, newest, unsaved>>

\* The account's owner configures the destinations of record d.
Configure(d, set) ==
  /\ changes < MaxChanges /\ changes' = changes + 1
  /\ set \subseteq Own(d) /\ assigned' = [assigned EXCEPT ![d] = set]
  /\ UNCHANGED <<processDests, beat, active, last, stored, keyVars, unlinked, newest, unsaved>>

-----------------------------------------------------------------------------
\* A heartbeat is due, or a state change triggered one.
Send(l) ==
  /\ l <= loops /\ beat[l].stage = "idle"
  /\ beat' = [beat EXCEPT ![l] = [stage |-> "sent", as |-> ident, got |-> {}]]
  /\ UNCHANGED <<portalVars, processDests, active, last, stored, keyVars, unlinked, newest, unsaved>>

\* No answer, an error status, or a body that does not decode.
NoAnswer(l) ==
  /\ beat[l].stage = "sent"
  /\ beat' = [beat EXCEPT ![l] = NoBeat]
  /\ UNCHANGED <<portalVars, processDests, active, last, stored, keyVars, unlinked, newest, unsaved>>

\* The portal answers with the set of that moment; the answer is on its way.
Answer(l) ==
  /\ beat[l].stage = "sent" /\ beat[l].as # None
  /\ beat' = [beat EXCEPT ![l] = [stage |-> "answered", as |-> beat[l].as, got |-> assigned[beat[l].as]]]
  /\ newest' = [as |-> beat[l].as, got |-> assigned[beat[l].as]]
  /\ UNCHANGED <<portalVars, processDests, active, last, stored, keyVars, unlinked, unsaved>>

\* Mutant: an empty set is taken for a missing one.
ChangedNonempty(l) == beat[l].got # last /\ beat[l].got # {}

\* Compared with the set applied last in this process, the empty one too.
Changed(l) == beat[l].got # last

Reconcile(l) ==
  /\ beat[l].stage = "answered"
  /\ IF Changed(l)
     THEN /\ last' = beat[l].got /\ active' = beat[l].got
          /\ beat' = [beat EXCEPT ![l].stage = "save"]
     ELSE beat' = [beat EXCEPT ![l] = NoBeat] /\ UNCHANGED <<active, last>>
  /\ UNCHANGED <<portalVars, processDests, stored, keyVars, unlinked, newest, unsaved>>

\* Mutant: the set in memory before this answer is what is written.
SavedSetOld(l) == stored.set

SavedSet(l) == beat[l].got

\* SetConfig. A failure is logged and not made up for; a file without a name
\* keeps the write only as long as this process lives.
Persist(l) ==
  /\ beat[l].stage = "save"
  /\ beat' = [beat EXCEPT ![l] = NoBeat]
  /\ \/ ~unlinked /\ stored' = [set |-> SavedSet(l), under |-> mgr] /\ unsaved' = FALSE
     \/ UNCHANGED stored /\ unsaved' = TRUE
  /\ UNCHANGED <<portalVars, processDests, active, last, keyVars, unlinked, newest>>

\* runFactoryReset removes the database file; the process keeps it open.
DropDatabase ==
  /\ ~unlinked /\ unlinked' = TRUE
  /\ stored' = Nothing /\ unsaved' = TRUE
  /\ UNCHANGED <<portalVars, processDests, beat, active, last, keyVars, newest>>

LoopStep(l) == Send(l) \/ NoAnswer(l) \/ Answer(l) \/ Reconcile(l) \/ Persist(l)

DestNext ==
  \/ \E i \in Devices \cup {None} : Adopt(i) \/ Boot(i)
  \/ \E d \in Devices, set \in SUBSET Dests : Configure(d, set)
  \/ \E l \in Loops : LoopStep(l)
  \/ DropDatabase

DestSpec == DestInit /\ [][DestNext]_destVars
-----------------------------------------------------------------------------
Settled == \A l \in Loops : beat[l].stage # "answered"

\* Answers are applied in the order the portal gave them: once the device has
\* applied one, it uses the set it was served last, an empty one included
\* (heartbeat.go:437 "removing the last destination in the portal clears it
\* here too"), although only changes are applied.
ActiveIsNewest ==
  Settled /\ last # Unset => active = newest.got /\ last = newest.got

\* After an answer to the device under its present identity nothing is left of
\* the destinations of an identity it had before, be they in memory, in the
\* database, or in an answer that was still on its way.
OnlyOwnDestinations ==
  Settled /\ last # Unset /\ newest.as = ident /\ ident # None => active \subseteq Own(ident)

\* "Persist for offline startup resilience": what the process applied last is
\* what the next one will find, unless that one write failed.
StoredFollows ==
  (\A l \in Loops : beat[l].stage # "save") /\ last # Unset /\ ~unsaved => stored.set = last

\* A restart, with the portal out of reach, goes on with the destinations in
\* use, unless their write was cut off or failed, or the key to them is gone.
RestartKeepsDestinations ==
  [][ (/\ last # Unset /\ last' = Unset /\ loops' > 0 /\ ~unsaved
       /\ \A l \in Loops : beat[l].stage # "save"
       /\ stored.under \in {0, mgr'}) => active' = active ]_destVars

\* Once nobody changes them any more, the device works with the destinations
\* the portal has for it.
PortalSetArrives == <>[](loops > 0 /\ ident # None => active = assigned[ident])
=============================================================================
