------------------------------- MODULE Agent -------------------------------
(***************************************************************************)
(* The agent of a device: Provisioning and Destinations in one process.    *)
(* They share the identity and the heartbeat loop: a cycle that provisions *)
(* the device starts the loop, what becomes of a heartbeat drives the LED  *)
(* and the destinations, factory_reset arrives in an answer and takes the  *)
(* configuration file and the database, and a restart takes the memory of  *)
(* both. (The log collector, begun at boot, shares nothing but that.)      *)
(***************************************************************************)
EXTENDS Integers, FiniteSets

CONSTANTS Devices, None, Bad, MaxDrops, MaxRestarts, MaxResets,
          Dests, OwnerOf, Loops, Unset, Keys, MaxChanges

VARIABLES
  spent, file, saved, cfg, loops, led, pc, provisioned, reset,
  keyless, unread, drops, restarts, resets,
  assigned, beat, active, last, stored, keyFile, mgr, unlinked, newest, unsaved, changes

P == INSTANCE Provisioning
D == INSTANCE Destinations WITH ident <- cfg.id

ASSUME AgentAssumption == P!ProvisioningAssumption /\ D!DestinationsAssumption

\* What a component does not share with the other.
provOnly == <<spent, file, saved, cfg, led, pc, provisioned, reset,
              keyless, unread, drops, restarts, resets>>
destOnly == <<assigned, beat, active, last, stored, keyFile, mgr, unlinked, newest, unsaved, changes>>
vars == <<provOnly, loops, destOnly>>

Init == P!ProvInit /\ D!DestInit
-----------------------------------------------------------------------------
Drop(f) == P!Drop(f) /\ UNCHANGED destOnly

\* A cycle, but for the point where the new configuration is taken over.
CycleStep ==
  /\ \/ P!BeginCycle \/ P!ProcessNothing \/ P!ProcessBad
     \/ P!BootstrapOk \/ P!BootstrapFails \/ P!BootstrapAlready
     \/ P!SaveOk \/ P!SaveFails \/ P!Remove \/ P!ReloadFails
  /\ UNCHANGED destOnly

\* Mutant: agentStarted is swapped before the check, so that the boot without
\* an identity used up the only start.
ReloadSwapFirst ==
  /\ pc = "reload" /\ pc' = "idle"
  /\ cfg' = saved /\ unread' = FALSE /\ provisioned' = FALSE
  /\ UNCHANGED <<spent, file, saved, led, reset, keyless, drops, restarts, resets, loops, destOnly>>

Reload == P!Reload /\ D!Adopt(saved.id)

Configure(d, set) == UNCHANGED provOnly /\ D!Configure(d, set)

Send(l) == UNCHANGED provOnly /\ D!Send(l)

\* The LED turns solid on a status of 200, before the body is looked at.
NoAnswer(l) ==
  /\ \E ok \in BOOLEAN : P!BeatEnds(ok) /\ (ok => beat[l].as # None)
  /\ D!NoAnswer(l)

Answer(l) == P!BeatEnds(TRUE) /\ D!Answer(l)

\* The answer's commands come before its destinations.
BeginReset ==
  /\ P!BeginReset /\ \E l \in Loops : beat[l].stage = "answered"
  /\ UNCHANGED destOnly

Reconcile(l) == UNCHANGED provOnly /\ D!Reconcile(l)
Persist(l) == UNCHANGED provOnly /\ D!Persist(l)

ResetConfig == P!ResetConfig /\ UNCHANGED destOnly

ResetDatabase == reset = "config" /\ UNCHANGED provOnly /\ D!DropDatabase

ResetNoReboot == unlinked /\ P!ResetNoReboot /\ UNCHANGED destOnly

Restart == P!Restart /\ D!Boot(saved.id)

LoopStep(l) == Send(l) \/ NoAnswer(l) \/ Answer(l) \/ Reconcile(l) \/ Persist(l)

ResetStep == BeginReset \/ ResetConfig \/ ResetDatabase \/ ResetNoReboot

Next ==
  \/ \E f \in Devices \cup {Bad} : Drop(f)
  \/ CycleStep \/ Reload
  \/ \E d \in Devices, set \in SUBSET Dests : Configure(d, set)
  \/ \E l \in Loops : LoopStep(l)
  \/ ResetStep \/ Restart

Spec == Init /\ [][Next]_vars

\* Goroutines are scheduled, requests end by their timeouts, cycles go on
\* being triggered. Of the requests sent again and again some are answered.
FairSpec ==
  /\ Spec
  /\ WF_vars(CycleStep \/ Reload)
  /\ \A l \in Loops : WF_vars(LoopStep(l)) /\ SF_vars(Answer(l))
-----------------------------------------------------------------------------
\* Each component behaves in the process as it does alone.
ProvSpec == P!ProvSpec
DestSpec == D!DestSpec

\* The invariants and action properties of the two, for this process.
PTypeOK == P!PTypeOK
DTypeOK == D!DTypeOK
KeyBelongsToId == P!KeyBelongsToId
SpentTokenAccounted == P!SpentTokenAccounted
OneLoop == P!OneLoop
LedTellsTruth == P!LedTellsTruth
TokenOfferedOnce == P!TokenOfferedOnce
ActiveIsNewest == D!ActiveIsNewest
OnlyOwnDestinations == D!OnlyOwnDestinations
StoredFollows == D!StoredFollows
RestartKeepsDestinations == D!RestartKeepsDestinations

\* Once nobody changes them any more, the device works with the destinations
\* the portal has for the identity it runs under, whatever was lost, reset,
\* or restarted on the way: only changes are applied (heartbeat.go:441).
PortalSetArrives == D!PortalSetArrives

=============================================================================
