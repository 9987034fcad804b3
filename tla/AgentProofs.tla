----------------------------- MODULE AgentProofs -----------------------------
(***************************************************************************)
(* What holds of a device's identity, its heartbeat loop and its LED, and  *)
(* of the destinations it works with, for any devices, files,              *)
(* destinations, keys, changes in the portal, restarts and resets. The     *)
(* steps of Agent are steps of its two components; the first half is kept  *)
(* by the steps of Provisioning alone, the second takes from it that there *)
(* is one heartbeat at a time, because agent.Start launches one loop.      *)
(***************************************************************************)
EXTENDS Agent, TLAPS

LEMMA ConstantFacts ==
  /\ None \notin Devices /\ Bad \notin Devices /\ None # Bad
  /\ MaxDrops \in Nat /\ MaxRestarts \in Nat /\ MaxResets \in Nat
  BY AgentAssumption DEF P!ProvisioningAssumption

\* What is to be saved, and what waits to be removed, is a parsed file.
ParsedFile == pc \in {"save", "remove"} => file \in Devices

\* A pulse left from earlier is found by a cycle without a file only if the
\* new configuration was not read back.
PulseInv ==
  pc = "process" /\ file = None /\ led = "rapid" /\ loops = 0 => unread

ProvInv ==
  /\ PTypeOK /\ ParsedFile /\ PulseInv
  /\ KeyBelongsToId /\ SpentTokenAccounted /\ OneLoop /\ LedTellsTruth

-----------------------------------------------------------------------------
(* The process as each of its components sees it.                          *)

LEMMA StepsOfBoth ==
  ASSUME P!PTypeOK, [Next]_vars
  PROVE  [P!ProvNext]_P!provVars /\ [D!DestNext]_D!destVars
<1> USE DEF P!ProvNext, D!DestNext
<1>1. CASE \E f \in Devices \cup {Bad} : Drop(f)
  BY <1>1 DEF Drop, P!Drop, D!destVars, D!portalVars, D!processDests, D!keyVars, destOnly, P!processVars
<1>2. CASE CycleStep
  <2>1. P!CycleStep
    BY <1>2 DEF CycleStep, P!CycleStep
  <2>2. cfg' = cfg /\ loops' = loops
    BY <1>2 DEF CycleStep, P!BeginCycle, P!ProcessNothing, P!ProcessBad, P!BootstrapOk,
         P!BootstrapFails, P!BootstrapAlready, P!SaveOk, P!SaveFails, P!Remove, P!ReloadFails,
         P!processVars
  <2> QED
    BY <1>2, <2>1, <2>2 DEF CycleStep, D!destVars, D!portalVars, D!processDests, D!keyVars, destOnly
<1>3. CASE Reload
  <2>1. P!CycleStep /\ D!Adopt(saved.id)
    BY <1>3 DEF Reload, P!CycleStep
  <2>2. saved.id \in Devices \cup {None}
    BY DEF P!PTypeOK, P!Identity
  <2> QED
    BY <2>1, <2>2
<1>4. CASE \E d \in Devices, set \in SUBSET Dests : Configure(d, set)
  BY <1>4 DEF Configure, provOnly, D!Configure, D!processDests, P!provVars, P!cycleVars, P!processVars, P!boundVars
<1>5. CASE \E l \in Loops : LoopStep(l)
  <2>1. PICK l \in Loops : LoopStep(l)
    BY <1>5
  <2>2. D!LoopStep(l)
    BY <2>1 DEF LoopStep, D!LoopStep, Send, NoAnswer, Answer, Reconcile, Persist
  <2>3. loops' = loops
    BY <2>2 DEF D!LoopStep, D!Send, D!NoAnswer, D!Answer, D!Reconcile, D!Persist, D!processDests
  <2>4. (\E ok \in BOOLEAN : P!BeatEnds(ok)) \/ UNCHANGED provOnly
    BY <2>1 DEF LoopStep, Send, NoAnswer, Answer, Reconcile, Persist
  <2> QED
    BY <2>2, <2>3, <2>4 DEF provOnly, P!provVars, P!cycleVars, P!processVars, P!boundVars
<1>6. CASE ResetStep
  <2>1. CASE BeginReset
    BY <2>1 DEF BeginReset, P!BeginReset, P!processVars, D!destVars, D!portalVars,
         D!processDests, D!keyVars, destOnly
  <2>2. CASE ResetConfig
    BY <2>2 DEF ResetConfig, P!ResetConfig, P!processVars, D!destVars, D!portalVars,
         D!processDests, D!keyVars, destOnly
  <2>3. CASE ResetDatabase
    BY <2>3 DEF ResetDatabase, D!DropDatabase, D!processDests, provOnly, P!provVars,
         P!cycleVars, P!processVars, P!boundVars
  <2>4. CASE ResetNoReboot
    BY <2>4 DEF ResetNoReboot, P!ResetNoReboot, P!processVars, D!destVars, D!portalVars,
         D!processDests, D!keyVars, destOnly
  <2> QED
    BY <1>6, <2>1, <2>2, <2>3, <2>4 DEF ResetStep
<1>7. CASE Restart
  <2>1. P!Restart /\ D!Boot(saved.id)
    BY <1>7 DEF Restart
  <2>2. saved.id \in Devices \cup {None}
    BY DEF P!PTypeOK, P!Identity
  <2> QED
    BY <2>1, <2>2
<1>8. CASE UNCHANGED vars
  BY <1>8 DEF vars, provOnly, destOnly, P!provVars, P!cycleVars, P!processVars, P!boundVars,
       D!destVars, D!portalVars, D!processDests, D!keyVars
<1> QED
  BY <1>1, <1>2, <1>3, <1>4, <1>5, <1>6, <1>7, <1>8 DEF Next

-----------------------------------------------------------------------------
(* The invariant, step by step of Provisioning.                            *)

LEMMA ProvInvInit == Init => ProvInv
<1> SUFFICES ASSUME P!ProvInit PROVE ProvInv
  BY DEF Init
<1>1. provisioned \in BOOLEAN /\ unread \in BOOLEAN
  BY Zenon DEF P!ProvInit
<1>2. PTypeOK
  BY <1>1 DEF P!ProvInit, PTypeOK, P!PTypeOK, P!NoIdentity, P!Identity
<1>3. KeyBelongsToId /\ SpentTokenAccounted /\ OneLoop
  BY DEF P!ProvInit, KeyBelongsToId, P!KeyBelongsToId, SpentTokenAccounted, P!SpentTokenAccounted,
     OneLoop, P!OneLoop, P!NoIdentity, P!Provisioned
<1>4. LedTellsTruth /\ ParsedFile /\ PulseInv
  BY DEF P!ProvInit, LedTellsTruth, P!LedTellsTruth, ParsedFile, PulseInv
<1> QED
  BY <1>2, <1>3, <1>4 DEF ProvInv

LEMMA ProvInvStep == ASSUME ProvInv, [P!ProvNext]_P!provVars PROVE ProvInv'
<1> USE ConstantFacts DEF ProvInv, ParsedFile, PulseInv, PTypeOK, P!PTypeOK,
      KeyBelongsToId, P!KeyBelongsToId, SpentTokenAccounted, P!SpentTokenAccounted,
      OneLoop, P!OneLoop, LedTellsTruth, P!LedTellsTruth,
      P!Identity, P!NoIdentity, P!Provisioned, P!processVars, P!cycleVars, P!boundVars
<1>1. CASE \E f \in Devices \cup {Bad} : P!Drop(f)
  BY <1>1 DEF P!Drop
<1>2. CASE P!BeginCycle
  BY <1>2 DEF P!BeginCycle
<1>3. CASE P!ProcessNothing
  BY <1>3 DEF P!ProcessNothing
<1>4. CASE P!ProcessBad
  BY <1>4 DEF P!ProcessBad
<1>5. CASE P!BootstrapOk
  BY <1>5 DEF P!BootstrapOk
<1>6. CASE P!BootstrapFails
  BY <1>6 DEF P!BootstrapFails
<1>7. CASE P!BootstrapAlready
  BY <1>7 DEF P!BootstrapAlready
<1>8. CASE P!SaveOk
  BY <1>8 DEF P!SaveOk, P!Forgotten
<1>9. CASE P!SaveFails
  BY <1>9 DEF P!SaveFails
<1>10. CASE P!Remove
  BY <1>10 DEF P!Remove
<1>11. CASE P!Reload
  <2>1. cfg' = saved /\ pc' = "idle" /\ led' \in {led, "slow"}
        /\ UNCHANGED <<spent, file, saved, reset, keyless, drops, restarts, resets>>
    BY <1>11 DEF P!Reload
  <2>2. provisioned' \in BOOLEAN /\ unread' \in BOOLEAN
    BY <1>11, Zenon DEF P!Reload
  <2>3. loops' \in Nat /\ loops' <= 1 /\ loops <= loops' /\ (P!Provisioned(saved) => loops' = 1)
    BY <1>11 DEF P!Reload, P!Starts
  <2>4. PTypeOK' /\ ParsedFile' /\ PulseInv' /\ KeyBelongsToId'
    BY <2>1, <2>2, <2>3
  <2>5. SpentTokenAccounted' /\ OneLoop'
    BY <1>11, <2>1, <2>3 DEF P!Reload
  <2>6. led' = "rapid" => P!Provisioned(saved)
    BY <1>11 DEF P!Reload
  <2>7. LedTellsTruth'
    BY <2>1, <2>3, <2>6
  <2> QED
    BY <2>4, <2>5, <2>7
<1>12. CASE P!ReloadFails
  BY <1>12 DEF P!ReloadFails
<1>13. CASE \E ok \in BOOLEAN : P!BeatEnds(ok)
  BY <1>13 DEF P!BeatEnds
<1>14. CASE P!BeginReset
  BY <1>14 DEF P!BeginReset
<1>15. CASE P!ResetConfig
  BY <1>15 DEF P!ResetConfig, P!Forgotten
<1>16. CASE P!ResetNoReboot
  BY <1>16 DEF P!ResetNoReboot
<1>17. CASE P!Restart
  <2>1. cfg' = saved /\ led' = "slow" /\ pc' = "idle" /\ reset' = "none"
        /\ UNCHANGED <<spent, file, saved, drops, resets>> /\ restarts' = restarts + 1
    BY <1>17 DEF P!Restart, P!Boot
  <2>2. provisioned' \in BOOLEAN /\ unread' \in BOOLEAN
    BY <1>17, Zenon DEF P!Restart, P!Boot
  <2>3. loops' \in {0, 1} /\ (P!Provisioned(saved) => loops' = 1)
    BY <1>17 DEF P!Restart, P!Boot
  <2>4. keyless \subseteq keyless' /\ keyless' \subseteq Devices /\ (pc = "save" => file \in keyless')
    BY <1>17 DEF P!Restart
  <2>5. PTypeOK' /\ ParsedFile' /\ PulseInv' /\ KeyBelongsToId'
    BY <2>1, <2>2, <2>3, <2>4
  <2>6. SpentTokenAccounted' /\ OneLoop' /\ LedTellsTruth'
    BY <2>1, <2>3, <2>4
  <2> QED
    BY <2>5, <2>6
<1>18. CASE UNCHANGED P!provVars
  BY <1>18 DEF P!provVars
<1> QED
  BY <1>1, <1>2, <1>3, <1>4, <1>5, <1>6, <1>7, <1>8, <1>9, <1>10, <1>11, <1>12, <1>13,
     <1>14, <1>15, <1>16, <1>17, <1>18 DEF P!ProvNext, P!CycleStep

LEMMA Invariance == Spec => []ProvInv
<1>1. ASSUME ProvInv, [Next]_vars PROVE ProvInv'
  BY <1>1, StepsOfBoth, ProvInvStep DEF ProvInv, PTypeOK
<1> QED
  BY <1>1, ProvInvInit, PTL DEF Spec

-----------------------------------------------------------------------------
(* Results.                                                                *)

\* The process is an implementation of its component Provisioning: what holds
\* of the component holds in it.
THEOREM ImplementsProvisioning == Spec => ProvSpec
<1>1. Init => P!ProvInit
  BY DEF Init
<1>2. ASSUME ProvInv, [Next]_vars PROVE [P!ProvNext]_P!provVars
  BY <1>2, StepsOfBoth DEF ProvInv, PTypeOK
<1> QED
  BY <1>1, <1>2, Invariance, PTL DEF Spec, ProvSpec, P!ProvSpec

\* And of its component Destinations.
THEOREM ImplementsDestinations == Spec => DestSpec
<1>1. Init => D!DestInit
  BY DEF Init
<1>2. ASSUME ProvInv, [Next]_vars PROVE [D!DestNext]_D!destVars
  BY <1>2, StepsOfBoth DEF ProvInv, PTypeOK
<1> QED
  BY <1>1, <1>2, Invariance, PTL DEF Spec, DestSpec, D!DestSpec

\* Every reachable state of Provisioning's variables is well typed.
THEOREM TypeCorrect == Spec => []PTypeOK
  BY Invariance, PTL DEF ProvInv

\* The key and the device id, on disk and in memory, are of one record
\* (provision.go's save, the reload in main.go, factory reset, restarts).
THEOREM KeysMatch == Spec => []KeyBelongsToId
  BY Invariance, PTL DEF ProvInv

\* No token is spent for nothing but in the ways that keyless records.
THEOREM TokensAccounted == Spec => []SpentTokenAccounted
  BY Invariance, PTL DEF ProvInv

\* agent.Start never launches a second loop, and one runs wherever there is an
\* identity.
THEOREM LoopRunsOnce == Spec => []OneLoop
  BY Invariance, PTL DEF ProvInv

\* The LED is solid or rapid only when that is so.
THEOREM LedIsTrue == Spec => []LedTellsTruth
  BY Invariance, PTL DEF ProvInv

\* However an attempt ended, the file it offered is gone.
THEOREM OfferedOnce == Spec => TokenOfferedOnce
<1> DEFINE Offered ==
      (/\ pc \in {"process", "save", "remove"} /\ pc' \in {"reload", "idle"}
       /\ restarts' = restarts) => file' \in {None, Bad}
<1>1. ASSUME ProvInv, [P!ProvNext]_P!provVars PROVE [Offered]_P!provVars
  <2> SUFFICES ASSUME pc \in {"process", "save", "remove"}, pc' \in {"reload", "idle"},
                      restarts' = restarts, P!ProvNext
               PROVE  file' \in {None, Bad}
    BY <1>1
  <2>1. restarts \in Nat
    BY <1>1 DEF ProvInv, PTypeOK, P!PTypeOK
  <2>2. pc' # pc /\ ~P!Restart
    BY <2>1 DEF P!Restart
  <2>3. P!ProcessNothing \/ P!ProcessBad \/ P!Remove
    BY <2>2 DEF P!ProvNext, P!CycleStep, P!Drop, P!BeginCycle, P!ProcessNothing, P!ProcessBad,
       P!BootstrapOk, P!BootstrapFails, P!BootstrapAlready, P!SaveOk, P!SaveFails, P!Remove,
       P!Reload, P!ReloadFails, P!BeatEnds, P!BeginReset, P!ResetConfig, P!ResetNoReboot, P!cycleVars
  <2> QED
    BY <2>3 DEF P!ProcessNothing, P!ProcessBad, P!Remove
<1>2. ASSUME ProvInv, [Next]_vars PROVE [Offered]_P!provVars
  BY <1>1, <1>2, StepsOfBoth DEF ProvInv, PTypeOK
<1> QED
  BY <1>2, Invariance, PTL DEF Spec, TokenOfferedOnce, P!TokenOfferedOnce

-----------------------------------------------------------------------------
(* The destinations.                                                       *)

LEMMA DestConstants ==
  /\ None \notin Devices /\ \A s \in SUBSET Dests : s # Unset
  /\ OwnerOf \in [Dests -> Devices]
  /\ Loops \subseteq Nat \ {0} /\ Keys \subseteq Nat \ {0} /\ MaxChanges \in Nat
  BY AgentAssumption DEF D!DestinationsAssumption

\* Only the first loop ever has a heartbeat, and no loop none.
FirstLoopOnly ==
  /\ \A l \in Loops : beat[l].stage # "idle" => l = 1 /\ loops > 0
  /\ loops = 0 => last = Unset

\* An answer on its way is the newest, and one being saved has been applied.
BeatInv ==
  \A l \in Loops :
    /\ beat[l].stage \in {"answered", "save"} => newest.got = beat[l].got
    /\ beat[l].stage = "save" => last = beat[l].got

\* Once one was applied, what is in use is what was applied last.
AppliedInv == last # Unset => active = last

\* The portal gives a record its own destinations only.
OwnInv ==
  /\ \A d \in Devices : assigned[d] \subseteq D!Own(d)
  /\ newest.as # None => newest.got \subseteq D!Own(newest.as)

DestInv ==
  /\ DTypeOK /\ FirstLoopOnly /\ BeatInv /\ AppliedInv /\ OwnInv
  /\ ActiveIsNewest /\ StoredFollows

-----------------------------------------------------------------------------
LEMMA OpenKeyType ==
  ASSUME keyFile \in Keys \cup {0, D!NoKey}, D!OpenKey
  PROVE  mgr' \in Keys \cup {0} /\ keyFile' \in Keys \cup {0, D!NoKey}
<1>1. CASE keyFile # 0 /\ mgr' = (IF keyFile = D!NoKey THEN 0 ELSE keyFile) /\ UNCHANGED keyFile
  BY <1>1
<1>2. CASE \E k \in Keys : k > keyFile /\ keyFile # D!NoKey /\ keyFile' = k /\ mgr' = k
  BY <1>2
<1>3. CASE keyFile = 0 /\ keyFile' \in {0, D!NoKey} /\ mgr' = 0
  BY <1>3
<1> QED
  BY <1>1, <1>2, <1>3 DEF D!OpenKey

\* The persisted set is used only if it is one.
LEMMA ReadableIsSet ==
  ASSUME DTypeOK, NEW k, D!Readable(stored, k)
  PROVE  stored.set \in SUBSET Dests
  BY DEF DTypeOK, D!DTypeOK, D!Readable, D!Applied

LEMMA DestInvInit == Init => DestInv
<1> SUFFICES ASSUME D!DestInit PROVE DestInv
  BY DEF Init
<1> USE DestConstants DEF D!DestInit
<1>1. unlinked \in BOOLEAN /\ unsaved \in BOOLEAN
  BY Zenon
<1>2. beat \in [Loops -> D!Beat] /\ \A l \in Loops : beat[l] = D!NoBeat
  BY DEF D!NoBeat, D!Beat
<1>3. stored \in [set : D!Applied, under : Keys \cup {0}]
      /\ newest \in [as : Devices \cup {None}, got : SUBSET Dests] /\ last \in D!Applied
  BY DEF D!Nothing, D!Applied
<1>4. DTypeOK
  BY <1>1, <1>2, <1>3 DEF DTypeOK, D!DTypeOK
<1>5. FirstLoopOnly /\ BeatInv /\ AppliedInv /\ OwnInv
  BY <1>2 DEF FirstLoopOnly, BeatInv, AppliedInv, OwnInv, D!NoBeat
<1>6. ActiveIsNewest /\ StoredFollows
  BY DEF ActiveIsNewest, D!ActiveIsNewest, StoredFollows, D!StoredFollows
<1> QED
  BY <1>4, <1>5, <1>6 DEF DestInv

LEMMA DestTypeStep == ASSUME DTypeOK, [D!DestNext]_D!destVars PROVE DTypeOK'
<1> USE DestConstants DEF D!portalVars, D!processDests, D!keyVars
<1>0. /\ assigned \in [Devices -> SUBSET Dests] /\ changes \in Nat
      /\ cfg.id \in Devices \cup {None} /\ loops \in Nat
      /\ beat \in [Loops -> D!Beat]
      /\ active \in SUBSET Dests /\ last \in D!Applied
      /\ stored \in [set : D!Applied, under : Keys \cup {0}]
      /\ keyFile \in Keys \cup {0, D!NoKey} /\ mgr \in Keys \cup {0}
      /\ newest \in [as : Devices \cup {None}, got : SUBSET Dests]
  BY DEF DTypeOK, D!DTypeOK
<1>b. unlinked \in BOOLEAN /\ unsaved \in BOOLEAN
  BY Zenon DEF DTypeOK, D!DTypeOK
<1>n. D!NoBeat \in D!Beat /\ (SUBSET Dests) \subseteq D!Applied
  BY DEF D!NoBeat, D!Beat, D!Applied
<1> DEFINE Bool == unlinked' \in BOOLEAN /\ unsaved' \in BOOLEAN
<1>1. ASSUME NEW i \in Devices \cup {None}, D!Adopt(i) PROVE DTypeOK'
  <2>1. /\ cfg'.id = i
        /\ UNCHANGED <<assigned, changes, beat, last, stored, unlinked, newest, unsaved>>
    BY <1>1 DEF D!Adopt
  <2>2. CASE D!StartsNow(i)
    <3>1. loops' \in Nat /\ D!OpenKey /\ active' = IF D!Readable(stored, mgr') THEN stored.set ELSE active
      BY <1>0, <1>1, <2>2 DEF D!Adopt, D!StartLoop
    <3>2. active' \in SUBSET Dests
      BY <1>0, <3>1, ReadableIsSet
    <3> QED
      BY <1>0, <1>b, <2>1, <3>1, <3>2, OpenKeyType DEF DTypeOK, D!DTypeOK
  <2>3. CASE ~D!StartsNow(i)
    BY <1>0, <1>b, <1>1, <2>1, <2>3 DEF DTypeOK, D!DTypeOK, D!Adopt
  <2> QED
    BY <2>2, <2>3
<1>2. ASSUME NEW i \in Devices \cup {None}, D!Boot(i) PROVE DTypeOK'
  <2>1. /\ cfg'.id = i /\ beat' = [l \in Loops |-> D!NoBeat] /\ last' = Unset
        /\ UNCHANGED <<assigned, changes, stored>>
        /\ newest' = [as |-> None, got |-> {}]
    BY <1>2 DEF D!Boot
  <2>b. Bool
    BY <1>2, Zenon DEF D!Boot
  <2>2. beat' \in [Loops -> D!Beat] /\ last' \in D!Applied
        /\ newest' \in [as : Devices \cup {None}, got : SUBSET Dests]
    BY <1>n, <2>1 DEF D!Applied
  <2>3. CASE i = None
    BY <1>0, <1>2, <2>1, <2>b, <2>2, <2>3 DEF D!Boot, DTypeOK, D!DTypeOK
  <2>4. CASE i # None
    <3>1. loops' = 1 /\ D!OpenKey /\ active' = IF D!Readable(stored, mgr') THEN stored.set ELSE {}
      BY <1>2, <2>4 DEF D!Boot
    <3>2. active' \in SUBSET Dests
      BY <3>1, ReadableIsSet
    <3> QED
      BY <1>0, <2>1, <2>b, <2>2, <3>1, <3>2, OpenKeyType DEF DTypeOK, D!DTypeOK
  <2> QED
    BY <2>3, <2>4
<1>3. ASSUME NEW d \in Devices, NEW set \in SUBSET Dests, D!Configure(d, set) PROVE DTypeOK'
  BY <1>0, <1>b, <1>3 DEF D!Configure, DTypeOK, D!DTypeOK
<1>4. ASSUME NEW l \in Loops, D!LoopStep(l) PROVE DTypeOK'
  <2>1. UNCHANGED <<assigned, changes, cfg.id, loops, keyFile, mgr, unlinked>>
    BY <1>4 DEF D!LoopStep, D!Send, D!NoAnswer, D!Answer, D!Reconcile, D!Persist
  <2>2. beat[l] \in D!Beat /\ beat[l].as \in Devices \cup {None} /\ beat[l].got \in SUBSET Dests
    BY <1>0 DEF D!Beat
  <2>b. unsaved' \in BOOLEAN
    BY <1>4, <1>b, Zenon DEF D!LoopStep, D!Send, D!NoAnswer, D!Answer, D!Reconcile, D!Persist
  <2>3. CASE D!Send(l)
    <3>1. [stage |-> "sent", as |-> cfg.id, got |-> {}] \in D!Beat
      BY <1>0 DEF D!Beat
    <3> QED
      BY <1>0, <1>b, <2>1, <2>b, <2>3, <3>1 DEF D!Send, DTypeOK, D!DTypeOK
  <2>4. CASE D!NoAnswer(l)
    BY <1>0, <1>b, <1>n, <2>1, <2>b, <2>4 DEF D!NoAnswer, DTypeOK, D!DTypeOK
  <2>5. CASE D!Answer(l)
    <3>1. assigned[beat[l].as] \in SUBSET Dests
      BY <1>0, <2>2, <2>5 DEF D!Answer
    <3>2. beat' = [beat EXCEPT ![l] = [stage |-> "answered", as |-> beat[l].as,
                                       got |-> assigned[beat[l].as]]]
      BY <2>5 DEF D!Answer
    <3>3. [stage |-> "answered", as |-> beat[l].as, got |-> assigned[beat[l].as]] \in D!Beat
      BY <2>2, <3>1 DEF D!Beat
    <3>4. beat' \in [Loops -> D!Beat]
      BY <1>0, <3>2, <3>3
    <3> QED
      BY <1>0, <1>b, <2>1, <2>2, <2>b, <2>5, <3>1, <3>4 DEF D!Answer, DTypeOK, D!DTypeOK
  <2>6. CASE D!Reconcile(l)
    <3>1. beat' \in [Loops -> D!Beat]
      BY <1>0, <1>n, <2>6 DEF D!Reconcile, D!Beat
    <3> QED
      BY <1>0, <1>b, <1>n, <2>1, <2>2, <2>b, <2>6, <3>1 DEF D!Reconcile, DTypeOK, D!DTypeOK
  <2>7. CASE D!Persist(l)
    BY <1>0, <1>b, <1>n, <2>1, <2>2, <2>b, <2>7 DEF D!Persist, D!SavedSet, DTypeOK, D!DTypeOK
  <2> QED
    BY <1>4, <2>3, <2>4, <2>5, <2>6, <2>7 DEF D!LoopStep
<1>5. CASE D!DropDatabase
  <2>b. Bool
    BY <1>5, Zenon DEF D!DropDatabase
  <2>1. stored' \in [set : D!Applied, under : Keys \cup {0}]
    BY <1>5 DEF D!DropDatabase, D!Nothing, D!Applied
  <2> QED
    BY <1>0, <1>5, <2>b, <2>1 DEF D!DropDatabase, DTypeOK, D!DTypeOK
<1>6. CASE UNCHANGED D!destVars
  BY <1>0, <1>b, <1>6 DEF D!destVars, DTypeOK, D!DTypeOK
<1> QED
  BY <1>1, <1>2, <1>3, <1>4, <1>5, <1>6 DEF D!DestNext

LEMMA DestInvStep == ASSUME DestInv, OneLoop, [D!DestNext]_D!destVars PROVE DestInv'
<1> USE DestConstants DEF FirstLoopOnly, BeatInv, AppliedInv, OwnInv,
      ActiveIsNewest, D!ActiveIsNewest, D!Settled, StoredFollows, D!StoredFollows,
      D!portalVars, D!processDests, D!keyVars
<1> DEFINE Rest == /\ FirstLoopOnly /\ BeatInv /\ AppliedInv /\ OwnInv
                   /\ ActiveIsNewest /\ StoredFollows
<1>t. DTypeOK /\ DTypeOK' /\ Rest
  BY DestTypeStep DEF DestInv
<1>0. /\ assigned \in [Devices -> SUBSET Dests]
      /\ beat \in [Loops -> D!Beat] /\ beat' \in [Loops -> D!Beat]
      /\ loops \in Nat /\ loops' \in Nat /\ loops <= 1
      /\ newest \in [as : Devices \cup {None}, got : SUBSET Dests]
      /\ \A l \in Loops : beat[l].got \in SUBSET Dests /\ beat[l].got # Unset
  BY <1>t DEF DTypeOK, D!DTypeOK, D!Beat, OneLoop, P!OneLoop
<1>1. ASSUME NEW i \in Devices \cup {None}, D!Adopt(i) PROVE Rest'
  BY <1>t, <1>0, <1>1 DEF D!Adopt, D!StartsNow, D!StartLoop
<1>2. ASSUME NEW i \in Devices \cup {None}, D!Boot(i) PROVE Rest'
  BY <1>t, <1>0, <1>2 DEF D!Boot, D!NoBeat
<1>3. ASSUME NEW d \in Devices, NEW set \in SUBSET Dests, D!Configure(d, set) PROVE Rest'
  BY <1>t, <1>0, <1>3 DEF D!Configure
<1>4. ASSUME NEW l \in Loops, D!LoopStep(l) PROVE Rest'
  <2>1. /\ \A k \in Loops \ {l} : beat'[k] = beat[k]
        /\ UNCHANGED <<assigned, cfg.id, loops, unlinked>>
    BY <1>0, <1>4 DEF D!LoopStep, D!Send, D!NoAnswer, D!Answer, D!Reconcile, D!Persist
  <2>2. l = 1 /\ loops > 0
    BY <1>t, <1>0, <1>4 DEF D!LoopStep, D!Send, D!NoAnswer, D!Answer, D!Reconcile, D!Persist
  <2>3. \A k \in Loops \ {l} : beat[k].stage = "idle" /\ beat'[k].stage = "idle"
    BY <1>t, <2>1, <2>2
  <2>4. FirstLoopOnly'
    BY <2>1, <2>2, <2>3
  <2>5. CASE D!Send(l)
    <3>1. beat'[l].stage = "sent"
      BY <1>0, <2>5 DEF D!Send
    <3>2. UNCHANGED <<active, last, stored, newest, unsaved>> /\ beat[l].stage = "idle"
      BY <2>5 DEF D!Send
    <3> QED
      BY <1>t, <2>1, <2>3, <2>4, <3>1, <3>2
  <2>6. CASE D!NoAnswer(l)
    <3>1. beat'[l].stage = "idle"
      BY <1>0, <2>6 DEF D!NoAnswer, D!NoBeat
    <3>2. UNCHANGED <<active, last, stored, newest, unsaved>> /\ beat[l].stage = "sent"
      BY <2>6 DEF D!NoAnswer
    <3> QED
      BY <1>t, <2>1, <2>3, <2>4, <3>1, <3>2
  <2>7. CASE D!Answer(l)
    <3>1. /\ beat'[l].stage = "answered" /\ beat'[l].got = assigned[beat[l].as]
          /\ newest' = [as |-> beat[l].as, got |-> assigned[beat[l].as]]
          /\ UNCHANGED <<active, last, stored, unsaved>> /\ beat[l].stage = "sent"
      BY <1>0, <2>7 DEF D!Answer, D!Beat
    <3>2. beat[l].as \in Devices
      BY <1>0, <2>7 DEF D!Answer, D!Beat
    <3>3. OwnInv'
      BY <1>t, <2>1, <3>1, <3>2 DEF D!Own
    <3>4. BeatInv' /\ AppliedInv' /\ ActiveIsNewest'
      BY <1>t, <2>3, <3>1
    <3>5. StoredFollows'
      BY <1>t, <2>3, <3>1
    <3> QED
      BY <2>4, <3>3, <3>4, <3>5
  <2>8. CASE D!Reconcile(l)
    <3>1. UNCHANGED <<stored, newest, unsaved>> /\ beat[l].stage = "answered" /\ newest.got = beat[l].got
      BY <1>t, <2>8 DEF D!Reconcile
    <3>2. OwnInv'
      BY <1>t, <2>1, <3>1
    <3>3. CASE D!Changed(l)
      <4>1. beat'[l].stage = "save" /\ beat'[l].got = beat[l].got
            /\ last' = beat[l].got /\ active' = beat[l].got
        BY <1>0, <2>8, <3>3 DEF D!Reconcile, D!Beat
      <4> QED
        BY <1>t, <2>3, <2>4, <3>1, <3>2, <4>1
    <3>4. CASE ~D!Changed(l)
      <4>1. beat'[l].stage = "idle" /\ UNCHANGED <<active, last>> /\ last = beat[l].got
        BY <1>0, <2>8, <3>4 DEF D!Reconcile, D!Changed, D!NoBeat
      <4> QED
        BY <1>t, <2>3, <2>4, <3>1, <3>2, <4>1
    <3> QED
      BY <3>3, <3>4
  <2>9. CASE D!Persist(l)
    <3>1. UNCHANGED <<active, last, newest>> /\ beat[l].stage = "save" /\ beat'[l].stage = "idle"
      BY <1>0, <2>9 DEF D!Persist, D!NoBeat
    <3>2. stored'.set = beat[l].got \/ unsaved'
      BY <2>9 DEF D!Persist, D!SavedSet
    <3> QED
      BY <1>t, <2>1, <2>3, <2>4, <3>1, <3>2
  <2> QED
    BY <1>4, <2>5, <2>6, <2>7, <2>8, <2>9 DEF D!LoopStep
<1>5. CASE D!DropDatabase
  BY <1>t, <1>5 DEF D!DropDatabase, DestInv
<1>6. CASE UNCHANGED D!destVars
  BY <1>t, <1>6 DEF D!destVars, DestInv
<1> QED
  BY <1>t, <1>1, <1>2, <1>3, <1>4, <1>5, <1>6 DEF DestInv, D!DestNext

LEMMA DestInvariance == Spec => []DestInv
<1>1. ASSUME ProvInv, DestInv, [Next]_vars PROVE DestInv'
  BY <1>1, StepsOfBoth, DestInvStep DEF ProvInv, PTypeOK
<1> QED
  BY <1>1, DestInvInit, Invariance, PTL DEF Spec

-----------------------------------------------------------------------------
(* Results.                                                                *)

\* Every reachable state of Destinations' variables is well typed.
THEOREM DestTypeCorrect == Spec => []DTypeOK
  BY DestInvariance, PTL DEF DestInv

\* The answers of the portal are applied in their order: what is in use is the
\* newest set, an empty one too.
THEOREM NewestInUse == Spec => []ActiveIsNewest
  BY DestInvariance, PTL DEF DestInv

\* Nothing is left of the destinations of an identity the device had before.
THEOREM OnlyOwn == Spec => []OnlyOwnDestinations
<1>1. ASSUME ProvInv, DestInv PROVE OnlyOwnDestinations
  BY <1>1 DEF DestInv, OwnInv, ActiveIsNewest, D!ActiveIsNewest,
     OnlyOwnDestinations, D!OnlyOwnDestinations
<1> QED
  BY <1>1, DestInvariance, Invariance, PTL

\* What is in the database is what was applied last, but for the writes that
\* failed.
THEOREM StoredIsLast == Spec => []StoredFollows
  BY DestInvariance, PTL DEF DestInv

\* A restart goes on with the destinations in use.
THEOREM RestartKeeps == Spec => RestartKeepsDestinations
<1> DEFINE Kept ==
      (/\ last # Unset /\ last' = Unset /\ loops' > 0 /\ ~unsaved
       /\ \A l \in Loops : beat[l].stage # "save"
       /\ stored.under \in {0, mgr'}) => active' = active
<1>1. ASSUME DestInv, [D!DestNext]_D!destVars PROVE [Kept]_D!destVars
  <2> SUFFICES ASSUME last # Unset, last' = Unset, loops' > 0, ~unsaved,
                      \A l \in Loops : beat[l].stage # "save",
                      stored.under \in {0, mgr'}, D!DestNext
               PROVE  active' = active
    BY <1>1
  <2>1. stored.set = last /\ active = last
    BY <1>1 DEF DestInv, StoredFollows, D!StoredFollows, AppliedInv
  <2>2. \A l \in Loops : beat[l].got # Unset
    BY <1>1, DestConstants DEF DestInv, DTypeOK, D!DTypeOK, D!Beat
  <2>3. PICK i \in Devices \cup {None} : D!Boot(i)
    BY <2>2 DEF D!DestNext, D!Adopt, D!Configure, D!LoopStep, D!Send, D!NoAnswer, D!Answer,
       D!Reconcile, D!Persist, D!DropDatabase
  <2> QED
    BY <2>1, <2>3 DEF D!Boot, D!Readable
<1>2. ASSUME ProvInv, DestInv, [Next]_vars PROVE [Kept]_D!destVars
  BY <1>1, <1>2, StepsOfBoth DEF ProvInv, PTypeOK
<1> QED
  BY <1>2, DestInvariance, Invariance, PTL DEF Spec, RestartKeepsDestinations, D!RestartKeepsDestinations
=============================================================================
