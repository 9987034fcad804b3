---------------------------- MODULE Provisioning ----------------------------
(***************************************************************************)
(* internal/provision/provision.go Process, the part of a maintenance      *)
(* cycle around it (main.go:377-409), the configuration file of            *)
(* internal/config/config.go, and what depends on the identity in it: the  *)
(* heartbeat loop (agent.Start), the status LED, and runFactoryReset.      *)
(*                                                                         *)
(* A device record of the portal has one provision file with a single-use  *)
(* token; the key the portal makes for it is named by the device. The user *)
(* copies provision files onto the drive; a cycle reads the drive, one     *)
(* cycle at a time. Wi-Fi setup, DNS and TLS only decide whether the       *)
(* bootstrap request reaches the portal, which may always fail.            *)
(***************************************************************************)
EXTENDS Naturals, FiniteSets

CONSTANTS Devices,      \* device records of the portal, and the keys made for them
          None,         \* no device, no key, no file
          Bad,          \* a provision file that cannot be read or parsed
          MaxDrops,     \* bound: provision files copied onto the drive
          MaxRestarts,  \* bound: restarts of the process
          MaxResets     \* bound: factory resets

\* What Agent assumes of these constants.
ProvisioningAssumption ==
  /\ None \notin Devices /\ Bad \notin Devices /\ None # Bad
  /\ MaxDrops \in Nat /\ MaxRestarts \in Nat /\ MaxResets \in Nat

VARIABLES
  spent,       \* device records whose token the portal has exchanged for a key
  file,        \* ivault.provision on the drive
  saved,       \* device_id and device_api_key in /etc/ivault/config.json
  cfg,         \* the same of *cfg, shared by main, cycles and heartbeat
  loops,       \* heartbeat loops launched by this process
  led,         \* what the status LED shows
  pc,          \* the maintenance cycle
  provisioned, \* what Process is going to return
  reset,       \* runFactoryReset
  \* history, read by guards of bounds and by properties only
  keyless,     \* devices whose key was lost on the way into or out of the file
  unread,      \* the configuration could not be read back
  drops, restarts, resets

cycleVars == <<file, pc, provisioned>>
processVars == <<cfg, loops, unread>>
boundVars == <<drops, restarts, resets>>
provVars == <<spent, cycleVars, saved, processVars, led, reset, keyless, boundVars>>

NoIdentity == [id |-> None, key |-> None]
Identity == [id : Devices \cup {None}, key : Devices \cup {None}]

PTypeOK ==
  /\ spent \subseteq Devices /\ keyless \subseteq Devices
  /\ file \in Devices \cup {None, Bad}
  /\ saved \in Identity /\ cfg \in Identity
  /\ loops \in Nat
  /\ led \in {"slow", "rapid", "solid"}
  /\ pc \in {"idle", "process", "save", "remove", "reload"}
  /\ provisioned \in BOOLEAN /\ unread \in BOOLEAN
  /\ reset \in {"none", "begun", "config"}
  /\ drops \in Nat /\ restarts \in Nat /\ resets \in Nat

\* cfg.DeviceID, DeviceAPIKey and CloudEndpoint are all there.
Provisioned(c) == c.id # None /\ c.key # None

\* Boot: read the configuration, pulse slowly, start the heartbeat if there is
\* an identity.
Boot(c) ==
  /\ cfg' = c /\ unread' = FALSE
  /\ loops' = IF Provisioned(c) THEN 1 ELSE 0
  /\ led' = "slow" /\ pc' = "idle" /\ provisioned' = FALSE /\ reset' = "none"

\* A device fresh from the installer, booted.
ProvInit ==
  /\ spent = {} /\ file = None /\ saved = NoIdentity
  /\ cfg = NoIdentity /\ loops = 0
  /\ led = "slow" /\ pc = "idle" /\ provisioned = FALSE /\ reset = "none"
  /\ keyless = {} /\ unread = FALSE /\ drops = 0 /\ restarts = 0 /\ resets = 0

-----------------------------------------------------------------------------
\* The user copies a provision file onto the drive while the host has it.
Drop(f) ==
  /\ pc = "idle" /\ drops < MaxDrops
  /\ file' = f /\ drops' = drops + 1
  /\ UNCHANGED <<spent, pc, provisioned, saved, processVars, led, reset, keyless, restarts, resets>>

\* The drive is mounted; the LED announces a provision file.
BeginCycle ==
  /\ pc = "idle" /\ pc' = "process"
  /\ led' = IF file = None THEN led ELSE "rapid"
  /\ UNCHANGED <<spent, file, provisioned, saved, processVars, reset, keyless, boundVars>>

\* Nothing to provision. What follows, ingest, retention and the upload, is
\* FilePipeline's subject.
ProcessNothing ==
  /\ pc = "process" /\ file = None /\ pc' = "idle"
  /\ UNCHANGED <<spent, file, provisioned, saved, processVars, led, reset, keyless, boundVars>>

\* A file that does not parse is left where it is, and the error ends Run
\* before anything is ingested.
ProcessBad ==
  /\ pc = "process" /\ file = Bad /\ pc' = "idle"
  /\ led' = "slow"
  /\ UNCHANGED <<spent, file, provisioned, saved, processVars, reset, keyless, boundVars>>

\* The portal accepts the token and its answer arrives.
BootstrapOk ==
  /\ pc = "process" /\ file \in Devices \ spent
  /\ spent' = spent \cup {file} /\ pc' = "save"
  /\ UNCHANGED <<file, provisioned, saved, processVars, led, reset, keyless, boundVars>>

\* No answer, or one that is of no use; the portal may have spent the token.
BootstrapFails ==
  /\ pc = "process" /\ file \in Devices
  /\ \/ UNCHANGED <<spent, keyless>>
     \/ file \notin spent /\ spent' = spent \cup {file} /\ keyless' = keyless \cup {file}
  /\ pc' = "remove"
  /\ UNCHANGED <<file, provisioned, saved, processVars, led, reset, boundVars>>

\* "already provisioned": taken for a success, without a key.
BootstrapAlready ==
  /\ pc = "process" /\ file \in spent
  /\ provisioned' = TRUE /\ pc' = "remove"
  /\ UNCHANGED <<spent, file, saved, processVars, led, reset, keyless, boundVars>>

\* The keys that are gone when identity c is no longer in the file.
Forgotten(c) == {c.key} \cap Devices

\* Mutant: a key the file has already is kept in the merge.
SaveKeepsKey ==
  /\ pc = "save"
  /\ saved' = [id |-> file, key |-> IF saved.key = None THEN file ELSE saved.key]
  /\ keyless' = keyless \ {file}
  /\ provisioned' = TRUE /\ pc' = "remove"
  /\ UNCHANGED <<spent, file, processVars, led, reset, boundVars>>

\* UpdateConfig: merged, written aside and renamed, so it is all or nothing.
SaveOk ==
  /\ pc = "save"
  /\ saved' = [id |-> file, key |-> file]
  /\ keyless' = (keyless \cup Forgotten(saved)) \ {file}
  /\ provisioned' = TRUE /\ pc' = "remove"
  /\ UNCHANGED <<spent, file, processVars, led, reset, boundVars>>

SaveFails ==
  /\ pc = "save"
  /\ keyless' = keyless \cup {file}
  /\ pc' = "remove"
  /\ UNCHANGED <<spent, file, provisioned, saved, processVars, led, reset, boundVars>>

\* Mutant: a failed attempt returns before the file is removed.
RemoveOnSuccess ==
  /\ pc = "remove"
  /\ file' = IF provisioned THEN None ELSE file
  /\ pc' = IF provisioned THEN "reload" ELSE "idle"
  /\ led' = IF provisioned THEN led ELSE "slow"
  /\ UNCHANGED <<spent, provisioned, saved, processVars, reset, keyless, boundVars>>

\* Mutant: only a provisioning that succeeds ends the rapid pulse.
RemoveKeepsPulse ==
  /\ pc = "remove"
  /\ file' = None
  /\ pc' = IF provisioned THEN "reload" ELSE "idle"
  /\ UNCHANGED <<spent, provisioned, saved, processVars, led, reset, keyless, boundVars>>

\* The deferred os.Remove, on every path that got past parsing; a failed
\* attempt goes back to the slow pulse.
Remove ==
  /\ pc = "remove"
  /\ file' = None
  /\ pc' = IF provisioned THEN "reload" ELSE "idle"
  /\ led' = IF provisioned THEN led ELSE "slow"
  /\ UNCHANGED <<spent, provisioned, saved, processVars, reset, keyless, boundVars>>

\* agent.Start launches a loop: there is an identity and none was launched yet.
Starts(c) == Provisioned(c) /\ loops = 0

\* *cfg = *newCfg, then agent.Start. The heartbeat may be reading cfg just
\* then: a request with a mixed identity fails as one that is lost.
Reload ==
  /\ pc = "reload" /\ pc' = "idle"
  /\ cfg' = saved /\ unread' = FALSE /\ provisioned' = FALSE
  /\ loops' = IF Starts(saved) THEN loops + 1 ELSE loops
  /\ led' = IF Provisioned(saved) THEN led ELSE "slow"
  /\ UNCHANGED <<spent, file, saved, reset, keyless, boundVars>>

\* The file cannot be read back: the process goes on as it was.
ReloadFails ==
  /\ pc = "reload" /\ pc' = "idle"
  /\ unread' = TRUE /\ provisioned' = FALSE
  /\ UNCHANGED <<spent, file, saved, cfg, loops, led, reset, keyless, boundVars>>

-----------------------------------------------------------------------------
\* A heartbeat under the configured identity ends: the portal answered, or not.
BeatEnds(ok) ==
  /\ loops > 0
  /\ led' = IF ok THEN "solid" ELSE "slow"
  /\ UNCHANGED <<spent, cycleVars, saved, processVars, reset, keyless, boundVars>>

\* factory_reset arrives with a heartbeat; runFactoryReset has a goroutine.
BeginReset ==
  /\ loops > 0 /\ reset = "none" /\ resets < MaxResets
  /\ reset' = "begun" /\ resets' = resets + 1
  /\ UNCHANGED <<spent, cycleVars, saved, processVars, led, keyless, drops, restarts>>

ResetConfig ==
  /\ reset = "begun" /\ reset' = "config"
  /\ saved' = NoIdentity /\ keyless' = keyless \cup Forgotten(saved)
  /\ UNCHANGED <<spent, cycleVars, processVars, led, boundVars>>

\* Database and queue are removed as well; then the reboot fails. A reboot
\* that works is a restart.
ResetNoReboot ==
  /\ reset = "config" /\ reset' = "none"
  /\ UNCHANGED <<spent, cycleVars, saved, processVars, led, keyless, boundVars>>

\* Crash, reboot or restart_service, anywhere. A key not yet saved is lost.
Restart ==
  /\ restarts < MaxRestarts /\ restarts' = restarts + 1
  /\ Boot(saved)
  /\ keyless' = IF pc = "save" THEN keyless \cup {file} ELSE keyless
  /\ UNCHANGED <<spent, file, saved, drops, resets>>

CycleStep ==
  \/ BeginCycle \/ ProcessNothing \/ ProcessBad
  \/ BootstrapOk \/ BootstrapFails \/ BootstrapAlready
  \/ SaveOk \/ SaveFails \/ Remove \/ Reload \/ ReloadFails

ProvNext ==
  \/ \E f \in Devices \cup {Bad} : Drop(f)
  \/ CycleStep
  \/ \E ok \in BOOLEAN : BeatEnds(ok)
  \/ BeginReset \/ ResetConfig \/ ResetNoReboot
  \/ Restart

ProvSpec == ProvInit /\ [][ProvNext]_provVars
-----------------------------------------------------------------------------
\* The id the device gives itself and the key it shows are of one record, on
\* disk and in memory, whatever fails between the portal and the rename.
KeyBelongsToId == saved.key = saved.id /\ cfg.key = cfg.id

\* A token is spent for a key the device has, unless that key was lost on one
\* of the ways named by keyless: answer lost, save failed or cut off, identity
\* replaced or reset. Then no file of that record gives it an identity again.
SpentTokenAccounted ==
  \A d \in spent : saved.key = d \/ d \in keyless \/ (pc = "save" /\ file = d)

\* The heartbeat loop runs once, and it does run in every process whose
\* configuration has an identity, be it read at boot or provisioned later.
OneLoop == loops <= 1 /\ (Provisioned(cfg) => loops = 1)

\* The LED is solid only after an answer from the portal to this process, so
\* only with a loop; with no heartbeat to end it, it is rapid only while
\* provisioning is in progress, or if the new configuration was not read back.
LedTellsTruth ==
  /\ led = "solid" => loops > 0
  /\ led = "rapid" /\ loops = 0 =>
       pc \in {"process", "save", "remove", "reload"} \/ unread

\* A cycle that read a provision file leaves it behind only if it could not
\* parse it, or is cut off by a restart: no token is offered twice, however the
\* attempt ended.
TokenOfferedOnce ==
  [][(/\ pc \in {"process", "save", "remove"} /\ pc' \in {"reload", "idle"}
      /\ restarts' = restarts) => file' \in {None, Bad}]_provVars
=============================================================================
