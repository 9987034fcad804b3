# Specifications of the iVault relay

The relay presents an exFAT drive to a USB host (a camera, a recorder, a PC). When the
host lets go of it, on a schedule, or on demand, it takes the drive away for a moment,
copies what is new into a staging area, gives the drive back, and uploads the staged
files to the backup destinations configured in a portal, which it also keeps informed.
These TLA+ modules model the parts of that program in which order, failure and
concurrency matter, check them with TLC on small instances, and prove the most
important facts with TLAPS for all instances.

Line numbers refer to the sources beside this directory, under `src/`.

## 1. The system

### Components, their state and operations

| component | state | operations | modelled in |
|---|---|---|---|
| orchestrator `main.go` | none of its own; goroutines: main, UDC handler, one per cycle; one cancel slot | initial attach, `SIGUSR1`, scheduler tick, unplug event → `runMaintenance`; plug event; shutdown; `startupRecovery` | `Maintenance`, `FilePipeline`, `UploadAll`, `UploadTwo` (the slot), `Agent` (provisioning in a cycle) |
| state machine `internal/state` | `current` | `Transition`, `State`, observers | `Maintenance` |
| USB gadget `internal/gadget/gadget.go` | configfs tree, UDC binding, LUN backing file | `Attach`, `Detach`, `Eject`, `Load`, `IsAttached` | `Maintenance` |
| UDC monitor `internal/gadget/monitor.go` | last settled state, channel of four events | poll, debounce, emit or drop | `Maintenance` (settled changes only) |
| schedule `internal/schedule` and main's loop | six keys of the config table; ticker, `lastFiredMinute` | `Load`, `MatchesTime`, `InBlackout`; tick, signal | `Scheduler`; `Maintenance` (a window is in force or not) |
| ingest and retention `internal/ingest` | drive, staging area `upload_queue/`, rows | `Mount`, `Unmount`, `Run`, `copyAndVerify`, `ApplyRetention` | `FilePipeline`; mounting in `Maintenance` |
| upload engine `internal/upload` | per call: `deadDest`, results, semaphore, errgroup | `UploadAll`, `uploadFile`, `TestReachable` | `UploadAll`; `UploadTwo` (two calls, failing row writes) |
| file rows `internal/db/files.go` | table `files`: state, attempts, change marker | insert, state changes, queries, `ResetStuckFiles` | `FileLifecycle`, `UploadAll`, `FilePipeline`, `DeltaSync` |
| heartbeat agent `internal/agent/heartbeat.go`, `state.go` | watermark, last destination set, active destinations and their stored copy, `agentStarted` | `Start`, heartbeat, delta of rows, destination reconcile, commands, factory reset | `DeltaSync` (the delta), `Destinations` and `Agent` (the rest), `Scheduler` (writing the schedule) |
| provisioning `internal/provision` | provision file on the drive, portal's record of the token | `Process`: network, bootstrap, save, remove | `Provisioning`, `Agent` |
| configuration `internal/config` | config file, `*cfg` shared by all goroutines | `LoadOrDefault`, `UpdateConfig` | `Provisioning` (the identity in it) |
| secrets `internal/secret` | key file, key in use | `NewManager`, `Encrypt`, `Decrypt` | `Destinations` (which text can be read with which key) |
| status LED `internal/led` | pattern | `SlowPulse`, `RapidPulse`, `Solid` | `Provisioning` (the last pattern asked for) |
| log shipper `internal/agent/logs.go` | buffer, ship level | `InitLogs`, `Write`, `SetLogShipLevel`, `push` | `LogShipper` |
| discovery, telemetry, time zone, database opening, install scripts | | | not modelled, section 7 |

### How they interact

- **Three triggers start a cycle**: main's loop (schedule tick or `SIGUSR1`), the UDC
  handler (unplug), the portal's `trigger_sync` (which sends the process `SIGUSR1`). Each calls
  `runMaintenance`, which checks the state machine and starts a goroutine.
- **The cycle** ejects the LUN, mounts, ingests, applies retention, unmounts, loads
  the LUN again (when the host was there), and starts `UploadAll` in the background of its own goroutine.
- **The UDC handler** receives settled plug events from the monitor's channel; on a plug
  it cancels the upload, unmounts, attaches or loads.
- **Provisioning** happens inside a cycle: a file on the drive is exchanged for a key, the
  configuration file is rewritten and read back into `*cfg`, and `agent.Start` is called again.
- **The heartbeat** starts with an identity, drives the LED, brings schedule, destinations, log level and commands;
  `UploadAll` is called with the destinations active at that moment; a reset or a restart comes as a command.
- **Shared without a common lock**: the state machine (each access is locked, sequences are
  not), the mount point, the LUN, the cancel slot, the database, the staging area, `*cfg`.
- **Files** move between drive, staging area and destinations, and their rows record
  it; the heartbeat reads the rows by their change marker.

### What is hard here

Interleaving of main, handler and cycles between a check and its use; the drive must have a
single writer; a crash may fall between a file operation and the row that records
it; an upload may be cancelled anywhere; destinations fail one by one while several
workers use them; names are reused by the host while rows, staging and destinations are
keyed by name; answers of the portal get lost or are late while rows change; a single-use token is spent before its key is
safe; an identity, a key file or the database may change or vanish under a process that goes on. `PROJECT.json` lists
each hazard with its line and the properties that would catch it.

### What makes each component correct

- *Orchestrator*: no order of writes leaves a busy state that nobody will leave (all later
  triggers would be refused); mounted and presented exclude each other; a host that
  stays has its drive again; one cycle at a time; a host that comes back is served.
- *Upload engine*: uploaded means a copy exists; nothing pending loses its staged copy;
  a file is charged only when every destination failed and given up only when
  exhausted; calls return; files settle.
- *Ingest and retention*: nothing leaves the drive that is not at a destination;
  what is skipped has been staged; the drive comes back.
- *Scheduler*: a scheduled minute fires once and is not missed, and nothing is triggered in a
  blackout window, while the heartbeat replaces the schedule.
- *Heartbeat delta*: the watermark never passes a change the portal lacks; a backlog trickles up.
- *Provisioning*: id and key belong together; a token spent is a key gained or accountably lost;
  one heartbeat loop; no token is offered twice; the LED tells the truth.
- *Destinations*: the device uses the set the portal served last, its own only; what is in use is what a restart finds.
- *Log shipper*: every line is accounted for, none is sent twice, order is kept, a burst costs the oldest lines.

## 2. The modules

| module | what it is |
|---|---|
| `FileLifecycle` | abstract: what the `files` table promises about one archived file |
| `UploadAll` | `upload.go`, the goroutine of `main.go:463-531` around it, rows and staging; implements `FileLifecycle` |
| `UploadAllMC`, `UploadAllProofs` | instances; proofs |
| `UploadTwo` | extends `UploadAll` by a second call of it (an `INSTANCE` on the same rows), the slot for a cancel function, and row writes that fail |
| `UploadTwoMC`, `UploadTwoProofs` | instance; proofs |
| `FilePipeline` | extends `UploadAll` by the host, ingest, retention and power loss; implements `FileLifecycle` |
| `FilePipelineMC`, `FilePipelineProofs` | instances: a path per content, or one name for all; proofs |
| `Maintenance` | the state machine and its writers, gadget, mount point, monitor, restart |
| `MaintenanceMC`, `MaintenanceProofs` | instances; proofs |
| `DeltaSync` | rows changed since a watermark, sent to the portal |
| `DeltaSyncMC`, `DeltaSyncProofs` | instances; proofs |
| `Scheduler` | ticks, signals, the schedule and its replacement while it is loaded |
| `SchedulerMC`, `SchedulerProofs` | instances; proofs |
| `Provisioning` | provision file, token, configuration file, heartbeat loop, LED, factory reset |
| `Destinations` | the portal's set, the set in use, its stored copy and the key it is encrypted with |
| `Agent`, `AgentMC` | the two composed in one process, sharing identity and loop; instance |
| `AgentProofs` | proofs: what holds of the identity, then what holds of the destinations |
| `LogShipper`, `LogShipperMC`, `LogShipperProofs` | the log collector; instance; proofs |

### UploadAll

A file is its content (one row per SHA-256). `PathOf` is the `Filename` column: the place in
the staging area and at every destination; two contents may share it. One call is
`StartUpload` (reads the queue once), `Spawn` (the loop that takes a semaphore slot per
file), and per file the steps of its goroutine:

    stat --> choose <--> transfer --> acknowledge --> cleanup
               |            |
               |            +--> (cancelled) back to queued
               +--> charge --> settle (failed | abandoned)

Each step is what the goroutine does between two points at which another goroutine,
the canceller or a crash can be seen: the row and the file system are changed by separate
actions, the results under their mutex are not. `snap` is the attempt count read at the
start, which is the one `upload.go:238` decides with. `FinishUpload` is `g.Wait` and what `main.go:496-529`
records. `Crash` may happen at any point and is followed at once by
`startupRecovery`, since nothing else runs before it.

An rclone transfer either leaves the whole staged content at the path or leaves
what was there (rclone copies to a partial name first; external). The destination file may have been written
by a transfer which is reported as failed.

### UploadTwo

`main.go:463` uploads in the background, when the cycle has given the drive back, so a later cycle's upload may begin while one
is still running. The second call is `UploadAll` instantiated with its own per-call variables on the same rows,
staging area and destinations; every step of either is the one `UploadAll` defines. `slot` is the one place for a cancel function
(`main.go:35-54`): each cycle stores its own when it begins, so of two running uploads either may be the one it cancels.
`LosesWrite` is a row's update that fails, which `upload.go` ignores in all places: the goroutine goes on, and the row stays as it was
(`RowWriteFails`). `unwritten` names the files it happened to. `CrashBoth` ends both calls.

### FilePipeline

The host writes and deletes while it has the drive (`phase = "host"`). `BeginCycle` snapshots the
directory the walk will visit; `Skip`, `Insert`, `Copy`, `CopyFails`, `MarkCopied`,
`MarkQueued` are the body of the walk with a step for each separate write;
`LeaveWalk` is its end or an error in it; `BeginRetention` reads the rows, `Purge`,
`PurgeFails`, `MarkDeleted` treat one each; `Present` returns the drive;
`BeginUpload` and `UploadAll`'s own actions then run beside the host and the next cycle.
Ignore rules and the provisioning sentinels are the constant `Ignored`, the usage
threshold a number of files on the drive, `RetainFrom`. `PowerLoss` leaves a cut-off copy whole, torn or missing.

### Maintenance

Each actor has a program counter (`mpc`, `hpc`, `cpc[c]`); the names of the steps are the
places in the code at which another actor can interleave: between the state
check of `runMaintenance` and the goroutine's first write, around every command
that takes time (eject, settle, mount, ingest, unmount, load, attach, detach). The kernel's part is `attached`,
`bound`, `media`, `mounts`: mounts stack, as `mount(8)` on a used mount point does, and
one `umount` removes one. `Poll` is a settled change of the UDC state, put into the bounded channel or
dropped. `Restart` is a power loss (nothing is mounted, the gadget is gone) or a
respawn of the process (the kernel keeps both; recovery unmounts once).

History variables: `disturbed` (what came between the cycle and its exclusive use of the
drive: `overlap`, `interrupt`, `eject`), `refused` (an Attach or Load failed since the start), `missed` (the host's
last arrival was dropped at the full channel, came in a state in which the handler forgets it, or was overtaken: taken up before the cycle
of an earlier unplug, whose state another cycle's late write had replaced, ejected the drive), `flips`, `restarts`.

### DeltaSync

`stamp` is `updated_at` in the clock's milliseconds, `ver` numbers a row's contents. A heartbeat
reads the rows beyond the watermark, oldest first, at most `Limit`; the answer moves the watermark to
the newest stamp of them. `Unanswered` covers every way of not getting there; the portal may
still handle such a request, later than newer ones (`HandledLate`); of two changes of a row the portal
is taken to keep the later (external: the `updatedAt` each row carries tells it). `blurred` names the rows whose
last change has no stamp of its own later than all before: reset by
`ResetStuckFiles`, which gives none, written within one millisecond with another row, or written after the clock was set back.

### Scheduler

Time is in minutes; `at` is the time a tick carries, which is older than `now` when the loop was busy.
`WriteKey` is one `SetConfig` of the heartbeat, `LoadKey` one `GetConfig` of `Load`: both go through the same
six keys in the same order, and neither is a transaction. `DecideScheduled` and `DecideManual` are the bodies of
the loop's two cases up to the call of `runMaintenance`, which may still refuse (the state is busy): the minute is
done with all the same. The ticker's channel holds one tick; a tick that finds it full is lost. After a
restart `lastFiredMinute` is empty, and a half replaced schedule stays in the table until the next heartbeat.

`Covers` is what a window means: fewer minutes after its beginning than it is long. `InBlackout`, with its case for
midnight, is what the code computes. History variables: `disturbed` (the table changed, or was mixed, since
this load began) is the exception `BlackoutKept` names; `steady` (the minute from which on nothing
changed, no tick was lost and the process was up) is the one `NoneMissed` names; the decisions themselves do not read them.

### Provisioning, Destinations, Agent

*Provisioning*. A provision file is the device record it was made for, or `Bad`; a key is named by the record it was made for.
`pc` walks through the part of a cycle that `main.go:377-409` and `Process` are: `BeginCycle` (the LED announces the file),
`ProcessBad`, `BootstrapOk` / `BootstrapFails` / `BootstrapAlready`, `SaveOk` / `SaveFails`, `Remove` (the deferred `os.Remove`),
`Reload` / `ReloadFails`. `BootstrapFails` covers a portal that spent the token and whose answer was lost. `saved` is the identity in the file,
`cfg` the one in memory: a reset changes the first, a reload the second. `keyless` is history: records whose key was lost.

*Destinations*. A heartbeat is `Send`, then `NoAnswer`, or `Answer` (the portal's set of that moment), `Reconcile`
(`heartbeat.go:433-457`: compare with `last`, apply) and `Persist`, each a step, since the portal, a cycle's reload, a reset or a restart may come between.
`stored` is the persisted set with the key it is encrypted with; `OpenKey` is `secret.NewManager` with every outcome
(the key read, a new one made, a short file, none), `Readable` is `decryptBlob` and the parse after it. After `DropDatabase` the process writes to a file without a
name. `newest` is history: the answer the portal gave last to this process.

*Agent* conjoins their actions where the code does both in one step (`Reload` calls `agent.Start`; an answer turns the LED solid; a
restart takes the memory of both) and leaves the other component unchanged elsewhere. `loops` is shared, and `ident` of
*Destinations* is `cfg.id`. Both `ProvSpec` and `DestSpec` are proved of it.

### LogShipper

A line is its number; package log serialises the writers. `Write` buffers it, or withholds it by level or because there is no collector; `Keep` is the
cut to the newest `Cap`. `Take` is `push` up to the unlock; `PushOk`, `PushFails` and `PushTimesOut` are its ends, and a post that
timed out may still arrive (`LateArrives`), one at a time. `Restart` loses the buffer; a post under way is given up first by one of the three. History:
`withheld`, `overflowed`, `lost`, `delayed`, the reasons a line may be missing or out of order.

## 3. The runs

All runs set `CHECK_DEADLOCK FALSE`: with its bounds used up each model really may stop.

### What must hold

| run | bounds | shows |
|---|---|---|
| `UploadAllSafety` | 3 contents, two of them under one name; 2 destinations, 2 workers, 2 attempts, 1 cancellation, 1 crash | `UploadedHasCopy`, `PendingIsStaged`, `NoUploadingAtRest`, `ReportedTookBackup`, `ChargedOnlyWhenAllDead`, `DeadDestBound`, `LifecycleSpec` |
| `UploadTwo` | 1 file, 1 destination, 3 attempts, two calls at once, 1 cancellation, 1 crash, 1 row write that fails, fairness | `NothingLost`, `StuckRowAccounted`, `EarlyGiveUpIsDelivered`, `FilesSettle` |
| `FilePipelineSafety` | 3 contents, one on an ignored path; 1 destination, 2 attempts, 1 cancellation, 1 power loss, retention from the first file on, fairness | `RetentionIsSafe`, `ConfirmedIsOwnContent`, `LifecycleSpec` from discovery to deletion, `DriveComesBack`, `CallReturns`, `PipeTypeOK` |
| `MaintenanceSafety` | 2 cycles, 2 cable movements, 1 restart, every operation failing, image file | `TransientOwned`, `SingleWriterAccounted`, `RestsPresented`, `HostServedAccounted`, the channel's bound in `MTypeOK` |
| `MaintenanceLive` | 2 cycles, 1 cable movement, every operation failing, block device, fairness | `SyncUnblocked` |
| `DeltaSync` | 2 rows, 2 changes each, 1 row per heartbeat, clock to 3 ms, set back once, 1 restart, fairness | `PendingIsSelected`, `BacklogTrickles` |
| `Scheduler` | days of 4 minutes, weeks of 2 days, 6 minutes, 2 schedules with windows within a day and through midnight, 1 restart | `AtMostOnce`, `NoneMissed`, `BlackoutKept` |
| `Agent` | 2 device records, 2 provision files dropped, a destination for one record and none for the other, 1 change in the portal, 2 encryption keys, 1 reset, 1 restart, fairness | `SpentTokenAccounted`, `TokenOfferedOnce`, `OneLoop`, `LedTellsTruth`, `ActiveIsNewest`, `StoredFollows`, `RestartKeepsDestinations`, `PortalSetArrives` |
| `LogShipper` | 6 lines of alternating level, buffer of 2, any number of restarts, fairness | `ShippedInOrder`, `EveryLineAccounted`, `OverflowDropsOldest`, `BufferDrains` |

Apart from `MTypeOK` and `PipeTypeOK`, type invariants (`TypeOK`, `DTypeOK`, `SchTypeOK`, `PTypeOK`, `LTypeOK`) are not in the runs' configurations: they are
proved (section 5), for every value of the constants; so are `AbandonedIsExhausted`, `KeyBelongsToId` and `OnlyOwnDestinations`.

Why the bounds are enough:

- *UploadAll*: with three files and two workers one file waits for a slot while two are at
  work, so a destination can be found dead while a second transfer to it runs and a third
  file has not started. Two attempts show a retry and a giving up; the code's three add
  only repetitions. Two files sharing a name suffice for one to lose its staged copy to the other. Two destinations give a primary and a fallback.
- *UploadTwo*: two goroutines on one row are what two calls add, so one file and one worker each, with the code's own three attempts.
- *FilePipeline*: fallback is `UploadAll`'s subject, so one destination; two contents that are backed up and one that is
  ignored let retention see an uploaded, a pending and a foreign file in one cycle.
- *Maintenance*: two cycles are what the races need (the second starts in the window of the
  first); two movements are an unplug and a replug; `EventCap` is 1 or 2 instead of 4 so that the channel does
  overflow within these movements.
- *DeltaSync*: with `Limit` 1 and two rows a batch is cut off; two changes per row let one come
  between the query and the answer; three milliseconds and a step back give ties and stale stamps. The code's limit is 200.
- *Scheduler*: six minutes are a day and a half, so both schedules' minutes and windows are met, midnight is
  crossed, and a day comes that one of them leaves out. Two schedules are what a mix needs. The lengths of a day and a week are constants: the proofs are for all.
- *Agent*: two records are what a second provisioning needs, with a destination for one and none for the other, so that the identity decides the set and the
  empty set is met; one change moves a set away and, with an identity taken on meanwhile, back; two keys are one lost.
  One heartbeat loop: `OneLoop` is what keeps it at one, and the count of launches is not bounded.
- *LogShipper*: six lines fill, overflow and refill a buffer of two around a post under way and one given up. The code's capacity is 1000.

`SingleWriterAccounted` names its exceptions by a history variable (`overlap`, `interrupt`, `eject`); the run
`MaintenanceTwoWriters` shows the drive mounted and presented at once.

### Where documents say otherwise

Each of these runs checks one statement of a document, comment or message and finds a counterexample.

| run | statement | what the code does |
|---|---|---|
| `FilePipelineReusedName` (`RetentionIsSafe`) | config.go:49 "Only ever deletes files confirmed uploaded" | retention deletes the path of an uploaded row, whatever content has that name now |
| `FilePipelineStranded` (`SkippedWasCopied`) | spec:280 "Skip if already in DB with state >= copied" | any row makes ingest skip the content, also a `discovered` one whose copy failed: it is never copied again |
| `MaintenanceTwoWriters` (`SingleWriter`) | README.md:200 "the drive is single-writer exFAT" | the plug interrupt unmounts and loads but does not stop the cycle, which mounts afterwards |

(spec is `docs/technical_spec.md`.) Seen while modelling, in the models, but without a run of their own:

- `upload.go:237`: cycles in which all destinations were dead already are charged to files that were never tried, and the third
  abandons them, against spec:337 "If no destinations reachable, skip (retry next cycle)". `ChargedOnlyWhenAllDead` states what is kept.
- `main.go:161`: plug events in the states disconnecting and archiving are ignored and not looked at again, against spec:213
  plugged in during a sync: "reattach immediately". `HostServedAccounted` excludes these (`missed`).
- `main.go:467`: a cycle that ends writes Connected or Disconnected over the state of a later cycle. A plug is then taken up before the cycle of the
  preceding unplug has ejected the drive, and the media stays out of a host that is there. It takes four cable movements, more than
  `MaintenanceSafety` has; the proof `HostIsServed` has no bound and shows that nothing else keeps the drive from a host.
- `upload.go:238` with two calls: a row another call has just delivered can be charged and marked failed or abandoned although its content is at the
  destination; `EarlyGiveUpIsDelivered` states that this is the only way, but for a row write that failed.
- `provision.go:92`: "already provisioned" is reported as success without a key; the device then has no identity (or its old one), and the record can give it none.
- `provision.go:63`: a file that does not parse stays on the drive, and its error ends `Run` before ingest in every later cycle.
- `main.go:221`: `InitLogs` is called at boot only, and `main.go:117` takes the upload folder at boot: a device provisioned at run time ships no logs, and uploads into the folder
  of its earlier configuration, until the next restart, against README.md:45-46 "each device archives into its own per-device folder".
- `heartbeat.go:678-709`: when the reboot of a factory reset fails, the process goes on with its identity in memory and a database without a name.

- `main.go:320-332`: two triggers close together both pass the state check, since the first one's
  goroutine has not written the state yet, and two cycles run, against `main.go:326`
  "sync already in progress — skipping" and spec:678. `MaintenanceSafety` runs through it (`overlap`).
- `heartbeat.go:351-356` and `schedule.go:62-86`: a load between two writes sees a mix of two schedules; with
  the new `from` equal to the old `to` it is an empty window although both windows are in force, and a restart there
  leaves the mix in the table, against `main.go:230` "never during a blackout window". `BlackoutKept` excludes it (`disturbed`).
- `main.go:256`: the minute counts as fired before `runMaintenance` is called, which may refuse.
- `main.go:497-501`: when one upload of a call was cancelled the whole result is dropped, so
  files that did reach a destination update neither `last_sync_at` nor the destination's
  last backup, against `main.go:504` "(data reached a destination)".
- `ingest.go:294`: a second content of a name overwrites the staged copy of the first,
  whose row is then marked uploaded with the second's bytes.
- `schedule.go:105` "During blackout, no sync runs": the cycle started by an unplug
  (`main.go:194`) does not look at the window.
- `main.go:283-290`: shutdown unmounts once, then detaches for seconds while a cycle may still mount.
- `main.go:174`: `IsAttached` looks for a directory which a failed `Attach` leaves
  behind; the next plug loads into the unbound gadget and reports connected.
- `files.go:245`: `ResetStuckFiles` changes states without `updated_at`, against
  `schema.sql:41` "bumped on every state change": the portal goes on showing these
  rows as uploading until their next change.
- `heartbeat.go:241`: rows beyond the limit with exactly the stamp of the last row sent
  are passed over, against `heartbeat.go:318` "stay pending and are retried".
- `docs/architecture_notes.md:37` says the relay never automatically deletes; `ApplyRetention` does.

## 4. Fairness

- `UploadAll`: weak fairness of each file's goroutine, of the loop that spawns them and
  of `FinishUpload` (the Go scheduler; an rclone command ends because it is run with
  timeouts), and of `StartUpload`: the schedule and unplugs keep starting cycles while rows are queued. None
  of cancellation, crash or of a destination working.
- `UploadTwo`: the same for both calls; the second call itself, the cancellation, the crash and the lost write are never forced.
- `FilePipeline`: the walk goes on (`WalkStep`), ends when everything is visited, the steps after it happen, and the
  goroutines of `UploadAll` are scheduled. Nothing is assumed of the host.
- `Maintenance`: each actor's own steps while the process lives. Nothing is assumed of
  the cable, signals, schedule or restarts.
- `Scheduler`: none; its properties are safety. That at least one tick falls into each minute is what a ticker of 30 s gives (`Tick` moves on by at most a minute).
- `DeltaSync`: the ticker starts heartbeats and each comes to an end (the client's
  timeout of 10 s); strong fairness of `Acknowledged`: a portal that is reached again and again
  answers some time. Without it nothing could be promised. A restart also ends a heartbeat; the restarts are bounded.
- `Agent`: weak fairness of the cycle's steps (cycles go on being triggered and end) and of the loop's (the ticker, and the client's timeout of 10 s); strong fairness of
  `Answer`, as in `DeltaSync`. None of the user, the portal's owner, a reset or a restart.
- `LogShipper`: weak fairness of the collector's loop (the ticker of 10 s, the client's timeout of 5 s). None of the portal.

## 5. What is proved

Assumptions are only the named `ASSUME`s of the modules (types of the constants).

**`UploadAllProofs`** (any files, paths, destinations, workers, cancellations, crashes).
One inductive invariant, `IInv`, in named parts: `OwnerInv` (a goroutine's step and its
row agree; uploading rows have an owner), `SnapInv` (the count read is current until the charge), `DeadInv` (the
destinations a goroutine has passed are dead), `DeliveredInv` and `CopyInv` (past the transfer there is
something at the destination). The safety
invariants themselves are not inductive: that a charged file has met only
dead destinations needs `DeadInv`, that giving up is justified needs `SnapInv`. From it: `TypeCorrect`,
`UploadedIsSafe`, `PendingIsSafe`, `AbandonedIsJustified`, `ReportedIsTrue`, `RestIsClean`, `ChargesAreFair`,
and `ImplementsLifecycle`, the refinement: initial states map to initial states, each step to a step of
`FileLifecycle` or a stutter. The statements about single files are for files alone on their path; sharing is where they fail.
`LifecyclePromises` says what any such behaviour promises, of the instance of `FileLifecycle` the refinement is about: uploaded and deleted rows have a copy, abandoned
rows are exhausted. Both are inductive with the types, since `Acknowledge` requires a copy and no action takes one away.
`DeadDestCostsLittle` (`DeadDestBound`) rests on `BoundInv`: failures and running transfers of a destination are together at most
`Workers`, because a destination that has failed once gets no new transfer and the transfers to one that has not are goroutines.

**`FilePipelineProofs`** (any contents, names, ignored paths, threshold, hosts, cancellations, power losses). It extends `UploadAllProofs` and takes `IInv` over:
`StepKinds` divides the steps into the uploader's, which keep `IInv` by the earlier proof, and those of a cycle, which write rows and staging area only while no call
runs (`NoCallStep`). That they do so is `QuietInv`, one of the four parts of `CycleInv`; the others say that the walk has only files left that are on the drive, at the path
their row will name (`DriveInv`), that the row being ingested follows its copy (`CopyingInv`: a row is queued only over a whole staged copy), and
that retention considers each uploaded row once (`RetainInv`). Without hypothesis: `PipeTypeCorrect`, `RowsKeepTheirWord`, `RecordsStayTrue`, `PipeRestIsClean`,
`PipeChargesAreFair`, `PipeDeadDestCostsLittle` and `PipeImplementsLifecycle`, the refinement from discovery to deletion. Under `NamesAreUnique` (no two contents are recorded under one name):
`RetentionKeepsBackups` (`RetentionIsSafe`) and `ConfirmationIsTrue` (`ConfirmedIsOwnContent`). The hypothesis holds in the instance `FilePipelineSafety` checks, and
`FilePipelineReusedName` shows that the first of them fails without it.

**`UploadTwoProofs`** (any files, destinations, workers, cancellations, crashes, and row writes that fail). `IInv` does not hold here: the other call may rewrite a row, charge it or
remove its staged copy at any time. What is left is `TwoInv`. Its conditions on one call (`CallRuns`, `Targets`, `Delivered`, `Tries`) are operators on that call's
variables, stated of both; each lemma about a step comes once for each call. A step of one call keeps the other's conditions because copies, counts and failed writes only
grow (`Grows`, `OtherCall`), and keeps the shared ones because a file without a copy keeps its staged one and is neither confirmed nor given up early (`SharedMoves`, `SharedStep`).
From it: `NothingIsLost`, `TwoConfirmTruly`, `OnlyLostWritesStick`, and with `RecordInv` (a call reports only destinations that took a file) `TwoReportTruly`. `EarlyGiveUpsAccounted` is for distinct
paths, as in the checked instance: where two contents share a path, the call that uploads one of them removes the staged copy of both, and the other row is given up with no copy.

**`MaintenanceProofs`** (any number of cycles, movements, restarts, any faults, both kinds of
drive). `NeverWedged`: `TransientOwned` is inductive with the types; every write of a busy
state is followed in its own actor by one that is not. `WritersApart` rests on `ApartInv`: undisturbed, at most one cycle
is on the drive and only that one has it mounted, with an empty LUN. `DriveGivenBack`
rests on `StayInv`: while the host stays the handler never runs, each cycle
gives the drive back, and the media is out only while a cycle will still load it. `HostIsServed` rests on `ServedInv`: while the monitor sees a host
its newest event is a plug, no cycle of an unplug is about to eject once the events are handled, and the media is in or somebody will put it in.

**`DeltaSyncProofs`** (any rows, batch size, clock, restarts). `NoChangeIsPassed` rests on `StampInv` (a
stamp of one's own is shared with no row; marks are stamps given before), `ContentInv` (nothing is sent
that the table did not hold) and `InFlightInv`: what the heartbeat under way leaves out has a stamp beyond its mark.

**`SchedulerProofs`** (any length of day and week, any schedules, minutes and restarts). `WindowIsMeant`: the code's
comparison of minutes is the window the schedule describes; it rests on `DivMod` and `ModUnique`, with which the distance on the circle of a
day is computed. `SchInv` adds to the types `OrderInv` (ticks are handled in order, so a minute behind `lastFired`
never comes back), `OnceInv`, `AgreeInv` (what is loaded undisturbed is the table's) and `SteadyInv` (a due minute has fired, has its tick, or is being
handled). None of the three properties is inductive: `AtMostOnce` needs the order of ticks, `NoneMissed` needs
the tick that is still to come, `BlackoutKept` the keys loaded so far. From it: `FiresOnce`, `NoneIsMissed`, `BlackoutObeyed`.

**`AgentProofs`** (any records, provision files, destinations, resets, restarts). The argument is compositional. `StepsOfBoth`: a
step of `Agent` is a step, or a stutter, of each component; from it `ImplementsProvisioning` and `ImplementsDestinations`. The invariant
`ProvInv` is then kept by the steps of `Provisioning` alone. `SpentTokenAccounted` is not inductive: that a key saved or lost belongs to the record in
the file needs `ParsedFile`; `LedTellsTruth` needs `PulseInv`: a pulse left from before is met by a later cycle only after a failed
reload. From it: `TypeCorrect`, `KeysMatch`, `TokensAccounted`, `LoopRunsOnce`, `LedIsTrue`, `OfferedOnce`.

For the destinations, `DestInv` has `FirstLoopOnly` (it takes `OneLoop` from the other component: with two loops the answers could be applied in the wrong
order), `BeatInv` (an answer on its way is the newest; one being saved has been applied), `AppliedInv` (in use is what was applied), `OwnInv` (the portal
gives a record its own). From it: `DestTypeCorrect`, `NewestInUse`, `OnlyOwn`, `StoredIsLast`, `RestartKeeps`.

**`LogShipperProofs`** (any capacity, levels, lines, restarts). `LogInv`: `OrderInv` (buffer and batch rise, the batch is below the buffer, what the portal has is
below both but for delayed lines), `LateInv` (a batch given up shares no line with anything) and `Accounted`. The lemmas are about sequences: elements and order
of a concatenation, and `KeepNewest`, what the cut to the newest lines keeps. From it: `TypeCorrect`, `LinesAccounted`, `ShippedOnceInOrder`, `NewestKept`.

**Only model-checked**: all liveness (`CallReturns`, `FilesSettle`, `DriveComesBack`, `SyncUnblocked`, `BacklogTrickles`, `PortalSetArrives`,
`BufferDrains`), which needs fairness and ENABLED, out of the prover's reach. Every invariant and action property of a passing run is stated by a theorem.

## 6. Plan

Order of the modules, by how much data or service is at stake: `FileLifecycle`, `UploadAll`, `FilePipeline`, `Maintenance`, `DeltaSync`,
`Scheduler`, `UploadTwo`, `Provisioning`, `Destinations`, `Agent`, `LogShipper`. All are written. What would come next:

1. Theorems: `DeadDestBound` for each of two calls; of `UploadTwo` which steps of `FileLifecycle` survive a second call; for shared names, what `FilePipeline` still promises of the path.
2. `UdcMonitor`: the debounce of `monitor.go`, shown to implement `Maintenance`'s `Poll`.
3. `Maintenance`'s cycle shown to implement the phases `FilePipeline` takes for granted.
4. Opening and migrating the database, with a crash between its statements.

## 7. Not modelled, and why

- *Discovery, telemetry, time zone*: no state that others rely on; reads of the
  system, or one command each. Of the LED only the pattern asked for last.
- *Database opening and migration*: the models take a write to SQLite to be atomic and durable; it fails in `UploadTwo` (rows), `DeltaSync` (the watermark) and `Destinations` (the set), and nowhere else.
- *Configuration and secrets beyond the identity and the key's life*: the other fields are constants of a process; the cipher is not modelled.
- *Network configuration, install scripts*: sequences of system commands.
- *Inside `UploadAll`*: the rclone environment and arguments, progress logs, `TestReachable`.
- *Inside provisioning*: Wi-Fi setup and the wait for the network, which only decide whether the portal is reached; the fields of the file other than the record; the torn reads of
  `*cfg` while a cycle overwrites it, which make a request the portal refuses.
- *Inside ingest*: filters (a set of ignored paths), label and usage measurement, timings, sessions.
- *Inside the scheduler*: time zones and their changes of the clock, the parsing of "HH:MM" and day names (invalid values
  read as 0 or no day), a clock set back, and the change of zone, which is written last and read first.
- *Inside the heartbeat*: stats, and the commands that test a destination or discover shares (`trigger_sync` is a trigger of `Maintenance`, `factory_reset` and the restarts are in `Agent`).

## 8. Running

    tlc -config UploadAllSafety.cfg UploadAllMC.tla
    tlapm UploadAllProofs.tla

The module of a run is the one whose name, without `MC`, its name begins with (`FilePipelineStranded` is of `FilePipelineMC`). Definitions commented "Mutant" are altered copies of a definition,
kept to show that the properties notice the alteration.
