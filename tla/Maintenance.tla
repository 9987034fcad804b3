---------------------------- MODULE Maintenance ----------------------------
(***************************************************************************)
(* main.go: the state machine of internal/state/state.go and the actors    *)
(* that write it without a common lock: main (initial attach, scheduler,   *)
(* signals), the UDC event handler, and one goroutine per maintenance      *)
(* cycle. They share the USB gadget's LUN (internal/gadget/gadget.go) and  *)
(* the mount point (internal/ingest/ingest.go Mount, Unmount). What a      *)
(* cycle does to the files is the subject of FilePipeline and UploadAll:   *)
(* here ingest and upload just end, whether complete, failed or cancelled. *)
(***************************************************************************)
EXTENDS Naturals, Sequences

CONSTANTS Cycles,       \* maintenance goroutines of one run of the process (bound)
          MaxFlips,     \* bound: times the host is plugged or unplugged
          MaxRestarts,  \* bound: times the process dies and is started again
          Faults,       \* operations that may fail
          RawDevice,    \* the drive is a block device, not an image file
          EventCap      \* capacity of the monitor's channel, 4 in the program

ASSUME MaintenanceAssumption ==
  /\ MaxFlips \in Nat /\ MaxRestarts \in Nat
  /\ Faults \subseteq {"attach", "load", "eject", "mount"}
  /\ RawDevice \in BOOLEAN /\ EventCap \in Nat

VARIABLES
  sm,         \* state.Machine.current
  \* hardware and kernel
  plugged,    \* a host is on the cable: what the UDC state says
  attached,   \* the gadget's configfs directory exists
  bound,      \* the gadget is bound to the UDC
  media,      \* the LUN has the drive as backing file
  refused,    \* history: the process failed to present the drive
  mounts,     \* file systems mounted (stacked) on the mount point
  \* actors
  seen,       \* Monitor.last: the debounced UDC state
  events,     \* Monitor.events
  mpc,        \* main
  hpc,        \* UDC event handler
  cpc,        \* [Cycles -> step of the cycle]
  reattach,   \* [Cycles -> BOOLEAN], reattachAfter
  blackout,   \* the schedule's blackout window is in force
  \* history, read by guards of bounds and by properties only
  flips, restarts,
  missed,     \* the host's last arrival came to nothing: dropped, forgotten or overtaken
  disturbed   \* what got in the way of a cycle of this process, or left a mount behind

usb   == <<attached, bound, media, refused>>
world == <<plugged, seen, events, blackout, flips, missed>>
vars  == <<sm, usb, mounts, world, mpc, hpc, cpc, reattach, restarts, disturbed>>

\* StateSyncing is declared and tested for, but nothing ever enters it.
State == {"Booting", "Disconnected", "Connecting", "Connected", "Disconnecting",
          "Syncing", "Error", "Snapshotting", "Archiving"}
Busy == {"Syncing", "Snapshotting", "Archiving", "Disconnecting", "Connecting"}

MainStep == {"boot", "attach", "attached", "unattached", "loop",
             "cancelled", "unmounted", "stopped"}
HandlerStep == {"idle", "sync", "drop", "clear", "connect", "load", "loaded", "broken"}
CycleStep == {"unused", "begin", "eject", "settle", "mount", "remount", "ingest",
              "unmount", "reload", "load", "broken", "leave", "decide", "upload", "end", "done"}

\* The cycle still has to finish with the drive.
OnDrive == {"begin", "eject", "settle", "mount", "ingest", "unmount", "remount", "reload", "load"}
Finished == {"unused", "done"}

MTypeOK ==
  /\ sm \in State
  /\ plugged \in BOOLEAN /\ attached \in BOOLEAN /\ bound \in BOOLEAN /\ media \in BOOLEAN
  /\ refused \in BOOLEAN
  /\ mounts \in Nat /\ seen \in BOOLEAN /\ blackout \in BOOLEAN
  /\ events \in Seq({"plugged", "unplugged"}) /\ Len(events) <= EventCap
  /\ mpc \in MainStep /\ hpc \in HandlerStep
  /\ cpc \in [Cycles -> CycleStep] /\ reattach \in [Cycles -> BOOLEAN]
  /\ flips \in Nat /\ restarts \in Nat /\ missed \in BOOLEAN
  /\ disturbed \subseteq {"overlap", "interrupt", "eject"}

\* A started process: startupRecovery has run, nothing else has.
Booted(pl) ==
  /\ sm = "Booting" /\ mounts = 0 /\ seen = pl /\ events = << >>
  /\ mpc = "boot" /\ hpc = "idle" /\ missed = FALSE
  /\ cpc = [c \in Cycles |-> "unused"] /\ reattach = [c \in Cycles |-> FALSE]
  /\ disturbed = {}

Init == /\ plugged \in BOOLEAN /\ blackout \in BOOLEAN
        /\ attached = FALSE /\ bound = FALSE /\ media = FALSE /\ refused = FALSE
        /\ flips = 0 /\ restarts = 0
        /\ Booted(plugged)

-----------------------------------------------------------------------------
(* The operations the actors share.                                        *)

\* Transition; the observers only log and wake the heartbeat.
Transition(s) == sm' = s

\* Attach tears the old gadget down first; it may fail at any step of the
\* construction, the last being the bind to the UDC.
AttachOk == attached' = TRUE /\ bound' = TRUE /\ media' = TRUE /\ UNCHANGED refused
AttachFails ==
  /\ "attach" \in Faults
  /\ attached' \in BOOLEAN /\ media' \in {FALSE, attached'} /\ bound' = FALSE
  /\ refused' = TRUE

\* Load needs the gadget's directory, not its binding.
LoadOk == attached /\ media' = TRUE /\ UNCHANGED <<attached, bound, refused>>
LoadFails ==
  /\ "load" \in Faults \/ ~attached
  /\ refused' = TRUE /\ UNCHANGED <<attached, bound, media>>

EjectOk == media' = FALSE /\ UNCHANGED <<attached, bound, refused>>
EjectFails == "eject" \in Faults /\ UNCHANGED usb

\* An image gets a new loop device, mounted on top of what is there already;
\* a block device is refused if it is mounted.
MountOk == (RawDevice => mounts = 0) /\ mounts' = mounts + 1
MountFails == ("mount" \in Faults \/ (RawDevice /\ mounts > 0)) /\ UNCHANGED mounts

\* umount takes the top of the stack. It is refused while a cycle other than
\* the caller holds a file open; the error is ignored.
Unmount(others) ==
  \/ mounts' = IF mounts = 0 THEN 0 ELSE mounts - 1
  \/ (\E c \in others : cpc[c] = "ingest") /\ UNCHANGED mounts

\* The drive is handed to the host while a cycle is at work on it.
Presented == disturbed' = IF \E c \in Cycles : cpc[c] \in OnDrive
                          THEN disturbed \cup {"interrupt"} ELSE disturbed

\* runMaintenance: check the state, start the goroutine. The goroutine will
\* write the state later.
RunMaintenance(re) ==
  /\ sm \notin Busy
  /\ \E c \in Cycles :
       /\ cpc[c] = "unused"
       /\ cpc' = [cpc EXCEPT ![c] = "begin"] /\ reattach' = [reattach EXCEPT ![c] = re]
  /\ disturbed' = IF \E c \in Cycles : cpc[c] \in OnDrive
                  THEN disturbed \cup {"overlap"} ELSE disturbed

-----------------------------------------------------------------------------
(* Outside.                                                                *)

\* The host comes or goes.
Flip == /\ flips < MaxFlips
        /\ plugged' = ~plugged /\ flips' = flips + 1
        /\ UNCHANGED <<sm, usb, mounts, seen, events, blackout, missed, mpc, hpc, cpc, reattach, restarts, disturbed>>

\* Mutant: the channel has no capacity.
PollUnbounded == /\ seen # plugged
                 /\ seen' = plugged
                 /\ events' = Append(events, IF plugged THEN "plugged" ELSE "unplugged")
                 /\ UNCHANGED <<sm, usb, mounts, plugged, blackout, flips, missed, mpc, hpc, cpc, reattach, restarts, disturbed>>

\* Monitor: a settled change is sent, or dropped if the channel is full.
Poll == /\ seen # plugged
        /\ seen' = plugged
        /\ events' = IF Len(events) = EventCap THEN events
                     ELSE Append(events, IF plugged THEN "plugged" ELSE "unplugged")
        /\ missed' = IF plugged THEN Len(events) = EventCap ELSE missed
        /\ UNCHANGED <<sm, usb, mounts, plugged, blackout, flips, mpc, hpc, cpc, reattach, restarts, disturbed>>

\* The window opens or closes, or the portal changes it.
Blackout == /\ blackout' = ~blackout
            /\ UNCHANGED <<sm, usb, mounts, plugged, seen, events, flips, missed, mpc, hpc, cpc, reattach, restarts, disturbed>>

-----------------------------------------------------------------------------
(* main                                                                    *)

MainBoot ==
  /\ mpc = "boot" /\ Transition("Connecting") /\ mpc' = "attach"
  /\ UNCHANGED <<usb, mounts, world, hpc, cpc, reattach, restarts, disturbed>>

MainAttach ==
  /\ mpc = "attach"
  /\ \/ AttachOk /\ mpc' = "attached"
     \/ AttachFails /\ mpc' = "unattached"
  /\ Presented
  /\ UNCHANGED <<sm, mounts, world, hpc, cpc, reattach, restarts>>

MainAttached ==
  /\ \/ mpc = "attached" /\ Transition("Connected")
     \/ mpc = "unattached" /\ Transition("Disconnected")
  /\ mpc' = "loop"
  /\ UNCHANGED <<usb, mounts, world, hpc, cpc, reattach, restarts, disturbed>>

\* The scheduler's minute has come, or SIGUSR1 arrived.
MainSync ==
  /\ mpc = "loop" /\ ~blackout
  /\ RunMaintenance(TRUE)
  /\ UNCHANGED <<sm, usb, mounts, world, mpc, hpc, restarts>>

\* SIGTERM, SIGINT: cancel the upload, ...
Terminate ==
  /\ mpc = "loop" /\ mpc' = "cancelled"
  /\ UNCHANGED <<sm, usb, mounts, world, hpc, cpc, reattach, restarts, disturbed>>

\* ... unmount, ...
TerminateUnmount ==
  /\ mpc = "cancelled" /\ Unmount(Cycles) /\ mpc' = "unmounted"
  /\ UNCHANGED <<sm, usb, world, hpc, cpc, reattach, restarts, disturbed>>

\* ... tear the gadget down and return, which ends every other goroutine.
TerminateDetach ==
  /\ mpc = "unmounted" /\ mpc' = "stopped"
  /\ attached' = FALSE /\ bound' = FALSE /\ media' = FALSE
  /\ UNCHANGED <<sm, mounts, refused, world, hpc, cpc, reattach, restarts, disturbed>>

\* The process is started again and startupRecovery has unmounted once: after
\* power was lost, or by systemd, which leaves the kernel's state as it was.
Restart ==
  /\ restarts < MaxRestarts /\ restarts' = restarts + 1
  /\ \/ mounts' = 0 /\ attached' = FALSE /\ bound' = FALSE /\ media' = FALSE
     \/ mounts' = (IF mounts = 0 THEN 0 ELSE mounts - 1) /\ UNCHANGED <<attached, bound, media>>
  /\ refused' = FALSE
  /\ sm' = "Booting" /\ seen' = plugged /\ events' = << >>
  /\ mpc' = "boot" /\ hpc' = "idle"
  /\ cpc' = [c \in Cycles |-> "unused"] /\ reattach' = [c \in Cycles |-> FALSE]
  /\ disturbed' = IF mounts' = 0 THEN {} ELSE disturbed
  /\ missed' = FALSE
  /\ UNCHANGED <<plugged, blackout, flips>>

-----------------------------------------------------------------------------
(* The UDC event handler. It runs from before the initial attach.          *)

Receive == events # << >> /\ hpc = "idle" /\ events' = Tail(events)

\* An arrival of the host is still in the channel.
PlugPending(s) == \E i \in DOMAIN s : s[i] = "plugged"

\* A cycle of an earlier unplug has yet to take the media out. (That the state
\* is not its own any more is another cycle's late write, main.go:467.)
Overtaken == \E c \in Cycles : ~reattach[c] /\ cpc[c] \in {"begin", "eject"}

\* A plug is acted upon in four states only and forgotten in the others.
HandlePlug ==
  /\ Receive /\ Head(events) = "plugged"
  /\ hpc' = CASE sm \in {"Syncing", "Snapshotting"} -> "clear"
              [] sm \in {"Disconnected", "Error"} -> "connect"
              [] OTHER -> "idle"
  /\ missed' = (missed \/ (~PlugPending(Tail(events)) /\ (hpc' = "idle" \/ Overtaken)))
  /\ UNCHANGED <<sm, usb, mounts, plugged, seen, blackout, flips, mpc, cpc, reattach, restarts, disturbed>>

HandleUnplug ==
  /\ Receive /\ Head(events) = "unplugged"
  /\ hpc' = CASE sm = "Connected" -> "sync"
              [] sm = "Connecting" -> "drop"
              [] OTHER -> "idle"
  /\ UNCHANGED <<sm, usb, mounts, plugged, seen, blackout, flips, missed, mpc, cpc, reattach, restarts, disturbed>>

\* The state is read again inside runMaintenance.
HandlerSync ==
  /\ hpc = "sync" /\ hpc' = "idle"
  /\ IF sm \in Busy \/ \A c \in Cycles : cpc[c] # "unused"
     THEN UNCHANGED <<cpc, reattach, disturbed>>
     ELSE RunMaintenance(FALSE)
  /\ UNCHANGED <<sm, usb, mounts, world, mpc, restarts>>

HandlerDrop ==
  /\ hpc = "drop" /\ hpc' = "idle" /\ Transition("Disconnected")
  /\ UNCHANGED <<usb, mounts, world, mpc, cpc, reattach, restarts, disturbed>>

\* Interrupting a cycle: cancel its upload, unmount under it.
HandlerClear ==
  /\ hpc = "clear" /\ hpc' = "connect" /\ Unmount(Cycles)
  /\ UNCHANGED <<sm, usb, world, mpc, cpc, reattach, restarts, disturbed>>

HandlerConnect ==
  /\ hpc = "connect" /\ hpc' = "load" /\ Transition("Connecting")
  /\ UNCHANGED <<usb, mounts, world, mpc, cpc, reattach, restarts, disturbed>>

\* Mutant: a gadget that is attached is taken to have its media.
HandlerLoadAttached ==
  /\ hpc = "load"
  /\ IF attached THEN hpc' = "loaded" /\ UNCHANGED usb
     ELSE \/ AttachOk /\ hpc' = "loaded"
          \/ AttachFails /\ hpc' = "broken"
  /\ Presented
  /\ UNCHANGED <<sm, mounts, world, mpc, cpc, reattach, restarts>>

HandlerLoad ==
  /\ hpc = "load"
  /\ \/ (IF attached THEN LoadOk ELSE AttachOk) /\ hpc' = "loaded"
     \/ (IF attached THEN LoadFails ELSE AttachFails) /\ hpc' = "broken"
  /\ Presented
  /\ UNCHANGED <<sm, mounts, world, mpc, cpc, reattach, restarts>>

HandlerReport ==
  /\ \/ hpc = "loaded" /\ Transition("Connected")
     \/ hpc = "broken" /\ Transition("Error")
  /\ hpc' = "idle"
  /\ UNCHANGED <<usb, mounts, world, mpc, cpc, reattach, restarts, disturbed>>

-----------------------------------------------------------------------------
(* A maintenance cycle.                                                    *)

At(c, s) == cpc[c] = s
Goto(c, s) == cpc' = [cpc EXCEPT ![c] = s]
elsewhere == <<world, mpc, hpc, reattach, restarts>>

CycleBegin(c) ==
  /\ At(c, "begin") /\ Transition("Disconnecting") /\ Goto(c, "eject")
  /\ UNCHANGED <<usb, mounts, elsewhere, disturbed>>

\* A failed eject is logged and the cycle goes on.
CycleEject(c) ==
  /\ At(c, "eject") /\ Goto(c, "settle")
  /\ \/ EjectOk /\ UNCHANGED disturbed
     \/ EjectFails /\ disturbed' = disturbed \cup {"eject"}
  /\ UNCHANGED <<sm, mounts, elsewhere>>

CycleSettled(c) ==
  /\ At(c, "settle") /\ Transition("Snapshotting") /\ Goto(c, "mount")
  /\ UNCHANGED <<usb, mounts, elsewhere, disturbed>>

CycleMount(c) ==
  /\ At(c, "mount")
  /\ \/ MountOk /\ Goto(c, "ingest")
     \/ MountFails /\ Goto(c, "remount")
  /\ UNCHANGED <<sm, usb, elsewhere, disturbed>>

\* The mount failed: the drive is offered again, whether or not that works.
CycleRemount(c) ==
  /\ At(c, "remount") /\ Goto(c, "end")
  /\ IF reattach[c] THEN LoadOk \/ LoadFails ELSE UNCHANGED usb
  /\ UNCHANGED <<sm, mounts, elsewhere, disturbed>>

\* ingest.Run and ApplyRetention, or their errors.
CycleIngest(c) ==
  /\ At(c, "ingest") /\ Goto(c, "unmount")
  /\ UNCHANGED <<sm, usb, mounts, elsewhere, disturbed>>

\* Mutant: the drive is handed back without unmounting it.
CycleUnmountNot(c) ==
  /\ At(c, "unmount")
  /\ Goto(c, IF reattach[c] THEN "reload" ELSE "leave")
  /\ UNCHANGED <<sm, usb, mounts, elsewhere, disturbed>>

CycleUnmount(c) ==
  /\ At(c, "unmount") /\ Unmount(Cycles \ {c})
  /\ Goto(c, IF reattach[c] THEN "reload" ELSE "leave")
  /\ UNCHANGED <<sm, usb, elsewhere, disturbed>>

CycleConnecting(c) ==
  /\ At(c, "reload") /\ Transition("Connecting") /\ Goto(c, "load")
  /\ UNCHANGED <<usb, mounts, elsewhere, disturbed>>

\* Mutant: the drive is not offered to the host again.
CycleLoadNot(c) ==
  /\ At(c, "load") /\ Goto(c, "decide")
  /\ UNCHANGED <<sm, usb, mounts, elsewhere, disturbed>>

CycleLoad(c) ==
  /\ At(c, "load")
  /\ \/ LoadOk /\ Goto(c, "decide")
     \/ LoadFails /\ Goto(c, "broken")
  /\ UNCHANGED <<sm, mounts, elsewhere, disturbed>>

\* Mutant: the failed cycle ends without leaving its busy state.
CycleBrokenSilent(c) ==
  /\ At(c, "broken") /\ Goto(c, "done")
  /\ UNCHANGED <<sm, usb, mounts, elsewhere, disturbed>>

CycleBroken(c) ==
  /\ At(c, "broken") /\ Transition("Error") /\ Goto(c, "done")
  /\ UNCHANGED <<usb, mounts, elsewhere, disturbed>>

\* The host is gone: no media until it comes back.
CycleLeave(c) ==
  /\ At(c, "leave") /\ Transition("Disconnected") /\ Goto(c, "decide")
  /\ UNCHANGED <<usb, mounts, elsewhere, disturbed>>

\* Something was copied or is still staged, or not.
CycleDecide(c) ==
  /\ At(c, "decide")
  /\ \/ Transition("Archiving") /\ Goto(c, "upload")
     \/ UNCHANGED sm /\ Goto(c, "end")
  /\ UNCHANGED <<usb, mounts, elsewhere, disturbed>>

\* Mutant: the upload goroutine keeps the cycle's last state.
CycleUploadedEnds(c) ==
  /\ At(c, "upload") /\ Goto(c, "done")
  /\ UNCHANGED <<sm, usb, mounts, elsewhere, disturbed>>

\* UploadAll returned, or the upload was cancelled before it began.
CycleUploaded(c) ==
  /\ At(c, "upload") /\ Goto(c, "end")
  /\ UNCHANGED <<sm, usb, mounts, elsewhere, disturbed>>

CycleEnd(c) ==
  /\ At(c, "end") /\ Goto(c, "done")
  /\ Transition(IF reattach[c] THEN "Connected" ELSE "Disconnected")
  /\ UNCHANGED <<usb, mounts, elsewhere, disturbed>>

CycleStepOf(c) ==
  \/ CycleBegin(c) \/ CycleEject(c) \/ CycleSettled(c) \/ CycleMount(c) \/ CycleRemount(c)
  \/ CycleIngest(c) \/ CycleUnmount(c) \/ CycleConnecting(c) \/ CycleLoad(c) \/ CycleBroken(c)
  \/ CycleLeave(c) \/ CycleDecide(c) \/ CycleUploaded(c) \/ CycleEnd(c)

MainOwnStep == MainBoot \/ MainAttach \/ MainAttached \/ TerminateUnmount \/ TerminateDetach
HandlerOwnStep ==
  \/ HandlePlug \/ HandleUnplug \/ HandlerSync \/ HandlerDrop \/ HandlerClear
  \/ HandlerConnect \/ HandlerLoad \/ HandlerReport

\* What the living process does.
ProcessStep ==
  /\ mpc # "stopped"
  /\ MainOwnStep \/ MainSync \/ Terminate \/ Poll \/ HandlerOwnStep \/ \E c \in Cycles : CycleStepOf(c)

Next == Flip \/ Blackout \/ ProcessStep \/ Restart

Spec == Init /\ [][Next]_vars

\* Goroutines are scheduled and the commands they run return; uploads end
\* (UploadAll, CallReturns). Nothing is assumed of hosts, signals, schedules.
FairSpec == /\ Spec
            /\ WF_vars(mpc # "stopped" /\ MainOwnStep)
            /\ WF_vars(mpc # "stopped" /\ HandlerOwnStep)
            /\ \A c \in Cycles : WF_vars(mpc # "stopped" /\ CycleStepOf(c))

-----------------------------------------------------------------------------
\* A busy state, in which every trigger is refused, is always some actor's own
\* last write, and that actor still has to write a state that is not busy: the
\* machine cannot be left busy by whatever order the actors write in.
TransientOwned ==
  /\ sm # "Syncing"
  /\ sm = "Disconnecting" => \E c \in Cycles : cpc[c] \in {"eject", "settle"}
  /\ sm = "Snapshotting" =>
       \E c \in Cycles : cpc[c] \in {"mount", "remount", "ingest", "unmount", "reload", "leave", "end"}
  /\ sm = "Archiving" => \E c \in Cycles : cpc[c] \in {"upload", "end"}
  /\ sm = "Connecting" =>
       \/ mpc \in {"attach", "attached", "unattached"}
       \/ hpc \in {"load", "loaded", "broken"}
       \/ \E c \in Cycles : cpc[c] \in {"load", "broken", "decide", "end"}

\* exFAT has a single writer: the drive is mounted and offered to the host at
\* once only after two cycles overlapped, a host came back during a cycle, or
\* an eject failed. Without those the order eject, mount, unmount, load keeps
\* the two apart, whatever fails or is restarted.
SingleWriterAccounted == mounts > 0 /\ media => disturbed # {}

\* Nobody has anything left to do.
Quiet == /\ mpc = "loop" /\ hpc = "idle" /\ events = << >> /\ seen = plugged
         /\ \A c \in Cycles : cpc[c] \in Finished

\* A host that stays gets the drive back: once the cycles are over, overlapping
\* or not, the state is Connected and the media is in, unless presenting it
\* failed (main.go:446 "drive available to host again").
RestsPresented == Quiet /\ flips = 0 /\ ~refused => sm = "Connected" /\ media

\* A host that is plugged in again has the drive in the end, whatever cycles
\* ran meanwhile and however they overlapped, unless presenting the drive
\* failed or its arrival came to nothing: the channel was full, the state was
\* one in which plug events are forgotten (main.go:161), or a cycle started by
\* an earlier unplug took the media out after it.
HostServedAccounted == Quiet /\ plugged /\ ~missed /\ ~refused => media

\* Syncs are not refused for ever: a busy state ends.
SyncUnblocked == (sm \in Busy) ~> (sm \notin Busy \/ mpc = "stopped")

\* Claimed by README.md:200 "the drive is single-writer exFAT".
SingleWriter == ~(mounts > 0 /\ media /\ plugged)

=============================================================================
