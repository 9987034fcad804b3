------------------------- MODULE MaintenanceProofs -------------------------
(***************************************************************************)
(* Proofs about Maintenance, for any number of cycles, host movements and  *)
(* restarts, any faults and either kind of drive. Each invariant is        *)
(* preserved by every step of every actor, so the order they run in does   *)
(* not matter.                                                             *)
(***************************************************************************)
EXTENDS Maintenance, SequenceTheorems, TLAPS

\* While nothing got in the way, at most one cycle is on the drive, the drive
\* is mounted only by it, and only while the LUN is empty.
ApartInv ==
  disturbed = {} =>
    /\ \A c, d \in Cycles : cpc[c] \in OnDrive /\ cpc[d] \in OnDrive => c = d
    /\ mounts <= 1
    /\ mounts = 1 => \E c \in Cycles : cpc[c] \in {"ingest", "unmount"}
    /\ \A c \in Cycles : cpc[c] \in {"settle", "mount", "ingest", "unmount"} => ~media

\* While the host has not moved and presenting the drive worked: the handler never
\* runs, every cycle gives the drive back, and the media is out only while
\* some cycle still has to load it.
StayInv ==
  flips = 0 /\ ~refused =>
    /\ seen = plugged /\ events = << >> /\ hpc = "idle"
    /\ \A c \in Cycles : cpc[c] # "unused" => reattach[c]
    /\ \A c \in Cycles : cpc[c] \notin {"leave", "broken"}
    /\ mpc \in {"boot", "attach", "attached"} => \A c \in Cycles : cpc[c] = "unused"
    /\ mpc # "unattached"
    /\ mpc \notin {"boot", "attach", "attached", "stopped"} => sm \in Busy \cup {"Connected"}
    /\ mpc \notin {"boot", "attach", "stopped"} =>
         /\ attached
         /\ media \/ \E c \in Cycles :
              cpc[c] \in {"settle", "mount", "remount", "ingest", "unmount", "reload", "load"}

\* Unless its arrival came to nothing or presenting the drive failed: while the
\* monitor sees a host, the media is in, or somebody who will put it in is on
\* the way: the newest event, the handler, main, or a cycle that gives the
\* drive back. No cycle that will not is about to take it out.
ServedInv ==
  ~missed /\ ~refused /\ seen =>
    /\ events # << >> => events[Len(events)] = "plugged"
    /\ events = << >> => hpc # "sync" /\ ~Overtaken
    /\ \/ media
       \/ events # << >>
       \/ hpc \in {"clear", "connect", "load"}
       \/ mpc \in {"boot", "attach", "stopped"}
       \/ \E c \in Cycles : /\ reattach[c]
                            /\ cpc[c] \in {"settle", "mount", "remount", "ingest", "unmount", "reload", "load"}

-----------------------------------------------------------------------------
LEMMA RoomLeft == ASSUME NEW n \in Nat, NEW m \in Nat, n <= m, n # m PROVE n + 1 <= m
OBVIOUS

\* Every variable keeps its type.
LEMMA TypeStep == MTypeOK /\ [Next]_vars => MTypeOK'
<1> SUFFICES ASSUME MTypeOK, [Next]_vars PROVE MTypeOK'
  OBVIOUS
<1> USE MaintenanceAssumption DEF MTypeOK, usb, world, State, MainStep, HandlerStep, CycleStep
<1>1. CASE Flip
  BY <1>1 DEF Flip
<1>2. CASE Blackout
  BY <1>2 DEF Blackout
<1>3. CASE Restart
  <2>1. attached' \in BOOLEAN /\ bound' \in BOOLEAN /\ media' \in BOOLEAN /\ refused' \in BOOLEAN
    BY <1>3, Zenon DEF Restart, usb
  <2>2. mounts' \in Nat
    BY <1>3 DEF Restart
  <2>3. disturbed' \subseteq {"overlap", "interrupt", "eject"}
    BY <1>3 DEF Restart
  <2>4. seen' \in BOOLEAN /\ plugged' \in BOOLEAN /\ blackout' \in BOOLEAN
    BY <1>3, Zenon DEF Restart
  <2>5. events' \in Seq({"plugged", "unplugged"}) /\ Len(events') <= EventCap
    BY <1>3 DEF Restart
  <2>6. /\ sm' = "Booting" /\ mpc' = "boot" /\ hpc' = "idle" /\ flips' \in Nat /\ restarts' \in Nat
        /\ cpc' \in [Cycles -> CycleStep] /\ reattach' \in [Cycles -> BOOLEAN]
    BY <1>3 DEF Restart
  <2>7. missed' \in BOOLEAN
    BY <1>3, Zenon DEF Restart
  <2> QED  BY <2>1, <2>2, <2>3, <2>4, <2>5, <2>6, <2>7
<1>4. CASE MainBoot
  BY <1>4 DEF MainBoot, Transition
<1>5. CASE MainAttach
  <2>1. /\ attached' \in BOOLEAN /\ bound' \in BOOLEAN
        /\ media' \in BOOLEAN /\ refused' \in BOOLEAN
    BY <1>5, Zenon DEF MainAttach, AttachOk, AttachFails
  <2>2. mpc' \in MainStep /\ disturbed' \subseteq {"overlap", "interrupt", "eject"}
    BY <1>5 DEF MainAttach, Presented
  <2> QED
    BY <1>5, <2>1, <2>2 DEF MainAttach
<1>6. CASE MainAttached
  BY <1>6 DEF MainAttached, Transition
<1>7. CASE MainSync
  BY <1>7 DEF MainSync, RunMaintenance
<1>8. CASE Terminate
  BY <1>8 DEF Terminate
<1>9. CASE TerminateUnmount
  BY <1>9 DEF TerminateUnmount, Unmount
<1>10. CASE TerminateDetach
  BY <1>10 DEF TerminateDetach
<1>11. CASE Poll
  <2>1. seen' \in BOOLEAN
    BY <1>11, Zenon DEF Poll
  <2>2. events' \in Seq({"plugged", "unplugged"}) /\ Len(events') <= EventCap
    <3>1. CASE Len(events) = EventCap
      BY <1>11, <3>1 DEF Poll
    <3>2. CASE Len(events) # EventCap /\ plugged
      <4>1. events' = Append(events, "plugged")
        BY <1>11, <3>2 DEF Poll
      <4>2. events \in Seq({"plugged", "unplugged"}) /\ "plugged" \in {"plugged", "unplugged"}
        BY DEF MTypeOK
      <4>3. /\ Append(events, "plugged") \in Seq({"plugged", "unplugged"})
            /\ Len(Append(events, "plugged")) = Len(events) + 1
        BY <4>2, AppendProperties
      <4>4. Len(events) \in Nat
        BY <4>2, LenProperties
      <4>5. Len(events) <= EventCap /\ Len(events) # EventCap
        BY <3>2 DEF MTypeOK
      <4>6. Len(events) + 1 <= EventCap
        BY <4>4, <4>5, RoomLeft, MaintenanceAssumption
      <4> QED
        BY <4>1, <4>3, <4>6
    <3>3. CASE Len(events) # EventCap /\ ~plugged
      <4>1. events' = Append(events, "unplugged")
        BY <1>11, <3>3 DEF Poll
      <4>2. events \in Seq({"plugged", "unplugged"}) /\ "unplugged" \in {"plugged", "unplugged"}
        BY DEF MTypeOK
      <4>3. /\ Append(events, "unplugged") \in Seq({"plugged", "unplugged"})
            /\ Len(Append(events, "unplugged")) = Len(events) + 1
        BY <4>2, AppendProperties
      <4>4. Len(events) \in Nat
        BY <4>2, LenProperties
      <4>5. Len(events) <= EventCap /\ Len(events) # EventCap
        BY <3>3 DEF MTypeOK
      <4>6. Len(events) + 1 <= EventCap
        BY <4>4, <4>5, RoomLeft, MaintenanceAssumption
      <4> QED
        BY <4>1, <4>3, <4>6
    <3> QED
      BY <3>1, <3>2, <3>3
  <2> QED
    BY <1>11, <2>1, <2>2 DEF Poll
<1>12. CASE HandlePlug
  BY <1>12 DEF HandlePlug, Receive
<1>13. CASE HandleUnplug
  BY <1>13 DEF HandleUnplug, Receive
<1>14. CASE HandlerSync
  <2>1. CASE UNCHANGED <<cpc, reattach, disturbed>>
    BY <1>14, <2>1 DEF HandlerSync
  <2>2. CASE RunMaintenance(FALSE)
    BY <1>14, <2>2 DEF HandlerSync, RunMaintenance
  <2> QED
    BY <1>14, <2>1, <2>2 DEF HandlerSync
<1>15. CASE HandlerDrop
  BY <1>15 DEF HandlerDrop, Transition
<1>16. CASE HandlerClear
  BY <1>16 DEF HandlerClear, Unmount
<1>17. CASE HandlerConnect
  BY <1>17 DEF HandlerConnect, Transition
<1>18. CASE HandlerLoad
  <2>1. /\ attached' \in BOOLEAN /\ bound' \in BOOLEAN
        /\ media' \in BOOLEAN /\ refused' \in BOOLEAN
    <3>1. CASE (IF attached THEN LoadOk ELSE AttachOk)
      BY <3>1, Zenon DEF LoadOk, AttachOk
    <3>2. CASE (IF attached THEN LoadFails ELSE AttachFails)
      BY <3>2, Zenon DEF LoadFails, AttachFails
    <3> QED
      BY <1>18, <3>1, <3>2 DEF HandlerLoad
  <2>2. hpc' \in HandlerStep
    BY <1>18 DEF HandlerLoad
  <2>3. disturbed' \subseteq {"overlap", "interrupt", "eject"}
    BY <1>18 DEF HandlerLoad, Presented
  <2> QED
    BY <1>18, <2>1, <2>2, <2>3 DEF HandlerLoad
<1>19. CASE HandlerReport
  BY <1>19 DEF HandlerReport, Transition
<1>20. ASSUME NEW c \in Cycles, mpc # "stopped", CycleStepOf(c) PROVE MTypeOK'
  <2> USE DEF At, Goto, elsewhere
  <2>1. CASE CycleBegin(c)
    BY <2>1 DEF CycleBegin, Transition
  <2>2. CASE CycleEject(c)
    <3>1. CASE EjectOk /\ UNCHANGED disturbed
      <4>1. attached' = attached /\ bound' = bound /\ media' \in BOOLEAN /\ refused' = refused
        BY <3>1, Zenon DEF EjectOk, MTypeOK
      <4> QED
        BY <2>2, <3>1, <4>1 DEF CycleEject
    <3>2. CASE EjectFails /\ disturbed' = disturbed \cup {"eject"}
      BY <2>2, <3>2 DEF CycleEject, EjectFails
    <3> QED
      BY <2>2, <3>1, <3>2 DEF CycleEject
  <2>3. CASE CycleSettled(c)
    BY <2>3 DEF CycleSettled, Transition
  <2>4. CASE CycleMount(c)
    BY <2>4 DEF CycleMount, MountOk, MountFails
  <2>5. CASE CycleRemount(c)
    <3>1. CASE LoadOk
      BY <2>5, <3>1 DEF CycleRemount, LoadOk
    <3>2. CASE LoadFails
      <4>1. attached' = attached /\ bound' = bound /\ media' = media /\ refused' \in BOOLEAN
        BY <3>2, Zenon DEF LoadFails
      <4> QED
        BY <2>5, <3>2, <4>1 DEF CycleRemount
    <3>3. CASE UNCHANGED usb
      BY <2>5, <3>3 DEF CycleRemount
    <3> QED
      BY <2>5, <3>1, <3>2, <3>3 DEF CycleRemount
  <2>6. CASE CycleIngest(c)
    BY <2>6 DEF CycleIngest
  <2>7. CASE CycleUnmount(c)
    BY <2>7 DEF CycleUnmount, Unmount
  <2>8. CASE CycleConnecting(c)
    BY <2>8 DEF CycleConnecting, Transition
  <2>9. CASE CycleLoad(c)
    <3>1. CASE LoadOk /\ Goto(c, "decide")
      BY <2>9, <3>1 DEF CycleLoad, LoadOk
    <3>2. CASE LoadFails /\ Goto(c, "broken")
      BY <2>9, <3>2 DEF CycleLoad, LoadFails
    <3> QED
      BY <2>9, <3>1, <3>2 DEF CycleLoad
  <2>10. CASE CycleBroken(c)
    BY <2>10 DEF CycleBroken, Transition
  <2>11. CASE CycleLeave(c)
    BY <2>11 DEF CycleLeave, Transition
  <2>12. CASE CycleDecide(c)
    BY <2>12 DEF CycleDecide, Transition
  <2>13. CASE CycleUploaded(c)
    BY <2>13 DEF CycleUploaded
  <2>14. CASE CycleEnd(c)
    BY <2>14 DEF CycleEnd, Transition
  <2> QED
    BY <1>20, <2>1, <2>2, <2>3, <2>4, <2>5, <2>6, <2>7, <2>8, <2>9, <2>10, <2>11, <2>12, <2>13, <2>14 DEF CycleStepOf
<1>21. CASE UNCHANGED vars
  BY <1>21 DEF vars
<1> QED
  BY <1>1, <1>2, <1>3, <1>4, <1>5, <1>6, <1>7, <1>8, <1>9, <1>10, <1>11, <1>12, <1>13, <1>14, <1>15, <1>16, <1>17, <1>18, <1>19, <1>20, <1>21 DEF Next, ProcessStep, MainOwnStep, HandlerOwnStep

\* Whoever writes a busy state is still on the way to its next write.
LEMMA OwnedStep == MTypeOK /\ TransientOwned /\ [Next]_vars => TransientOwned'
<1> SUFFICES ASSUME MTypeOK, TransientOwned, [Next]_vars PROVE TransientOwned'
  OBVIOUS
<1> USE MaintenanceAssumption DEF MTypeOK, TransientOwned, usb, world, State, Busy
<1>1. CASE Flip
  BY <1>1 DEF Flip
<1>2. CASE Blackout
  BY <1>2 DEF Blackout
<1>3. CASE Restart
  BY <1>3 DEF Restart
<1>4. CASE MainBoot
  BY <1>4 DEF MainBoot, Transition
<1>5. CASE MainAttach
  BY <1>5 DEF MainAttach, AttachOk, AttachFails, Presented
<1>6. CASE MainAttached
  BY <1>6 DEF MainAttached, Transition
<1>7. CASE MainSync
  BY <1>7 DEF MainSync, RunMaintenance
<1>8. CASE Terminate
  BY <1>8 DEF Terminate
<1>9. CASE TerminateUnmount
  BY <1>9 DEF TerminateUnmount, Unmount
<1>10. CASE TerminateDetach
  BY <1>10 DEF TerminateDetach
<1>11. CASE Poll
  BY <1>11 DEF Poll
<1>12. CASE HandlePlug
  BY <1>12 DEF HandlePlug, Receive
<1>13. CASE HandleUnplug
  BY <1>13 DEF HandleUnplug, Receive
<1>14. CASE HandlerSync
  BY <1>14 DEF HandlerSync, RunMaintenance
<1>15. CASE HandlerDrop
  BY <1>15 DEF HandlerDrop, Transition
<1>16. CASE HandlerClear
  BY <1>16 DEF HandlerClear, Unmount
<1>17. CASE HandlerConnect
  BY <1>17 DEF HandlerConnect, Transition
<1>18. CASE HandlerLoad
  BY <1>18 DEF HandlerLoad, AttachOk, AttachFails, LoadOk, LoadFails, Presented
<1>19. CASE HandlerReport
  BY <1>19 DEF HandlerReport, Transition
<1>20. ASSUME NEW c \in Cycles, mpc # "stopped", CycleStepOf(c) PROVE TransientOwned'
  <2> USE DEF At, Goto, elsewhere
  <2>1. CASE CycleBegin(c)
    BY <2>1 DEF CycleBegin, Transition
  <2>2. CASE CycleEject(c)
    BY <2>2 DEF CycleEject, EjectOk, EjectFails
  <2>3. CASE CycleSettled(c)
    BY <2>3 DEF CycleSettled, Transition
  <2>4. CASE CycleMount(c)
    BY <2>4 DEF CycleMount, MountOk, MountFails
  <2>5. CASE CycleRemount(c)
    BY <2>5 DEF CycleRemount, LoadOk, LoadFails
  <2>6. CASE CycleIngest(c)
    BY <2>6 DEF CycleIngest
  <2>7. CASE CycleUnmount(c)
    BY <2>7 DEF CycleUnmount, Unmount
  <2>8. CASE CycleConnecting(c)
    BY <2>8 DEF CycleConnecting, Transition
  <2>9. CASE CycleLoad(c)
    BY <2>9 DEF CycleLoad, LoadOk, LoadFails
  <2>10. CASE CycleBroken(c)
    BY <2>10 DEF CycleBroken, Transition
  <2>11. CASE CycleLeave(c)
    BY <2>11 DEF CycleLeave, Transition
  <2>12. CASE CycleDecide(c)
    BY <2>12 DEF CycleDecide, Transition
  <2>13. CASE CycleUploaded(c)
    BY <2>13 DEF CycleUploaded
  <2>14. CASE CycleEnd(c)
    BY <2>14 DEF CycleEnd, Transition
  <2> QED
    BY <1>20, <2>1, <2>2, <2>3, <2>4, <2>5, <2>6, <2>7, <2>8, <2>9, <2>10, <2>11, <2>12, <2>13, <2>14 DEF CycleStepOf
<1>21. CASE UNCHANGED vars
  BY <1>21 DEF vars
<1> QED
  BY <1>1, <1>2, <1>3, <1>4, <1>5, <1>6, <1>7, <1>8, <1>9, <1>10, <1>11, <1>12, <1>13, <1>14, <1>15, <1>16, <1>17, <1>18, <1>19, <1>20, <1>21 DEF Next, ProcessStep, MainOwnStep, HandlerOwnStep

\* A step that would bring two users of the drive together is recorded.
LEMMA ApartStep == MTypeOK /\ ApartInv /\ [Next]_vars => ApartInv'
<1> SUFFICES ASSUME MTypeOK, ApartInv, [Next]_vars PROVE ApartInv'
  OBVIOUS
<1> USE MaintenanceAssumption DEF MTypeOK, ApartInv, usb, world, OnDrive
<1>1. CASE Flip
  BY <1>1 DEF Flip
<1>2. CASE Blackout
  BY <1>2 DEF Blackout
<1>3. CASE Restart
  BY <1>3 DEF Restart
<1>4. CASE MainBoot
  BY <1>4 DEF MainBoot, Transition
<1>5. CASE MainAttach
  BY <1>5 DEF MainAttach, AttachOk, AttachFails, Presented
<1>6. CASE MainAttached
  BY <1>6 DEF MainAttached, Transition
<1>7. CASE MainSync
  BY <1>7 DEF MainSync, RunMaintenance
<1>8. CASE Terminate
  BY <1>8 DEF Terminate
<1>9. CASE TerminateUnmount
  BY <1>9 DEF TerminateUnmount, Unmount
<1>10. CASE TerminateDetach
  BY <1>10 DEF TerminateDetach
<1>11. CASE Poll
  BY <1>11 DEF Poll
<1>12. CASE HandlePlug
  BY <1>12 DEF HandlePlug, Receive
<1>13. CASE HandleUnplug
  BY <1>13 DEF HandleUnplug, Receive
<1>14. CASE HandlerSync
  BY <1>14 DEF HandlerSync, RunMaintenance
<1>15. CASE HandlerDrop
  BY <1>15 DEF HandlerDrop, Transition
<1>16. CASE HandlerClear
  BY <1>16 DEF HandlerClear, Unmount
<1>17. CASE HandlerConnect
  BY <1>17 DEF HandlerConnect, Transition
<1>18. CASE HandlerLoad
  BY <1>18 DEF HandlerLoad, AttachOk, AttachFails, LoadOk, LoadFails, Presented
<1>19. CASE HandlerReport
  BY <1>19 DEF HandlerReport, Transition
<1>20. ASSUME NEW c \in Cycles, mpc # "stopped", CycleStepOf(c) PROVE ApartInv'
  <2> USE DEF At, Goto, elsewhere
  <2>1. CASE CycleBegin(c)
    BY <2>1 DEF CycleBegin, Transition
  <2>2. CASE CycleEject(c)
    BY <2>2 DEF CycleEject, EjectOk, EjectFails
  <2>3. CASE CycleSettled(c)
    BY <2>3 DEF CycleSettled, Transition
  <2>4. CASE CycleMount(c)
    BY <2>4 DEF CycleMount, MountOk, MountFails
  <2>5. CASE CycleRemount(c)
    BY <2>5 DEF CycleRemount, LoadOk, LoadFails
  <2>6. CASE CycleIngest(c)
    BY <2>6 DEF CycleIngest
  <2>7. CASE CycleUnmount(c)
    BY <2>7 DEF CycleUnmount, Unmount
  <2>8. CASE CycleConnecting(c)
    BY <2>8 DEF CycleConnecting, Transition
  <2>9. CASE CycleLoad(c)
    BY <2>9 DEF CycleLoad, LoadOk, LoadFails
  <2>10. CASE CycleBroken(c)
    BY <2>10 DEF CycleBroken, Transition
  <2>11. CASE CycleLeave(c)
    BY <2>11 DEF CycleLeave, Transition
  <2>12. CASE CycleDecide(c)
    BY <2>12 DEF CycleDecide, Transition
  <2>13. CASE CycleUploaded(c)
    BY <2>13 DEF CycleUploaded
  <2>14. CASE CycleEnd(c)
    BY <2>14 DEF CycleEnd, Transition
  <2> QED
    BY <1>20, <2>1, <2>2, <2>3, <2>4, <2>5, <2>6, <2>7, <2>8, <2>9, <2>10, <2>11, <2>12, <2>13, <2>14 DEF CycleStepOf
<1>21. CASE UNCHANGED vars
  BY <1>21 DEF vars
<1> QED
  BY <1>1, <1>2, <1>3, <1>4, <1>5, <1>6, <1>7, <1>8, <1>9, <1>10, <1>11, <1>12, <1>13, <1>14, <1>15, <1>16, <1>17, <1>18, <1>19, <1>20, <1>21 DEF Next, ProcessStep, MainOwnStep, HandlerOwnStep

\* Every cycle that takes the media out brings it back.
LEMMA StayStep == MTypeOK /\ StayInv /\ [Next]_vars => StayInv'
<1> SUFFICES ASSUME MTypeOK, StayInv, [Next]_vars PROVE StayInv'
  OBVIOUS
<1> USE MaintenanceAssumption DEF MTypeOK, StayInv, usb, world, Busy, CycleStep
<1>1. CASE Flip
  BY <1>1 DEF Flip
<1>2. CASE Blackout
  BY <1>2 DEF Blackout
<1>3. CASE Restart
  BY <1>3 DEF Restart
<1>4. CASE MainBoot
  BY <1>4 DEF MainBoot, Transition
<1>5. CASE MainAttach
  BY <1>5 DEF MainAttach, AttachOk, AttachFails, Presented
<1>6. CASE MainAttached
  BY <1>6 DEF MainAttached, Transition
<1>7. CASE MainSync
  BY <1>7 DEF MainSync, RunMaintenance
<1>8. CASE Terminate
  BY <1>8 DEF Terminate
<1>9. CASE TerminateUnmount
  BY <1>9 DEF TerminateUnmount, Unmount
<1>10. CASE TerminateDetach
  BY <1>10 DEF TerminateDetach
<1>11. CASE Poll
  BY <1>11 DEF Poll
<1>12. CASE HandlePlug
  BY <1>12 DEF HandlePlug, Receive
<1>13. CASE HandleUnplug
  BY <1>13 DEF HandleUnplug, Receive
<1>14. CASE HandlerSync
  BY <1>14 DEF HandlerSync, RunMaintenance
<1>15. CASE HandlerDrop
  BY <1>15 DEF HandlerDrop, Transition
<1>16. CASE HandlerClear
  BY <1>16 DEF HandlerClear, Unmount
<1>17. CASE HandlerConnect
  BY <1>17 DEF HandlerConnect, Transition
<1>18. CASE HandlerLoad
  BY <1>18 DEF HandlerLoad, AttachOk, AttachFails, LoadOk, LoadFails, Presented
<1>19. CASE HandlerReport
  BY <1>19 DEF HandlerReport, Transition
<1>20. ASSUME NEW c \in Cycles, mpc # "stopped", CycleStepOf(c) PROVE StayInv'
  <2> USE DEF At, Goto, elsewhere
  <2>1. CASE CycleBegin(c)
    BY <2>1 DEF CycleBegin, Transition
  <2>2. CASE CycleEject(c)
    BY <2>2 DEF CycleEject, EjectOk, EjectFails
  <2>3. CASE CycleSettled(c)
    BY <2>3 DEF CycleSettled, Transition
  <2>4. CASE CycleMount(c)
    BY <2>4 DEF CycleMount, MountOk, MountFails
  <2>5. CASE CycleRemount(c)
    BY <2>5 DEF CycleRemount, LoadOk, LoadFails
  <2>6. CASE CycleIngest(c)
    BY <2>6 DEF CycleIngest
  <2>7. CASE CycleUnmount(c)
    BY <2>7 DEF CycleUnmount, Unmount
  <2>8. CASE CycleConnecting(c)
    BY <2>8 DEF CycleConnecting, Transition
  <2>9. CASE CycleLoad(c)
    <3>1. CASE LoadOk /\ Goto(c, "decide")
      BY <2>9, <3>1 DEF CycleLoad, LoadOk
    <3>2. CASE LoadFails /\ Goto(c, "broken")
      BY <2>9, <3>2 DEF CycleLoad, LoadFails
    <3> QED
      BY <2>9, <3>1, <3>2 DEF CycleLoad
  <2>10. CASE CycleBroken(c)
    BY <2>10 DEF CycleBroken, Transition
  <2>11. CASE CycleLeave(c)
    BY <2>11 DEF CycleLeave, Transition
  <2>12. CASE CycleDecide(c)
    BY <2>12 DEF CycleDecide, Transition
  <2>13. CASE CycleUploaded(c)
    BY <2>13 DEF CycleUploaded
  <2>14. CASE CycleEnd(c)
    BY <2>14 DEF CycleEnd, Transition
  <2> QED
    BY <1>20, <2>1, <2>2, <2>3, <2>4, <2>5, <2>6, <2>7, <2>8, <2>9, <2>10, <2>11, <2>12, <2>13, <2>14 DEF CycleStepOf
<1>21. CASE UNCHANGED vars
  BY <1>21 DEF vars
<1> QED
  BY <1>1, <1>2, <1>3, <1>4, <1>5, <1>6, <1>7, <1>8, <1>9, <1>10, <1>11, <1>12, <1>13, <1>14, <1>15, <1>16, <1>17, <1>18, <1>19, <1>20, <1>21 DEF Next, ProcessStep, MainOwnStep, HandlerOwnStep

\* The newest event stays the newest while older ones are received.
LEMMA NewestEvent ==
  ASSUME events \in Seq({"plugged", "unplugged"}), events # << >>
  PROVE  /\ Tail(events) = << >> => Head(events) = events[Len(events)]
         /\ Tail(events) # << >> => Tail(events)[Len(Tail(events))] = events[Len(events)]
         /\ Tail(events) # << >> /\ events[Len(events)] = "plugged" => PlugPending(Tail(events))
<1> DEFINE E == {"plugged", "unplugged"}
<1>1. /\ Tail(events) \in Seq(E) /\ Len(Tail(events)) = Len(events) - 1
      /\ \A i \in 1..Len(Tail(events)) : Tail(events)[i] = events[i + 1]
      /\ Head(events) = events[1]
  <2>1. events \in Seq(E) /\ events # << >>
    OBVIOUS
  <2>2. Head(events) = events[1]
    OBVIOUS
  <2> HIDE DEF E
  <2> QED
    BY <2>1, <2>2, HeadTailProperties
<1>2. Len(events) \in Nat /\ Len(Tail(events)) \in Nat
  BY <1>1, LenProperties
<1>3. Tail(events) = << >> => Len(events) = 1
  <2>1. Tail(events) = << >> => Len(Tail(events)) = 0
    BY <1>1, EmptySeq
  <2> QED
    BY <1>1, <1>2, <2>1
<1>4. Tail(events) # << >> =>
        Len(Tail(events)) \in 1..Len(Tail(events)) /\ DOMAIN Tail(events) = 1..Len(Tail(events))
  <2>1. DOMAIN Tail(events) = 1..Len(Tail(events))
    BY <1>1, LenProperties
  <2>2. Tail(events) # << >> => Len(Tail(events)) # 0
    BY <1>1, EmptySeq
  <2> QED
    BY <1>2, <2>1, <2>2
<1>5. Tail(events) # << >> => Tail(events)[Len(Tail(events))] = events[Len(events)]
  BY <1>1, <1>2, <1>4
<1> QED
  BY <1>1, <1>3, <1>4, <1>5 DEF PlugPending

\* Whoever takes the media from a host that is there is followed by one who
\* gives it back.
LEMMA ServedStep == MTypeOK /\ ServedInv /\ [Next]_vars => ServedInv'
<1> SUFFICES ASSUME MTypeOK, ServedInv, [Next]_vars PROVE ServedInv'
  OBVIOUS
<1> USE MaintenanceAssumption DEF MTypeOK, ServedInv, usb, world, CycleStep, Overtaken
<1>1. CASE Flip
  BY <1>1 DEF Flip
<1>2. CASE Blackout
  BY <1>2 DEF Blackout
<1>3. CASE Restart
  BY <1>3 DEF Restart
<1>4. CASE MainBoot
  BY <1>4 DEF MainBoot, Transition
<1>5. CASE MainAttach
  BY <1>5 DEF MainAttach, AttachOk, AttachFails, Presented
<1>6. CASE MainAttached
  BY <1>6 DEF MainAttached, Transition
<1>7. CASE MainSync
  BY <1>7 DEF MainSync, RunMaintenance
<1>8. CASE Terminate
  BY <1>8 DEF Terminate
<1>9. CASE TerminateUnmount
  BY <1>9 DEF TerminateUnmount, Unmount
<1>10. CASE TerminateDetach
  BY <1>10 DEF TerminateDetach
<1>11. CASE Poll
  <2>1. CASE plugged /\ Len(events) # EventCap
    <3>1. events' = Append(events, "plugged")
      BY <1>11, <2>1 DEF Poll
    <3>2. events' # << >> /\ events'[Len(events')] = "plugged"
      BY <3>1
    <3> QED
      BY <1>11, <3>2 DEF Poll
  <2>2. CASE ~(plugged /\ Len(events) # EventCap)
    BY <1>11, <2>2 DEF Poll
  <2> QED
    BY <2>1, <2>2
<1>12. CASE HandlePlug
  <2>1. events # << >> /\ events' = Tail(events) /\ Head(events) = "plugged"
    BY <1>12 DEF HandlePlug, Receive
  <2>2. SUFFICES ASSUME ~missed', ~refused', seen' PROVE ServedInv'
    BY DEF ServedInv
  <2>3. ~missed /\ ~refused /\ seen /\ events[Len(events)] = "plugged"
    BY <1>12, <2>1, <2>2, Zenon DEF HandlePlug, usb, ServedInv
  <2>4. CASE Tail(events) # << >>
    BY <1>12, <2>1, <2>3, <2>4, NewestEvent DEF HandlePlug
  <2>5. CASE Tail(events) = << >>
    <3>1. ~PlugPending(Tail(events))
      BY <2>5 DEF PlugPending
    <3>2. hpc' # "idle" /\ ~Overtaken
      BY <1>12, <2>2, <3>1, Zenon DEF HandlePlug
    <3>3. hpc' \in {"clear", "connect"}
      BY <1>12, <3>2 DEF HandlePlug
    <3> QED
      BY <1>12, <2>1, <2>5, <3>2, <3>3 DEF HandlePlug
  <2> QED
    BY <2>4, <2>5
<1>13. CASE HandleUnplug
  <2>1. events # << >> /\ events' = Tail(events) /\ Head(events) = "unplugged" /\ hpc = "idle"
    BY <1>13 DEF HandleUnplug, Receive
  <2>2. CASE ~missed /\ ~refused /\ seen
    <3>1. events[Len(events)] = "plugged"
      BY <2>1, <2>2
    <3>2. Tail(events) # << >> /\ Tail(events)[Len(Tail(events))] = "plugged"
      BY <2>1, <3>1, NewestEvent
    <3> QED
      BY <1>13, <2>1, <3>2 DEF HandleUnplug
  <2>3. CASE ~(~missed /\ ~refused /\ seen)
    BY <1>13, <2>3 DEF HandleUnplug
  <2> QED
    BY <2>2, <2>3
<1>14. CASE HandlerSync
  BY <1>14 DEF HandlerSync, RunMaintenance
<1>15. CASE HandlerDrop
  BY <1>15 DEF HandlerDrop, Transition
<1>16. CASE HandlerClear
  BY <1>16 DEF HandlerClear, Unmount
<1>17. CASE HandlerConnect
  BY <1>17 DEF HandlerConnect, Transition
<1>18. CASE HandlerLoad
  BY <1>18 DEF HandlerLoad, AttachOk, AttachFails, LoadOk, LoadFails, Presented
<1>19. CASE HandlerReport
  BY <1>19 DEF HandlerReport, Transition
<1>20. ASSUME NEW c \in Cycles, mpc # "stopped", CycleStepOf(c) PROVE ServedInv'
  <2> USE DEF At, Goto, elsewhere
  <2>1. CASE CycleBegin(c)
    BY <2>1 DEF CycleBegin, Transition
  <2>2. CASE CycleEject(c)
    BY <2>2 DEF CycleEject, EjectOk, EjectFails
  <2>3. CASE CycleSettled(c)
    BY <2>3 DEF CycleSettled, Transition
  <2>4. CASE CycleMount(c)
    BY <2>4 DEF CycleMount, MountOk, MountFails
  <2>5. CASE CycleRemount(c)
    BY <2>5 DEF CycleRemount, LoadOk, LoadFails
  <2>6. CASE CycleIngest(c)
    BY <2>6 DEF CycleIngest
  <2>7. CASE CycleUnmount(c)
    BY <2>7 DEF CycleUnmount, Unmount
  <2>8. CASE CycleConnecting(c)
    BY <2>8 DEF CycleConnecting, Transition
  <2>9. CASE CycleLoad(c)
    <3>1. CASE LoadOk /\ Goto(c, "decide")
      BY <2>9, <3>1 DEF CycleLoad, LoadOk
    <3>2. CASE LoadFails /\ Goto(c, "broken")
      BY <2>9, <3>2 DEF CycleLoad, LoadFails
    <3> QED
      BY <2>9, <3>1, <3>2 DEF CycleLoad
  <2>10. CASE CycleBroken(c)
    BY <2>10 DEF CycleBroken, Transition
  <2>11. CASE CycleLeave(c)
    BY <2>11 DEF CycleLeave, Transition
  <2>12. CASE CycleDecide(c)
    BY <2>12 DEF CycleDecide, Transition
  <2>13. CASE CycleUploaded(c)
    BY <2>13 DEF CycleUploaded
  <2>14. CASE CycleEnd(c)
    BY <2>14 DEF CycleEnd, Transition
  <2> QED
    BY <1>20, <2>1, <2>2, <2>3, <2>4, <2>5, <2>6, <2>7, <2>8, <2>9, <2>10, <2>11, <2>12, <2>13, <2>14 DEF CycleStepOf
<1>21. CASE UNCHANGED vars
  BY <1>21 DEF vars
<1> QED
  BY <1>1, <1>2, <1>3, <1>4, <1>5, <1>6, <1>7, <1>8, <1>9, <1>10, <1>11, <1>12, <1>13, <1>14, <1>15, <1>16, <1>17, <1>18, <1>19, <1>20, <1>21 DEF Next, ProcessStep, MainOwnStep, HandlerOwnStep

-----------------------------------------------------------------------------
\* Every variable of the orchestrator keeps its type; the event channel never
\* holds more than its capacity (main.go, state.go, monitor.go).
THEOREM TypeCorrect == Spec => []MTypeOK
<1>1. Init => MTypeOK
  <2> SUFFICES ASSUME Init PROVE MTypeOK
    OBVIOUS
  <2>1. seen \in BOOLEAN
    BY Zenon DEF Init, Booted
  <2>2. events \in Seq({"plugged", "unplugged"}) /\ Len(events) <= EventCap
    <3>1. events = << >>
      BY Zenon DEF Init, Booted
    <3> QED
      BY <3>1, MaintenanceAssumption
  <2>3. sm \in State /\ mounts \in Nat /\ mpc \in MainStep /\ hpc \in HandlerStep
    BY DEF Init, Booted, State, MainStep, HandlerStep
  <2>4. cpc \in [Cycles -> CycleStep] /\ reattach \in [Cycles -> BOOLEAN]
    BY DEF Init, Booted, CycleStep
  <2> QED
    BY <2>1, <2>2, <2>3, <2>4 DEF Init, Booted, MTypeOK
<1> QED
  BY <1>1, TypeStep, PTL DEF Spec

\* No interleaving of main, the event handler and any number of overlapping
\* cycles leaves the state machine in a busy state, where every later trigger
\* would be refused, without some actor about to write it again.
THEOREM NeverWedged == Spec => []TransientOwned
<1>1. Init => TransientOwned
  BY DEF Init, Booted, TransientOwned
<1> QED
  BY <1>1, OwnedStep, TypeCorrect, PTL DEF Spec

\* The drive is never mounted and offered to the host at once unless cycles
\* overlapped, a host came back during a cycle, or an eject failed.
THEOREM WritersApart == Spec => []SingleWriterAccounted
<1>1. Init => ApartInv
  BY DEF Init, Booted, ApartInv, OnDrive
<1>2. MTypeOK /\ ApartInv => SingleWriterAccounted
  BY DEF MTypeOK, ApartInv, SingleWriterAccounted
<1> QED
  BY <1>1, <1>2, ApartStep, TypeCorrect, PTL DEF Spec

\* A host that stays has the drive back whenever everything is at rest,
\* however many cycles overlapped and whether or not they could mount.
THEOREM DriveGivenBack == Spec => []RestsPresented
<1>1. Init => StayInv
  BY DEF Init, Booted, StayInv
<1>2. TransientOwned /\ StayInv => RestsPresented
  BY DEF TransientOwned, StayInv, RestsPresented, Quiet, Finished, Busy
<1> QED
  BY <1>1, <1>2, StayStep, TypeCorrect, NeverWedged, PTL DEF Spec

\* A host that comes back, during a cycle or between cycles, however many
\* overlap, has the drive when everything is at rest, unless its arrival was
\* dropped, forgotten or overtaken, or presenting the drive failed.
THEOREM HostIsServed == Spec => []HostServedAccounted
<1>1. Init => ServedInv
  BY DEF Init, Booted, ServedInv, Overtaken
<1>2. ServedInv => HostServedAccounted
  BY DEF ServedInv, HostServedAccounted, Quiet, Finished
<1> QED
  BY <1>1, <1>2, ServedStep, TypeCorrect, PTL DEF Spec
=============================================================================
