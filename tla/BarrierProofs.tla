--------------------------- MODULE BarrierProofs ---------------------------
(***************************************************************************)
(* Proofs about Barrier, for every set of openers and any number of        *)
(* restarts.                                                               *)
(***************************************************************************)
EXTENDS Barrier, TLAPS

(***************************************************************************)
(* Where the threads can be: only Pms runs the commands and the start of   *)
(* the program, and no opener runs before the pins exist.                  *)
(***************************************************************************)
OpenersOnlyPulse == \A t \in Openers : pc[t] \in {"off", "idle", "checked", "pulsing"}
StartBeforePins == pc[Pms] \in {"load", "start"} => ~dioReady
PinsBeforeLock == pc[Pms] \in {"checkLock", "bootHeld"} => dioReady
NoOpenerWithoutPins == ~dioReady => \A t \in Openers : pc[t] = "off"

Places == OpenersOnlyPulse /\ StartBeforePins /\ PinsBeforeLock
          /\ NoOpenerWithoutPins

\* What the flag is worth at each place of the PMS strand.
FlagAtPlace ==
  /\ pc[Pms] \in {"load", "start", "checkLock", "bootHeld", "checked",
                  "pulsing", "storeClose"} => ~continueOpened
  /\ pc[Pms] = "storeHold" => continueOpened

\* closeBarrier has released the relay: only an opener can put it on again.
ClosingIsReleased ==
  pc[Pms] \in {"released", "closing", "closed"} /\ openRelay = 1 /\ dioReady
    => forced \/ \E t \in Openers : pc[t] = "pulsing"

\* A hold that no pulse overlapped: the relay is on and stays on.
HoldStarted ==
  pc[Pms] \in {"held", "bootHeld"} /\ dioReady /\ ~overlap /\ ~forced
    => openRelay = 1
NobodyPulsesInAHold ==
  continueOpened /\ pc[Pms] \in {"idle", "storeHold"} /\ ~overlap
    => \A t \in Openers : ~Pulsing(t)

\* The row and the flag, from loadParam to the end of the start and through
\* the pulses of the PMS strand itself.
LockLoaded ==
  /\ pc[Pms] \in {"start", "checkLock", "bootHeld"} => lockBarrier = stored
  /\ pc[Pms] = "bootHeld" => stored
  /\ pc[Pms] \in {"checked", "pulsing"} /\ ~unsynced => ~stored

IInv ==
  /\ TypeOK /\ Places /\ FlagAtPlace
  /\ RelayHasAnOwner /\ ClosingIsReleased
  /\ HoldStarted /\ NobodyPulsesInAHold /\ HoldIsKept
  /\ LockLoaded /\ LockMatchesHold

USE ThreadsAssumption, MaxCrashesAssumption

\* The first state satisfies the invariant.
LEMMA InitIInv == Init => IInv
<1> SUFFICES ASSUME Init PROVE IInv
  OBVIOUS
<1> USE DEF Init
<1>1. pc[Pms] = "load" /\ \A t \in Openers : pc[t] = "off"
  BY DEF Threads
<1>2. TypeOK
  <2>1. pc \in [Threads -> {"off", "load"}]
    OBVIOUS
  <2>2. 0 \in 0..MaxCrashes
    OBVIOUS
  <2>3. QED
    BY <1>1, <2>1, <2>2 DEF TypeOK
<1>3. Places /\ FlagAtPlace /\ LockLoaded /\ LockMatchesHold
  BY <1>1 DEF Places, OpenersOnlyPulse, StartBeforePins, PinsBeforeLock,
     NoOpenerWithoutPins, FlagAtPlace, LockLoaded, LockMatchesHold
<1>4. /\ RelayHasAnOwner /\ ClosingIsReleased /\ HoldStarted
      /\ NobodyPulsesInAHold /\ HoldIsKept
  BY DEF RelayHasAnOwner, ClosingIsReleased, HoldStarted,
     NobodyPulsesInAHold, HoldIsKept
<1>5. QED
  BY <1>2, <1>3, <1>4 DEF IInv

\* Moving one thread leaves the others where they are.
LEMMA GotoMoves ==
  ASSUME TypeOK, NEW t \in Threads, NEW from, NEW to, Goto(t, from, to)
  PROVE  /\ pc[t] = from /\ pc'[t] = to
         /\ \A u \in Threads : u # t => pc'[u] = pc[u]
  BY DEF TypeOK, Goto

LEMMA ThreadFacts ==
  /\ Pms \in Threads /\ \A t \in Openers : t \in Threads /\ t # Pms
  /\ \A t \in Threads : t = Pms \/ t \in Openers
  BY DEF Threads

\* When the devices start only the event thread starts with them.
LEMMA StartDevicesMoves ==
  ASSUME TypeOK, StartDevices
  PROVE  /\ pc'[Pms] = "checkLock" /\ pc'[EventThread] = "idle"
         /\ \A t \in Openers : t # EventThread => pc'[t] = pc[t]
  BY ThreadFacts DEF TypeOK, StartDevices

\* At the end of the start the PMS strand and, if the pins exist, the openers
\* that were not running are idle.
LEMMA EndBootMoves ==
  ASSUME TypeOK, Places, EndBoot,
         pc[Pms] \in {"load", "checkLock", "bootHeld"}
  PROVE  /\ pc'[Pms] = "idle"
         /\ \A t \in Openers :
              pc'[t] = IF pc[t] = "off" /\ dioReady THEN "idle" ELSE pc[t]
         /\ \A t \in Threads : pc'[t] \in {"off", "idle", pc[t]}
         /\ pc' \in [Threads -> {"off", "idle", "checked", "pulsing"}]
<1> USE ThreadFacts DEF TypeOK, Places, EndBoot, OpenersOnlyPulse
<1>1. \A t \in Threads : t = Pms \/ t \in Openers
  BY DEF Threads
<1>2. pc'[Pms] = "idle"
  OBVIOUS
<1>3. \A t \in Openers :
        pc'[t] = IF pc[t] = "off" /\ dioReady THEN "idle" ELSE pc[t]
  OBVIOUS
<1>4. \A t \in Threads : pc'[t] \in {"off", "idle", "checked", "pulsing"}
  BY <1>1, <1>2, <1>3
<1>5. pc' \in [Threads -> {"off", "idle", "checked", "pulsing"}]
  BY <1>4
<1>6. QED
  BY <1>1, <1>2, <1>3, <1>5

\* Every step keeps the types.
LEMMA StepTypeOK == IInv /\ [Next]_vars => (TypeOK)'
<1> DEFINE Keeps == TypeOK
<1> SUFFICES ASSUME IInv, [Next]_vars PROVE Keeps'
  OBVIOUS
<1> USE ThreadFacts, EndBootMoves DEF IInv, relays, lock, start, Goto, TypeOK
<1>1. ASSUME NEW t \in Threads, CheckOpen(t) PROVE Keeps'
  BY <1>1 DEF CheckOpen
<1>2. ASSUME NEW t \in Threads, StartPulse(t) PROVE Keeps'
  BY <1>2 DEF StartPulse, SetOpen
<1>3. ASSUME NEW t \in Threads, EndPulse(t) PROVE Keeps'
  BY <1>3 DEF EndPulse, SetOpen
<1>4. CASE CmdContinueOpenBarrier
  <2>1. CASE HoldRelay("idle", "held")
    BY <1>4, <2>1 DEF HoldRelay, SetOpen
  <2>2. CASE HoldFlag("held", "storeHold")
    BY <1>4, <2>2 DEF HoldFlag
  <2>3. CASE StoreLock("storeHold", TRUE)
    BY <1>4, <2>3 DEF StoreLock
  <2>4. QED
    BY <1>4, <2>1, <2>2, <2>3 DEF CmdContinueOpenBarrier
<1>5. CASE CmdCloseBarrier
  <2>1. CASE ReleaseOpen
    BY <1>5, <2>1 DEF ReleaseOpen, SetOpen
  <2>2. CASE PulseClose("released", 1, "closing")
    BY <1>5, <2>2 DEF PulseClose, SetClose
  <2>3. CASE PulseClose("closing", 0, "closed")
    BY <1>5, <2>3 DEF PulseClose, SetClose
  <2>4. CASE ClearFlag
    BY <1>5, <2>4 DEF ClearFlag
  <2>5. CASE StoreLock("storeClose", FALSE)
    BY <1>5, <2>5 DEF StoreLock
  <2>6. QED
    BY <1>5, <2>1, <2>2, <2>3, <2>4, <2>5 DEF CmdCloseBarrier
<1>6. ASSUME NEW v \in {0, 1}, SetDioOutput(v) PROVE Keeps'
  BY <1>6 DEF SetDioOutput, Booting
<1>7. ASSUME NEW v \in BOOLEAN, CmdDownloadParam(v) PROVE Keeps'
  BY <1>7 DEF CmdDownloadParam, Booting
<1>7a. CASE DownloadMissingTable
  BY <1>7a DEF DownloadMissingTable, Booting
<1>8. CASE LoadParameter
  <2>1. CASE Goto(Pms, "load", "start")
    BY <1>8, <2>1 DEF LoadParameter
  <2>2. CASE EndBoot
    BY <1>8, <2>2 DEF LoadParameter
  <2>3. QED
    BY <1>8, <2>1, <2>2 DEF LoadParameter
<1>9. CASE StartDevices
  BY <1>9 DEF StartDevices, PinsLow
<1>10. CASE NoLockAtBoot
  BY <1>10 DEF NoLockAtBoot
<1>11. CASE LockAtBoot
  <2>1. CASE lockBarrier /\ HoldRelay("checkLock", "bootHeld")
    BY <1>11, <2>1 DEF HoldRelay, SetOpen
  <2>2. CASE pc[Pms] = "bootHeld" /\ EndBoot /\ LockAtBoot
    BY <1>11, <2>2 DEF LockAtBoot, HoldRelay
  <2>3. QED
    BY <1>11, <2>1, <2>2 DEF LockAtBoot, HoldRelay
<1>12. CASE StartDevicesLate
  BY <1>12 DEF StartDevicesLate, PinsLow, Booting
<1>13. CASE Crash
  <2>1. pc' \in [Threads -> {"off", "load"}] /\ pc'[Pms] = "load"
    BY <1>13 DEF Crash
  <2>2. crashes' \in 0..MaxCrashes
    BY <1>13 DEF Crash
  <2>3. QED
    BY <1>13, <2>1, <2>2 DEF Crash
<1>14. CASE UNCHANGED vars
  BY <1>14 DEF vars
<1>15. QED
  BY <1>1, <1>2, <1>3, <1>4, <1>5, <1>6, <1>7, <1>7a, <1>8, <1>9, <1>10, <1>11, <1>12, <1>13, <1>14
     DEF Next, Pulse, PmsStep, Boot

\* Every step keeps the threads where they may be.
LEMMA StepPlaces == IInv /\ [Next]_vars => (Places /\ FlagAtPlace)'
<1> DEFINE Keeps == Places /\ FlagAtPlace
<1> SUFFICES ASSUME IInv, [Next]_vars PROVE Keeps'
  OBVIOUS
<1> USE GotoMoves, EndBootMoves, StartDevicesMoves, ThreadFacts
    DEF IInv, relays, lock, start, Places, OpenersOnlyPulse, StartBeforePins, PinsBeforeLock, NoOpenerWithoutPins, FlagAtPlace
<1>1. ASSUME NEW t \in Threads, CheckOpen(t) PROVE Keeps'
  BY <1>1 DEF CheckOpen
<1>2. ASSUME NEW t \in Threads, StartPulse(t) PROVE Keeps'
  BY <1>2 DEF StartPulse, SetOpen
<1>3. ASSUME NEW t \in Threads, EndPulse(t) PROVE Keeps'
  BY <1>3 DEF EndPulse, SetOpen
<1>4. CASE CmdContinueOpenBarrier
  <2>1. CASE HoldRelay("idle", "held")
    BY <1>4, <2>1 DEF HoldRelay, SetOpen
  <2>2. CASE HoldFlag("held", "storeHold")
    BY <1>4, <2>2 DEF HoldFlag
  <2>3. CASE StoreLock("storeHold", TRUE)
    BY <1>4, <2>3 DEF StoreLock
  <2>4. QED
    BY <1>4, <2>1, <2>2, <2>3 DEF CmdContinueOpenBarrier
<1>5. CASE CmdCloseBarrier
  <2>1. CASE ReleaseOpen
    BY <1>5, <2>1 DEF ReleaseOpen, SetOpen
  <2>2. CASE PulseClose("released", 1, "closing")
    BY <1>5, <2>2 DEF PulseClose, SetClose
  <2>3. CASE PulseClose("closing", 0, "closed")
    BY <1>5, <2>3 DEF PulseClose, SetClose
  <2>4. CASE ClearFlag
    BY <1>5, <2>4 DEF ClearFlag
  <2>5. CASE StoreLock("storeClose", FALSE)
    BY <1>5, <2>5 DEF StoreLock
  <2>6. QED
    BY <1>5, <2>1, <2>2, <2>3, <2>4, <2>5 DEF CmdCloseBarrier
<1>6. ASSUME NEW v \in {0, 1}, SetDioOutput(v) PROVE Keeps'
  BY <1>6 DEF SetDioOutput, Booting
<1>7. ASSUME NEW v \in BOOLEAN, CmdDownloadParam(v) PROVE Keeps'
  BY <1>7 DEF CmdDownloadParam, Booting
<1>7a. CASE DownloadMissingTable
  BY <1>7a DEF DownloadMissingTable, Booting
<1>8. CASE LoadParameter
  <2>1. CASE Goto(Pms, "load", "start")
    BY <1>8, <2>1 DEF LoadParameter
  <2>2. CASE EndBoot
    BY <1>8, <2>2 DEF LoadParameter
  <2>3. QED
    BY <1>8, <2>1, <2>2 DEF LoadParameter
<1>9. CASE StartDevices
  BY <1>9 DEF StartDevices, PinsLow
<1>10. CASE NoLockAtBoot
  BY <1>10 DEF NoLockAtBoot
<1>11. CASE LockAtBoot
  <2>1. CASE lockBarrier /\ HoldRelay("checkLock", "bootHeld")
    BY <1>11, <2>1 DEF HoldRelay, SetOpen
  <2>2. CASE pc[Pms] = "bootHeld" /\ EndBoot /\ LockAtBoot
    BY <1>11, <2>2 DEF LockAtBoot, HoldRelay
  <2>3. QED
    BY <1>11, <2>1, <2>2 DEF LockAtBoot, HoldRelay
<1>12. CASE StartDevicesLate
  BY <1>12 DEF StartDevicesLate, PinsLow, Booting
<1>13. CASE Crash
  BY <1>13 DEF Crash
<1>14. CASE UNCHANGED vars
  BY <1>14 DEF vars
<1>15. QED
  BY <1>1, <1>2, <1>3, <1>4, <1>5, <1>6, <1>7, <1>7a, <1>8, <1>9, <1>10, <1>11, <1>12, <1>13, <1>14
     DEF Next, Pulse, PmsStep, Boot

\* Every step leaves the open relay with an owner.
LEMMA StepOwner == IInv /\ [Next]_vars => (RelayHasAnOwner /\ ClosingIsReleased)'
<1> DEFINE Keeps == RelayHasAnOwner /\ ClosingIsReleased
<1> SUFFICES ASSUME IInv, [Next]_vars PROVE Keeps'
  OBVIOUS
<1> USE GotoMoves, EndBootMoves, StartDevicesMoves, ThreadFacts
    DEF IInv, relays, lock, start, RelayHasAnOwner, ClosingIsReleased, PinsBeforeLock, Places
<1>1. ASSUME NEW t \in Threads, CheckOpen(t) PROVE Keeps'
  BY <1>1 DEF CheckOpen
<1>2. ASSUME NEW t \in Threads, StartPulse(t) PROVE Keeps'
  BY <1>2 DEF StartPulse, SetOpen
<1>3. ASSUME NEW t \in Threads, EndPulse(t) PROVE Keeps'
  BY <1>3 DEF EndPulse, SetOpen
<1>4. CASE CmdContinueOpenBarrier
  <2>1. CASE HoldRelay("idle", "held")
    BY <1>4, <2>1 DEF HoldRelay, SetOpen
  <2>2. CASE HoldFlag("held", "storeHold")
    BY <1>4, <2>2 DEF HoldFlag
  <2>3. CASE StoreLock("storeHold", TRUE)
    BY <1>4, <2>3 DEF StoreLock
  <2>4. QED
    BY <1>4, <2>1, <2>2, <2>3 DEF CmdContinueOpenBarrier
<1>5. CASE CmdCloseBarrier
  <2>1. CASE ReleaseOpen
    BY <1>5, <2>1 DEF ReleaseOpen, SetOpen
  <2>2. CASE PulseClose("released", 1, "closing")
    BY <1>5, <2>2 DEF PulseClose, SetClose
  <2>3. CASE PulseClose("closing", 0, "closed")
    BY <1>5, <2>3 DEF PulseClose, SetClose
  <2>4. CASE ClearFlag
    BY <1>5, <2>4 DEF ClearFlag
  <2>5. CASE StoreLock("storeClose", FALSE)
    BY <1>5, <2>5 DEF StoreLock
  <2>6. QED
    BY <1>5, <2>1, <2>2, <2>3, <2>4, <2>5 DEF CmdCloseBarrier
<1>6. ASSUME NEW v \in {0, 1}, SetDioOutput(v) PROVE Keeps'
  BY <1>6 DEF SetDioOutput, Booting
<1>7. ASSUME NEW v \in BOOLEAN, CmdDownloadParam(v) PROVE Keeps'
  BY <1>7 DEF CmdDownloadParam, Booting
<1>7a. CASE DownloadMissingTable
  BY <1>7a DEF DownloadMissingTable, Booting
<1>8. CASE LoadParameter
  <2>1. CASE Goto(Pms, "load", "start")
    BY <1>8, <2>1 DEF LoadParameter
  <2>2. CASE EndBoot
    BY <1>8, <2>2 DEF LoadParameter
  <2>3. QED
    BY <1>8, <2>1, <2>2 DEF LoadParameter
<1>9. CASE StartDevices
  BY <1>9 DEF StartDevices, PinsLow
<1>10. CASE NoLockAtBoot
  BY <1>10 DEF NoLockAtBoot
<1>11. CASE LockAtBoot
  <2>1. CASE lockBarrier /\ HoldRelay("checkLock", "bootHeld")
    BY <1>11, <2>1 DEF HoldRelay, SetOpen
  <2>2. CASE pc[Pms] = "bootHeld" /\ EndBoot /\ LockAtBoot
    BY <1>11, <2>2 DEF LockAtBoot, HoldRelay
  <2>3. QED
    BY <1>11, <2>1, <2>2 DEF LockAtBoot, HoldRelay
<1>12. CASE StartDevicesLate
  BY <1>12 DEF StartDevicesLate, PinsLow, Booting
<1>13. CASE Crash
  BY <1>13 DEF Crash
<1>14. CASE UNCHANGED vars
  BY <1>14 DEF vars
<1>15. QED
  BY <1>1, <1>2, <1>3, <1>4, <1>5, <1>6, <1>7, <1>7a, <1>8, <1>9, <1>10, <1>11, <1>12, <1>13, <1>14
     DEF Next, Pulse, PmsStep, Boot

\* Every step keeps an undisturbed hold.
LEMMA StepHold ==
  IInv /\ [Next]_vars
    => (HoldStarted /\ NobodyPulsesInAHold /\ HoldIsKept)'
<1> DEFINE Keeps == HoldStarted /\ NobodyPulsesInAHold /\ HoldIsKept
<1> SUFFICES ASSUME IInv, [Next]_vars PROVE Keeps'
  OBVIOUS
<1> USE GotoMoves, EndBootMoves, StartDevicesMoves, ThreadFacts
    DEF IInv, relays, lock, start, HoldStarted, NobodyPulsesInAHold, HoldIsKept, Pulsing, Places, OpenersOnlyPulse, NoOpenerWithoutPins, FlagAtPlace
<1>1. ASSUME NEW t \in Threads, CheckOpen(t) PROVE Keeps'
  BY <1>1 DEF CheckOpen
<1>2. ASSUME NEW t \in Threads, StartPulse(t) PROVE Keeps'
  BY <1>2 DEF StartPulse, SetOpen
<1>3. ASSUME NEW t \in Threads, EndPulse(t) PROVE Keeps'
  <2>1. /\ Goto(t, "pulsing", "idle") /\ SetOpen(0)
        /\ overlap' = (overlap \/ pc[Pms] \in {"held", "bootHeld"})
        /\ UNCHANGED <<lock, continueOpened, start>>
    BY <1>3 DEF EndPulse
  <2>2. CASE overlap'
    BY <2>2 DEF Keeps
  <2>3. CASE ~overlap' /\ t = Pms
    <3>1. pc[Pms] = "pulsing" /\ pc'[Pms] = "idle"
      BY <2>1, <2>3
    <3>2. ~continueOpened'
      BY <2>1, <3>1
    <3>3. QED
      BY <3>1, <3>2
  <2>4. CASE ~overlap' /\ t # Pms
    <3>1. pc'[Pms] = pc[Pms] /\ ~overlap /\ pc[Pms] \notin {"held", "bootHeld"}
      BY <2>1, <2>4
    <3>2. t \in Openers /\ pc[t] = "pulsing"
      BY <2>1, <2>4
    <3>3. ~(continueOpened /\ pc[Pms] \in {"idle", "storeHold"})
      BY <3>1, <3>2
    <3>4. QED
      BY <2>1, <3>1, <3>3
  <2>5. QED
    BY <2>2, <2>3, <2>4
<1>4. CASE CmdContinueOpenBarrier
  <2>1. CASE HoldRelay("idle", "held")
    BY <1>4, <2>1 DEF HoldRelay, SetOpen
  <2>2. CASE HoldFlag("held", "storeHold")
    <3>1. pc[Pms] = "held" /\ pc'[Pms] = "storeHold"
      BY <2>2 DEF HoldFlag
    <3>2. \A t \in Openers : pc'[t] = pc[t]
      BY <2>2 DEF HoldFlag
    <3>3. /\ overlap' = (overlap \/ \E t \in Openers : Pulsing(t))
          /\ UNCHANGED <<openRelay, forced, start>>
      BY <2>2 DEF HoldFlag
    <3>4. HoldStarted'
      BY <3>1
    <3>5. NobodyPulsesInAHold'
      BY <3>2, <3>3
    <3>6. HoldIsKept'
      BY <3>1, <3>3
    <3>7. QED
      BY <3>4, <3>5, <3>6
  <2>3. CASE StoreLock("storeHold", TRUE)
    BY <1>4, <2>3 DEF StoreLock
  <2>4. QED
    BY <1>4, <2>1, <2>2, <2>3 DEF CmdContinueOpenBarrier
<1>5. CASE CmdCloseBarrier
  <2>1. CASE ReleaseOpen
    BY <1>5, <2>1 DEF ReleaseOpen, SetOpen
  <2>2. CASE PulseClose("released", 1, "closing")
    BY <1>5, <2>2 DEF PulseClose, SetClose
  <2>3. CASE PulseClose("closing", 0, "closed")
    BY <1>5, <2>3 DEF PulseClose, SetClose
  <2>4. CASE ClearFlag
    BY <1>5, <2>4 DEF ClearFlag
  <2>5. CASE StoreLock("storeClose", FALSE)
    BY <1>5, <2>5 DEF StoreLock
  <2>6. QED
    BY <1>5, <2>1, <2>2, <2>3, <2>4, <2>5 DEF CmdCloseBarrier
<1>6. ASSUME NEW v \in {0, 1}, SetDioOutput(v) PROVE Keeps'
  BY <1>6 DEF SetDioOutput, Booting
<1>7. ASSUME NEW v \in BOOLEAN, CmdDownloadParam(v) PROVE Keeps'
  BY <1>7 DEF CmdDownloadParam, Booting
<1>7a. CASE DownloadMissingTable
  BY <1>7a DEF DownloadMissingTable, Booting
<1>8. CASE LoadParameter
  <2>1. CASE Goto(Pms, "load", "start")
    BY <1>8, <2>1 DEF LoadParameter
  <2>2. CASE EndBoot
    BY <1>8, <2>2 DEF LoadParameter
  <2>3. QED
    BY <1>8, <2>1, <2>2 DEF LoadParameter
<1>9. CASE StartDevices
  BY <1>9 DEF StartDevices, PinsLow
<1>10. CASE NoLockAtBoot
  BY <1>10 DEF NoLockAtBoot
<1>11. CASE LockAtBoot
  <2>1. CASE lockBarrier /\ HoldRelay("checkLock", "bootHeld")
    BY <1>11, <2>1 DEF HoldRelay, SetOpen
  <2>2. CASE pc[Pms] = "bootHeld" /\ EndBoot /\ LockAtBoot
    <3>1. pc'[Pms] = "idle" /\ dioReady' /\ dioReady
      BY <2>2 DEF LockAtBoot, HoldRelay, Goto, PinsBeforeLock
    <3>2. /\ openRelay' = openRelay /\ forced' = forced
          /\ ~overlap' => ~overlap /\ \A t \in Openers : ~Pulsing(t)
      BY <2>2 DEF LockAtBoot, HoldRelay, Goto
    <3>3. ~overlap' => \A t \in Openers : pc'[t] \notin {"checked", "pulsing"}
      BY <2>2, <3>2
    <3>4. QED
      BY <2>2, <3>1, <3>2, <3>3
  <2>3. QED
    BY <1>11, <2>1, <2>2 DEF LockAtBoot, HoldRelay
<1>12. CASE StartDevicesLate
  BY <1>12 DEF StartDevicesLate, PinsLow, Booting
<1>13. CASE Crash
  BY <1>13 DEF Crash
<1>14. CASE UNCHANGED vars
  BY <1>14 DEF vars
<1>15. QED
  BY <1>1, <1>2, <1>3, <1>4, <1>5, <1>6, <1>7, <1>7a, <1>8, <1>9, <1>10, <1>11, <1>12, <1>13, <1>14
     DEF Next, Pulse, PmsStep, Boot

\* Every step keeps the row in step with the flag.
LEMMA StepLock == IInv /\ [Next]_vars => (LockLoaded /\ LockMatchesHold)'
<1> DEFINE Keeps == LockLoaded /\ LockMatchesHold
<1> SUFFICES ASSUME IInv, [Next]_vars PROVE Keeps'
  OBVIOUS
<1> USE GotoMoves, EndBootMoves, StartDevicesMoves, ThreadFacts
    DEF IInv, relays, lock, start, LockLoaded, LockMatchesHold, FlagAtPlace
<1>1. ASSUME NEW t \in Threads, CheckOpen(t) PROVE Keeps'
  BY <1>1 DEF CheckOpen
<1>2. ASSUME NEW t \in Threads, StartPulse(t) PROVE Keeps'
  BY <1>2 DEF StartPulse, SetOpen
<1>3. ASSUME NEW t \in Threads, EndPulse(t) PROVE Keeps'
  BY <1>3 DEF EndPulse, SetOpen
<1>4. CASE CmdContinueOpenBarrier
  <2>1. CASE HoldRelay("idle", "held")
    BY <1>4, <2>1 DEF HoldRelay, SetOpen
  <2>2. CASE HoldFlag("held", "storeHold")
    BY <1>4, <2>2 DEF HoldFlag
  <2>3. CASE StoreLock("storeHold", TRUE)
    BY <1>4, <2>3 DEF StoreLock
  <2>4. QED
    BY <1>4, <2>1, <2>2, <2>3 DEF CmdContinueOpenBarrier
<1>5. CASE CmdCloseBarrier
  <2>1. CASE ReleaseOpen
    BY <1>5, <2>1 DEF ReleaseOpen, SetOpen
  <2>2. CASE PulseClose("released", 1, "closing")
    BY <1>5, <2>2 DEF PulseClose, SetClose
  <2>3. CASE PulseClose("closing", 0, "closed")
    BY <1>5, <2>3 DEF PulseClose, SetClose
  <2>4. CASE ClearFlag
    BY <1>5, <2>4 DEF ClearFlag
  <2>5. CASE StoreLock("storeClose", FALSE)
    BY <1>5, <2>5 DEF StoreLock
  <2>6. QED
    BY <1>5, <2>1, <2>2, <2>3, <2>4, <2>5 DEF CmdCloseBarrier
<1>6. ASSUME NEW v \in {0, 1}, SetDioOutput(v) PROVE Keeps'
  BY <1>6 DEF SetDioOutput, Booting
<1>7. ASSUME NEW v \in BOOLEAN, CmdDownloadParam(v) PROVE Keeps'
  BY <1>7 DEF CmdDownloadParam, Booting
<1>7a. CASE DownloadMissingTable
  BY <1>7a DEF DownloadMissingTable, Booting
<1>8. CASE LoadParameter
  <2>1. CASE Goto(Pms, "load", "start")
    BY <1>8, <2>1 DEF LoadParameter
  <2>2. CASE EndBoot
    BY <1>8, <2>2 DEF LoadParameter
  <2>3. QED
    BY <1>8, <2>1, <2>2 DEF LoadParameter
<1>9. CASE StartDevices
  BY <1>9 DEF StartDevices, PinsLow
<1>10. CASE NoLockAtBoot
  BY <1>10 DEF NoLockAtBoot
<1>11. CASE LockAtBoot
  <2>1. CASE lockBarrier /\ HoldRelay("checkLock", "bootHeld")
    <3>1. pc[Pms] = "checkLock" /\ pc'[Pms] = "bootHeld"
      BY <2>1 DEF HoldRelay
    <3>2. stored' = stored /\ lockBarrier' = lockBarrier
          /\ unsynced' = unsynced /\ continueOpened' = continueOpened
      BY <2>1 DEF HoldRelay
    <3>3. stored' /\ lockBarrier' = stored'
      BY <2>1, <3>1, <3>2
    <3>4. QED
      BY <3>1, <3>2, <3>3
  <2>2. CASE pc[Pms] = "bootHeld" /\ EndBoot /\ LockAtBoot
    BY <1>11, <2>2 DEF LockAtBoot, HoldRelay
  <2>3. QED
    BY <1>11, <2>1, <2>2 DEF LockAtBoot, HoldRelay
<1>12. CASE StartDevicesLate
  BY <1>12 DEF StartDevicesLate, PinsLow, Booting
<1>13. CASE Crash
  BY <1>13 DEF Crash
<1>14. CASE UNCHANGED vars
  BY <1>14 DEF vars
<1>15. QED
  BY <1>1, <1>2, <1>3, <1>4, <1>5, <1>6, <1>7, <1>7a, <1>8, <1>9, <1>10, <1>11, <1>12, <1>13, <1>14
     DEF Next, Pulse, PmsStep, Boot

LEMMA StepIInv == IInv /\ [Next]_vars => IInv'
<1> SUFFICES ASSUME IInv, [Next]_vars PROVE IInv'
  OBVIOUS
<1>1. TypeOK' /\ (Places /\ FlagAtPlace)'
  BY StepTypeOK, StepPlaces
<1>2. (RelayHasAnOwner /\ ClosingIsReleased)'
  BY StepOwner
<1>3. (HoldStarted /\ NobodyPulsesInAHold /\ HoldIsKept)'
  BY StepHold
<1>4. (LockLoaded /\ LockMatchesHold)'
  BY StepLock
<1>5. QED
  BY <1>1, <1>2, <1>3, <1>4 DEF IInv

LEMMA Inductive == Spec => []IInv
  BY InitIInv, StepIInv, PTL DEF Spec, SafeSpec

(***************************************************************************)
(* For every set of openers: the variables keep their types, a relay pin   *)
(* is only ever driven to 0 or 1 (operation.cpp:519-568).                  *)
(***************************************************************************)
THEOREM TypeCorrect == Spec => []TypeOK
  BY Inductive, PTL DEF IInv

(***************************************************************************)
(* For every set of openers and any number of crashes: the open relay is   *)
(* never on without an owner (operation.cpp:519-568, gpio.cpp:223-260).    *)
(***************************************************************************)
THEOREM RelayAlwaysOwned == Spec => []RelayHasAnOwner
  BY Inductive, PTL DEF IInv

(***************************************************************************)
(* For every set of openers: only a pulse that overlaps the start of a     *)
(* hold, a raw DO command or a start without pins can separate the relay   *)
(* from its flag (operation.cpp:527, 561-568).                             *)
(***************************************************************************)
THEOREM UndisturbedHoldIsKept == Spec => []HoldIsKept
  BY Inductive, PTL DEF IInv

(***************************************************************************)
(* For every set of openers and any number of crashes: the stored row      *)
(* agrees with the flag between commands (udp.cpp:396-432).                *)
(***************************************************************************)
THEOREM LockSurvivesRestart == Spec => []LockMatchesHold
  BY Inductive, PTL DEF IInv

(***************************************************************************)
(* For every set of openers: closeBarrier energises the close relay        *)
(* against the open one only inside an opener's pulse (operation.cpp:550). *)
(***************************************************************************)
THEOREM NeverBothWithoutPulse == Spec => []BothRelaysOnlyInAPulse
<1>1. IInv => BothRelaysOnlyInAPulse
  BY DEF IInv, ClosingIsReleased, BothRelaysOnlyInAPulse
<1>2. QED
  BY <1>1, Inductive, PTL
=============================================================================
