------------------------------ MODULE Barrier ------------------------------
(***************************************************************************)
(* The two relays of the barrier and everything that drives them:          *)
(* operation::Openbarrier, closeBarrier and continueOpenBarrier, the PMS   *)
(* commands around them, the raw DO commands of PMS and monitor, the       *)
(* "LockBarrier" row of Param_mst that carries a hold across a restart,    *)
(* and the start of the program.  A pulse sleeps between its two relay     *)
(* writes, no lock is held, and continueOpenBarrier writes the relay       *)
(* before giBarrierContinueOpened, so pulses and PMS commands interleave.  *)
(*                                                                         *)
(* Left to EntryLane: gbBarrierOpened and the loop A timer, which          *)
(* Openbarrier also touches.  giCardIsIn is never set to 1 by the code.    *)
(* The sysfs writes of gpio.cpp are assumed to succeed.                    *)
(***************************************************************************)
EXTENDS Naturals

CONSTANTS
  Openers,      \* threads that run Openbarrier: event thread, timer strand
  EventThread,  \* the opener that is already running during OperationInit
  Pms,          \* the PMS strand, and main while it runs OperationInit
  MaxCrashes    \* bound: restarts of the program

ASSUME ThreadsAssumption == EventThread \in Openers /\ Pms \notin Openers
ASSUME MaxCrashesAssumption == MaxCrashes \in Nat

Threads == Openers \cup {Pms}

VARIABLES
  openRelay, closeRelay,  \* the DO pins
  continueOpened,         \* tProcess.giBarrierContinueOpened = 1
  lockBarrier,            \* tParas.gbLockBarrier
  stored,                 \* Param_mst has LockBarrier = 1
  dioReady,               \* FnDIOInit ran: the pins can be written
  initFailed,             \* tProcess.gbInitParamFail = 1
  loaded,                 \* LoadedparameterOK()
  pc,                     \* where each thread is
  crashes,                \* restarts so far
  forced,    \* history: openRelay was last written by a raw DO command
  overlap,   \* history: a pulse of an opener overlapped the start of the
             \* hold, or the hold was commanded before the pins existed
  unsynced   \* history: a PMS command could not be stored, or a downloaded
             \* parameter replaced what it stored, or OperationInit failed

relays == <<openRelay, closeRelay, forced>>
lock == <<lockBarrier, stored, unsynced>>
start == <<dioReady, initFailed, loaded>>
vars == <<openRelay, closeRelay, continueOpened, lockBarrier, stored,
          dioReady, initFailed, loaded, pc, crashes, forced, overlap, unsynced>>

\* The first start: pins low, nothing stored, main about to load parameters.
Init ==
  /\ openRelay = 0 /\ closeRelay = 0
  /\ continueOpened = FALSE /\ lockBarrier = FALSE /\ stored = FALSE
  /\ dioReady = FALSE /\ initFailed = FALSE /\ loaded = FALSE
  /\ pc = [t \in Threads |-> IF t = Pms THEN "load" ELSE "off"]
  /\ crashes = 0
  /\ forced = FALSE /\ overlap = FALSE /\ unsynced = FALSE

Goto(t, from, to) == pc[t] = from /\ pc' = [pc EXCEPT ![t] = to]

\* FnSetOpenBarrier: without FnDIOInit there is no pin object to write to.
SetOpen(v) ==
  /\ openRelay' = IF dioReady THEN v ELSE openRelay
  /\ forced' = IF dioReady THEN FALSE ELSE forced

SetClose(v) == closeRelay' = IF dioReady THEN v ELSE closeRelay

Pulsing(t) == pc[t] \in {"checked", "pulsing"}

-----------------------------------------------------------------------------
(* Openbarrier, on any thread.                                             *)

\* Mutation: the early return for a held barrier is missing.
PulseAnyway(t) ==
  /\ Goto(t, "idle", "checked")
  /\ UNCHANGED <<relays, lock, continueOpened, start, crashes, overlap>>

CheckOpen(t) ==
  /\ ~continueOpened
  /\ Goto(t, "idle", "checked")
  /\ UNCHANGED <<relays, lock, continueOpened, start, crashes, overlap>>

StartPulse(t) ==
  /\ Goto(t, "checked", "pulsing")
  /\ SetOpen(1)
  /\ UNCHANGED <<closeRelay, lock, continueOpened, start, crashes, overlap>>

\* Mutation: the relay is not released after the pulse.
ForgetRelease(t) ==
  /\ Goto(t, "pulsing", "idle")
  /\ overlap' = (overlap \/ pc[Pms] \in {"held", "bootHeld"})
  /\ UNCHANGED <<relays, lock, continueOpened, start, crashes>>

EndPulse(t) ==
  /\ Goto(t, "pulsing", "idle")
  /\ SetOpen(0)
  /\ overlap' = (overlap \/ pc[Pms] \in {"held", "bootHeld"})
  /\ UNCHANGED <<closeRelay, lock, continueOpened, start, crashes>>

-----------------------------------------------------------------------------
(* continueOpenBarrier: the relay first, then the flag.                    *)

HoldRelay(from, to) ==
  /\ Goto(Pms, from, to)
  /\ SetOpen(1)
  /\ overlap' = FALSE
  /\ UNCHANGED <<closeRelay, lock, continueOpened, start, crashes>>

HoldFlag(from, to) ==
  /\ Goto(Pms, from, to)
  /\ continueOpened' = TRUE
  /\ overlap' = (overlap \/ \E t \in Openers : Pulsing(t))
  /\ UNCHANGED <<relays, lock, start, crashes>>

(* writeparameter2local, then gbLockBarrier only when the row was written. *)

\* Mutation: the row is not written, only gbLockBarrier is set.
StoreInMemory(from, v) ==
  /\ Goto(Pms, from, "idle")
  /\ lockBarrier' = v
  /\ unsynced' = FALSE
  /\ UNCHANGED <<relays, stored, continueOpened, start, crashes, overlap>>

StoreLock(from, v) ==
  /\ Goto(Pms, from, "idle")
  /\ \/ stored' = v /\ lockBarrier' = v /\ unsynced' = FALSE
     \/ UNCHANGED <<stored, lockBarrier>> /\ unsynced' = TRUE
  /\ UNCHANGED <<relays, continueOpened, start, crashes, overlap>>

CmdContinueOpenBarrier ==
  HoldRelay("idle", "held") \/ HoldFlag("held", "storeHold")
    \/ StoreLock("storeHold", TRUE)

-----------------------------------------------------------------------------
(* closeBarrier: release, pulse the other relay, then clear the flag.      *)

ReleaseOpen ==
  /\ Goto(Pms, "idle", "released")
  /\ SetOpen(0)
  /\ UNCHANGED <<closeRelay, lock, continueOpened, start, crashes, overlap>>

PulseClose(from, v, to) ==
  /\ Goto(Pms, from, to)
  /\ SetClose(v)
  /\ UNCHANGED <<openRelay, forced, lock, continueOpened, start, crashes,
                 overlap>>

ClearFlag ==
  /\ Goto(Pms, "closed", "storeClose")
  /\ continueOpened' = FALSE
  /\ UNCHANGED <<relays, lock, start, crashes, overlap>>

CmdCloseBarrier ==
  \/ ReleaseOpen
  \/ PulseClose("released", 1, "closing")
  \/ PulseClose("closing", 0, "closed")
  \/ ClearFlag
  \/ StoreLock("storeClose", FALSE)

-----------------------------------------------------------------------------
(* Commands that reach the pins or the stored row directly.                *)

Booting == pc[Pms] \in {"load", "start", "checkLock", "bootHeld"}

\* CmdSetDioOutput of PMS, CmdMonitorOutput of the monitor: any pin, any value.
SetDioOutput(v) ==
  /\ ~Booting /\ dioReady
  /\ \/ openRelay' = v /\ forced' = TRUE /\ UNCHANGED closeRelay
     \/ closeRelay' = v /\ UNCHANGED <<openRelay, forced>>
  /\ UNCHANGED <<lock, continueOpened, start, pc, crashes, overlap>>

\* CmdDownloadParam: the central value replaces the row, loadParam reads it.
\* It may have been the last table that was missing.
CmdDownloadParam(v) ==
  /\ ~Booting
  /\ stored' = v /\ lockBarrier' = v /\ unsynced' = TRUE
  /\ loaded' \in {loaded, TRUE}
  /\ UNCHANGED <<relays, continueOpened, dioReady, initFailed, pc, crashes, overlap>>

\* A command that downloads another table of the five LoadedparameterOK asks for.
DownloadMissingTable ==
  /\ ~Booting /\ ~loaded
  /\ loaded' = TRUE
  /\ UNCHANGED <<relays, lock, continueOpened, dioReady, initFailed, pc, crashes,
                 overlap>>

-----------------------------------------------------------------------------
(* OperationInit, and the start of the devices by the daily timer when     *)
(* OperationInit could not load some table.                                *)

EndBoot ==
  pc' = [t \in Threads |->
           IF pc[t] = "off" /\ ~dioReady THEN "off"
           ELSE IF pc[t] \in {"off", "load", "checkLock", "bootHeld"} THEN "idle"
           ELSE pc[t]]

LoadParameter ==
  /\ pc[Pms] = "load"
  /\ \/ /\ Goto(Pms, "load", "start")
        /\ lockBarrier' = stored /\ loaded' = TRUE
        /\ UNCHANGED <<initFailed, unsynced>>
     \/ /\ EndBoot
        /\ lockBarrier' \in {lockBarrier, stored} /\ loaded' \in BOOLEAN
        /\ initFailed' = TRUE /\ unsynced' = TRUE
  /\ UNCHANGED <<relays, stored, continueOpened, dioReady, crashes, overlap>>

\* Mutation: FnGPIOInit sets the direction of the pins but not their level.
PinsKeepLevel == openRelay' = openRelay /\ closeRelay' = closeRelay /\ forced' = forced

PinsLow == openRelay' = 0 /\ closeRelay' = 0 /\ forced' = FALSE

\* Initdevice and FnStartDIOMonitoring: from here the event thread works.
StartDevices ==
  /\ pc[Pms] = "start"
  /\ PinsLow
  /\ dioReady' = TRUE
  /\ pc' = [pc EXCEPT ![Pms] = "checkLock", ![EventThread] = "idle"]
  /\ UNCHANGED <<lock, continueOpened, initFailed, loaded, crashes, overlap>>

NoLockAtBoot ==
  /\ pc[Pms] = "checkLock"
  /\ ~lockBarrier
  /\ unsynced' = FALSE
  /\ EndBoot
  /\ UNCHANGED <<relays, lockBarrier, stored, continueOpened, start,
                 crashes, overlap>>

LockAtBoot ==
  \/ lockBarrier /\ HoldRelay("checkLock", "bootHeld")
  \/ /\ pc[Pms] = "bootHeld"
     /\ continueOpened' = TRUE
     /\ unsynced' = FALSE
     /\ EndBoot
     /\ overlap' = (overlap \/ \E t \in Openers : Pulsing(t))
     /\ UNCHANGED <<relays, lockBarrier, stored, start, crashes>>

\* main.cpp: once the five tables are there the daily timer makes up for a failed
\* OperationInit, with Initdevice but without the "Check barrier" step.
StartDevicesLate ==
  /\ ~Booting /\ initFailed /\ loaded
  /\ PinsLow
  /\ dioReady' = TRUE /\ initFailed' = FALSE
  /\ overlap' = (overlap \/ continueOpened \/ pc[Pms] = "held")
  /\ UNCHANGED <<lock, continueOpened, loaded, pc, crashes>>

\* The process dies and is started again: the pins keep their level, memory
\* is initialised by Setdefaultparameter.
Crash ==
  /\ crashes < MaxCrashes
  /\ crashes' = crashes + 1
  /\ pc' = [t \in Threads |-> IF t = Pms THEN "load" ELSE "off"]
  /\ continueOpened' = FALSE /\ lockBarrier' = FALSE
  /\ dioReady' = FALSE /\ initFailed' = FALSE /\ loaded' = FALSE
  /\ overlap' = FALSE
  /\ UNCHANGED <<relays, stored, unsynced>>

-----------------------------------------------------------------------------
Pulse(t) == StartPulse(t) \/ EndPulse(t)
PmsStep == CmdContinueOpenBarrier \/ CmdCloseBarrier
Boot == LoadParameter \/ StartDevices \/ NoLockAtBoot \/ LockAtBoot

Next ==
  \/ \E t \in Threads : CheckOpen(t) \/ Pulse(t)
  \/ PmsStep
  \/ \E v \in {0, 1} : SetDioOutput(v)
  \/ \E v \in BOOLEAN : CmdDownloadParam(v)
  \/ DownloadMissingTable
  \/ Boot \/ StartDevicesLate
  \/ Crash

\* A pulse ends, the program starts, and the daily timer runs every few seconds;
\* nobody is obliged to command or to download anything.
Fairness ==
  /\ \A t \in Threads : WF_vars(Pulse(t))
  /\ WF_vars(pc[Pms] # "idle" /\ PmsStep)
  /\ WF_vars(Boot)
  /\ WF_vars(StartDevicesLate)

SafeSpec == Init /\ [][Next]_vars
Spec == SafeSpec /\ Fairness

-----------------------------------------------------------------------------
\* The variables have their types.
TypeOK ==
  /\ openRelay \in {0, 1} /\ closeRelay \in {0, 1}
  /\ continueOpened \in BOOLEAN /\ lockBarrier \in BOOLEAN
  /\ stored \in BOOLEAN
  /\ dioReady \in BOOLEAN /\ initFailed \in BOOLEAN /\ loaded \in BOOLEAN
  /\ pc \in [Threads -> {"off", "idle", "checked", "pulsing", "held",
             "storeHold", "released", "closing", "closed", "storeClose",
             "load", "start", "checkLock", "bootHeld"}]
  /\ pc[Pms] # "off"
  /\ crashes \in 0..MaxCrashes
  /\ forced \in BOOLEAN /\ overlap \in BOOLEAN /\ unsynced \in BOOLEAN

(***************************************************************************)
(* The open relay is on only while somebody answers for it: a pulse that   *)
(* will end it, a hold, a raw DO command, or a start that has not reached  *)
(* FnDIOInit since the last crash.  (operation.cpp:519-568.)               *)
(***************************************************************************)
RelayHasAnOwner ==
  openRelay = 1 =>
    \/ forced \/ continueOpened \/ ~dioReady
    \/ pc[Pms] \in {"held", "bootHeld"}
    \/ \E t \in Threads : pc[t] = "pulsing"

(***************************************************************************)
(* A barrier whose flag says it is held open has its relay on, unless a    *)
(* pulse overlapped the start of the hold, a raw DO command moved the pin, *)
(* or the pins did not exist yet.  A pulse that overlaps really releases a *)
(* held barrier: operation.cpp:540 against 527 and 565-567.                *)
(***************************************************************************)
HoldIsKept ==
  continueOpened /\ pc[Pms] \in {"idle", "storeHold"} /\ dioReady
  /\ ~overlap /\ ~forced
    => openRelay = 1

(***************************************************************************)
(* Between PMS commands the stored row and the flag agree, and so a hold   *)
(* survives a restart and a close is not undone by one, unless the write   *)
(* of the row failed or a download replaced it.  (udp.cpp:396-432,         *)
(* operation.cpp:161-165.)                                                 *)
(***************************************************************************)
LockMatchesHold ==
  pc[Pms] = "idle" /\ ~unsynced => (stored <=> continueOpened)

(***************************************************************************)
(* Both relays are on at the same time only while an opener is pulsing or  *)
(* after a raw DO command: closeBarrier releases the open relay before it  *)
(* closes.  (operation.cpp:550-556.)                                       *)
(***************************************************************************)
BothRelaysOnlyInAPulse ==
  pc[Pms] = "closing" /\ openRelay = 1 /\ dioReady
    => forced \/ \E t \in Openers : pc[t] = "pulsing"

\* A failed start waits for tables that nobody is obliged to download.
WaitsForTables == initFailed /\ ~loaded

(***************************************************************************)
(* The open relay does not stay on for ever, through crashes included,     *)
(* unless the barrier is held, a raw DO command set the pin, or the start  *)
(* failed and a table is still missing: as soon as the tables are there    *)
(* the late start releases it.  (operation.cpp:536-541, main.cpp:97-104.)  *)
(***************************************************************************)
RelayIsReleased ==
  openRelay = 1 ~> (openRelay = 0 \/ continueOpened \/ forced \/ WaitsForTables)
=============================================================================
