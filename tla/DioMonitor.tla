----------------------------- MODULE DioMonitor -----------------------------
(***************************************************************************)
(* The thread that samples the inputs every 50 ms and turns edges into     *)
(* events (DIO::monitoringDIOChangeThreadFunction), and the event thread   *)
(* that handles them.  Loops A and B lie one behind the other under one    *)
(* vehicle: only the first that rises and the last that falls are events.  *)
(* The arm's status starts a clock, and an alarm when it stays up.         *)
(*                                                                         *)
(* Modelled here are the loops A and B and the arm.  The other inputs map  *)
(* each edge to one event, as the arm's status does.  The events of the    *)
(* loops and of the arm share one queue in the code; they are kept apart   *)
(* because no property relates them.  Whether the arm is broken is left    *)
(* out; its events report in the slot tPBSError[iBarrierStatus] too, so    *)
(* "armUp" and "alarm" are what the event thread was told, not that slot.  *)
(*                                                                         *)
(* SysfsGPIO::FnGetValue returns -1 when the file cannot be read.  The     *)
(* monitor keeps that as the last value: it is neither HIGH nor LOW, and   *)
(* an edge on either side of it is lost.                                   *)
(***************************************************************************)
EXTENDS Integers, Sequences

CONSTANTS
  Levels,   \* what a read may return: LOW, HIGH, or also Unread
  MaxQueue  \* bound: events waiting per queue

LOW == 0
HIGH == 1
Unread == -1

ASSUME LevelsAssumption == {LOW, HIGH} \subseteq Levels /\ Levels \subseteq {LOW, HIGH, Unread}
ASSUME MaxQueueAssumption == MaxQueue \in Nat

VARIABLES
  lastA, lastB, lastStatus,  \* the *_di_last_val_ of the three inputs
  openTimed,     \* barrier_open_time_ is not empty
  tooLong,       \* bIsBarrierOpenTooLongTime_
  loopEvents,    \* LOOP_A_ON (TRUE) and LOOP_A_OFF (FALSE) to be handled
  armEvents,     \* BARRIER_STATUS_* and BARRIER_OPEN_TOO_LONG_* to be handled
  loopApresent,  \* tProcess.gbLoopApresent
  armUp, alarm,  \* the arm is up, is up too long: what the event thread was
                 \* last told
  missed,        \* history: a loop was unread since the last loop event
  missedArm      \* history: the arm was unread since its last edge

loops == <<lastA, lastB, loopEvents, missed>>
arm == <<lastStatus, openTimed, tooLong, armEvents, missedArm>>
vars == <<loops, arm, loopApresent, armUp, alarm>>

Init ==
  /\ lastA = LOW /\ lastB = LOW /\ lastStatus = LOW
  /\ openTimed = FALSE /\ tooLong = FALSE
  /\ loopEvents = <<>> /\ armEvents = <<>>
  /\ loopApresent = FALSE /\ armUp = FALSE /\ alarm = FALSE
  /\ missed = FALSE /\ missedArm = FALSE

Rises(cur, last) == cur = HIGH /\ last = LOW
Falls(cur, last) == cur = LOW /\ last = HIGH
StaysOff(cur, last) == cur = LOW /\ last = LOW

-----------------------------------------------------------------------------
(* One sample of the loops.                                                *)

\* Mutation: the case of both loops rising in one sample is missing.
LoopsRiseApart(a, b) ==
  \/ Rises(a, lastA) /\ StaysOff(b, lastB)
  \/ Rises(b, lastB) /\ StaysOff(a, lastA)

LoopsOn(a, b) ==
  \/ Rises(a, lastA) /\ StaysOff(b, lastB)
  \/ Rises(b, lastB) /\ StaysOff(a, lastA)
  \/ Rises(a, lastA) /\ Rises(b, lastB)

\* Mutation: the vehicle is gone as soon as it leaves loop A.
LoopAOff(a, b) == Falls(a, lastA)

LoopsOff(a, b) ==
  \/ Falls(a, lastA) /\ StaysOff(b, lastB)
  \/ Falls(b, lastB) /\ StaysOff(a, lastA)
  \/ Falls(a, lastA) /\ Falls(b, lastB)

SampleLoops(a, b) ==
  /\ Len(loopEvents) < MaxQueue
  /\ loopEvents' = IF LoopsOn(a, b) THEN Append(loopEvents, TRUE)
                   ELSE IF LoopsOff(a, b) THEN Append(loopEvents, FALSE)
                   ELSE loopEvents
  /\ lastA' = a /\ lastB' = b
  /\ missed' = /\ ~(LoopsOn(a, b) \/ LoopsOff(a, b))
               /\ missed \/ Unread \in {a, b}

-----------------------------------------------------------------------------
(* One sample of the arm.                                                  *)

ArmRises(s) ==
  /\ Rises(s, lastStatus)
  /\ openTimed' = TRUE
  /\ armEvents' = Append(armEvents, "STATUS_ON")
  /\ UNCHANGED tooLong

\* Mutation: the alarm is forgotten, and not withdrawn, when the arm closes.
ArmFallsSilently(s) ==
  /\ Falls(s, lastStatus)
  /\ openTimed' = FALSE
  /\ tooLong' = FALSE
  /\ armEvents' = Append(armEvents, "STATUS_OFF")

ArmFalls(s) ==
  /\ Falls(s, lastStatus)
  /\ openTimed' = FALSE
  /\ tooLong' = FALSE
  /\ armEvents' = Append(armEvents, "STATUS_OFF")
                  \o (IF tooLong THEN <<"TOO_LONG_OFF">> ELSE <<>>)

\* Once per opening: the clock stops when the alarm is raised.
ArmStays(s, overdue) ==
  /\ ~Rises(s, lastStatus) /\ ~Falls(s, lastStatus)
  /\ IF openTimed /\ overdue
     THEN /\ tooLong' = TRUE
          /\ armEvents' = Append(armEvents, "TOO_LONG_ON")
          /\ openTimed' = FALSE
     ELSE UNCHANGED <<tooLong, armEvents, openTimed>>

SampleArm(s, overdue) ==
  /\ Len(armEvents) < MaxQueue
  /\ ArmRises(s) \/ ArmFalls(s) \/ ArmStays(s, overdue)
  /\ lastStatus' = s
  /\ missedArm' = /\ ~Rises(s, lastStatus) /\ ~Falls(s, lastStatus)
                  /\ missedArm \/ s = Unread

-----------------------------------------------------------------------------
\* The levels are whatever the lane makes of them.
Monitor ==
  /\ \E a, b \in Levels : SampleLoops(a, b)
  /\ \E s \in Levels, overdue \in BOOLEAN : SampleArm(s, overdue)
  /\ UNCHANGED <<loopApresent, armUp, alarm>>

HandleLoopEvent ==
  /\ loopEvents # <<>>
  /\ loopApresent' = Head(loopEvents)
  /\ loopEvents' = Tail(loopEvents)
  /\ UNCHANGED <<lastA, lastB, missed, arm, armUp, alarm>>

HandleArmEvent ==
  /\ armEvents # <<>>
  /\ armEvents' = Tail(armEvents)
  /\ armUp' = CASE Head(armEvents) = "STATUS_ON" -> TRUE
                [] Head(armEvents) = "STATUS_OFF" -> FALSE
                [] OTHER -> armUp
  /\ alarm' = CASE Head(armEvents) = "TOO_LONG_ON" -> TRUE
                [] Head(armEvents) = "TOO_LONG_OFF" -> FALSE
                [] OTHER -> alarm
  /\ UNCHANGED <<loops, lastStatus, openTimed, tooLong, missedArm, loopApresent>>

Next == Monitor \/ HandleLoopEvent \/ HandleArmEvent

Spec == Init /\ [][Next]_vars

-----------------------------------------------------------------------------
ArmEvents == {"STATUS_ON", "STATUS_OFF", "TOO_LONG_ON", "TOO_LONG_OFF"}

\* The variables have their types; a sample adds at most one event of the
\* loops and two of the arm (dio.cpp:137-174, 266-291, 341-354).
TypeOK ==
  /\ lastA \in Levels /\ lastB \in Levels /\ lastStatus \in Levels
  /\ missed \in BOOLEAN /\ missedArm \in BOOLEAN
  /\ openTimed \in BOOLEAN /\ tooLong \in BOOLEAN
  /\ loopEvents \in Seq(BOOLEAN) /\ Len(loopEvents) <= MaxQueue
  /\ armEvents \in Seq(ArmEvents) /\ Len(armEvents) <= MaxQueue + 1
  /\ loopApresent \in BOOLEAN /\ armUp \in BOOLEAN /\ alarm \in BOOLEAN

Occupied == lastA = HIGH \/ lastB = HIGH

(***************************************************************************)
(* Loops A and B together are one detector: each change of "a vehicle      *)
(* stands on one of them" is one event, whichever loop moves first, both   *)
(* in one sample included, and no other movement is an event, as long as   *)
(* every read succeeds.                                                    *)
(* (dio.cpp:137-174, event_handler.cpp:93-106.)                            *)
(***************************************************************************)
Detector == INSTANCE LoopDetector
  WITH occupied <- Occupied, pending <- loopEvents, known <- loopApresent

DetectorSpec == Detector!Spec

(***************************************************************************)
(* When reads fail, the loops are still that detector from every event     *)
(* that is read cleanly to the next failure.                               *)
(* (dio.cpp:137-174, 356-357, gpio.cpp:156-195.)                           *)
(***************************************************************************)
DetectsWhatItReads ==
  [][~missed /\ ~missed' => Detector!Change \/ Detector!Learn]_(Detector!vars)

(***************************************************************************)
(* The last event of the loops, handled or not, tells what the last sample *)
(* saw, unless a read of a loop failed since that event: then a vehicle    *)
(* can come or go unnoticed, until the next edge that is read cleanly.     *)
(* (dio.cpp:137-174, 356-357, gpio.cpp:156-195.)                           *)
(***************************************************************************)
LastEventIsTrue ==
  LET told == <<loopApresent>> \o loopEvents IN
  ~missed => told[Len(told)] = Occupied

(***************************************************************************)
(* The alarm is for this opening of the arm: once the events are handled   *)
(* it is on exactly when the arm is up and has been too long, and neither  *)
(* the alarm nor the clock outlives the opening, unless a read of the arm  *)
(* failed since its last edge.  (dio.cpp:266-291, 341-354, 362.)           *)
(***************************************************************************)
AlarmIsOfThisOpening ==
  /\ armEvents = <<>> => (alarm <=> tooLong)
  /\ ~missedArm =>
       /\ tooLong \/ openTimed => lastStatus = HIGH
       /\ armEvents = <<>> => (armUp <=> lastStatus = HIGH)
=============================================================================
