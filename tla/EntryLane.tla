----------------------------- MODULE EntryLane -----------------------------
(***************************************************************************)
(* An entry station at work: the vehicles and the arm, the event thread    *)
(* that handles the loops, the arm and the LPR results, the strand that    *)
(* runs the loop A timer, and the PMS strand.  All of them read and write  *)
(* the one transaction record tEntry and the flags of tProcess, which no   *)
(* lock protects; a database call or a sleep separates the steps below.    *)
(*                                                                         *)
(* A "round" is one LoopACome: it clears the record, draws a transaction   *)
(* id and asks the LPR for the plate.  The result of the LPR is matched    *)
(* against the id of the current round.  Rounds are numbered, so two never *)
(* share an id.  SaveEntry's own failures belong to OfflineSync, the       *)
(* relays to Barrier.                                                      *)
(***************************************************************************)
EXTENDS Naturals, Sequences

CONSTANTS
  Vehicles,     \* the vehicles that come
  MaxRounds,    \* bound: calls of LoopACome
  MaxAnswers,   \* bound: results the LPR sends for one transaction id
  MaxCommands   \* bound: acts of the PMS and of the operator

ASSUME VehiclesAssumption == "none" \notin Vehicles
ASSUME BoundsAssumption == {MaxRounds, MaxAnswers, MaxCommands} \subseteq Nat

Event == "event"  \* the event thread
Timer == "timer"  \* the operation strand
Pms == "pms"      \* the strand of the PMS socket
Threads == {Event, Timer, Pms}

None == "none"    \* no vehicle, an empty string
Rounds == 1..MaxRounds

VARIABLES
  road, onA, onC, arm,   \* vehicles to come, on the loops; the arm is up
  queue,                 \* events the event thread has to handle
  asked, seen,           \* per round: answers the LPR may send, what it saw
  iu, entryOK,           \* tEntry.sIUTKNo, gbEntryOK
  transID,               \* tProcess.gsTransID, 0 for ""
  loopApresent, savedTrans, barrierOpened, held, \* tProcess
  armed, ticks,          \* the timer is waiting; its handlers ready to run
  pc, arg,               \* where each thread is, PBSEntry's sIU
  round, commands,       \* rounds and commands so far
  records,     \* history: what the event thread's PBSEntry wrote, in order
  wrote,       \* history: the vehicle the thread's current call handed to
               \* insertentrytrans
  wiped,       \* history: another thread's round touched the thread's last call
  stray,       \* history: loop A was left while a timer handler was under way
  unarmed      \* history: the timer was cancelled under a starting round, or
               \* while the barrier was held

world == <<road, onA, onC, arm>>
lpr == <<asked, seen>>
trans == <<iu, entryOK, transID, savedTrans, barrierOpened>>
timer == <<armed, ticks>>
history == <<records, wrote, wiped, stray, unarmed>>
vars == <<world, queue, lpr, trans, loopApresent, held, timer, pc, arg,
          round, commands, history>>

Init ==
  /\ road = Vehicles /\ onA = None /\ onC = None /\ arm = FALSE
  /\ queue = <<>>
  /\ asked = [r \in Rounds |-> 0] /\ seen = [r \in Rounds |-> None]
  /\ iu = None /\ entryOK = FALSE /\ transID = 0
  /\ loopApresent = FALSE /\ savedTrans = FALSE /\ barrierOpened = FALSE
  /\ held = FALSE
  /\ armed = FALSE /\ ticks = 0
  /\ pc = [t \in Threads |-> "idle"] /\ arg = [t \in Threads |-> None]
  /\ round = 0 /\ commands = 0
  /\ records = <<>>
  /\ wrote = [t \in Threads |-> None] /\ wiped = [t \in Threads |-> FALSE]
  /\ stray = FALSE /\ unarmed = FALSE

Goto(t, from, to) == pc[t] = from /\ pc' = [pc EXCEPT ![t] = to]

\* A thread is inside PBSEntry or ManualOpenBarrier.
InCall(t) == pc[t] \in {"entry", "check", "save", "saved", "open"}

StartCall(t) ==
  /\ wrote' = [wrote EXCEPT ![t] = None]
  /\ wiped' = [wiped EXCEPT ![t] = FALSE]

-----------------------------------------------------------------------------
(* The lane.  The DIO monitor turns edges of the loops and of the arm into *)
(* events; LOOP_C_ON and BARRIER_STATUS_OFF change nothing and are left    *)
(* out.                                                                    *)

worldOnly == <<lpr, trans, loopApresent, held, timer, pc, arg, round,
               history>>

Arrive(v) ==
  /\ v \in road /\ onA = None
  /\ road' = road \ {v} /\ onA' = v
  /\ queue' = Append(queue, <<"A_ON">>)
  /\ UNCHANGED <<onC, arm, commands, worldOnly>>

\* Through the open barrier onto loop C, or back where it came from.
DriveOn ==
  /\ onA # None /\ onC = None /\ arm
  /\ onC' = onA /\ onA' = None
  /\ queue' = Append(queue, <<"A_OFF">>)
  /\ UNCHANGED <<road, arm, commands, worldOnly>>

Reverse ==
  /\ onA # None
  /\ onA' = None
  /\ queue' = Append(queue, <<"A_OFF">>)
  /\ UNCHANGED <<road, onC, arm, commands, worldOnly>>

\* The arm closes behind the vehicle.
LeaveC ==
  /\ onC # None
  /\ onC' = None /\ arm' = held
  /\ queue' = Append(queue, <<"C_OFF">>)
  /\ UNCHANGED <<road, onA, commands, worldOnly>>

OperatorRaisesArm ==
  /\ ~arm /\ commands < MaxCommands
  /\ arm' = TRUE
  /\ commands' = commands + 1
  /\ queue' = Append(queue, <<"BARRIER_ON">>)
  /\ UNCHANGED <<road, onA, onC, worldOnly>>

\* The LPR answers with the plate it saw, None for "0000000000": late, more
\* than once, or never.
LprAnswers(r) ==
  /\ asked[r] > 0
  /\ asked' = [asked EXCEPT ![r] = @ - 1]
  /\ queue' = Append(queue, <<"LPR", r, seen[r]>>)
  /\ UNCHANGED <<world, seen, trans, loopApresent, held, timer, pc, arg,
                 round, commands, history>>

World ==
  \/ \E v \in Vehicles : Arrive(v)
  \/ DriveOn \/ Reverse \/ LeaveC \/ OperatorRaisesArm
  \/ \E r \in Rounds : LprAnswers(r)

-----------------------------------------------------------------------------
(* LoopACome and Clearme.                                                  *)

\* Mutation: a round does not start the timer.
StartNothing == UNCHANGED timer

StartLoopAPeriodicTimer == armed' = TRUE /\ UNCHANGED ticks

\* cancel does not reach a handler that is already queued.
StopLoopAPeriodicTimer ==
  /\ armed' = FALSE /\ UNCHANGED ticks
  /\ unarmed' = (unarmed \/ held \/ \E u \in Threads : pc[u] = "clear")

LoopACome(t) ==
  /\ round < MaxRounds
  /\ Goto(t, "come", "clear")
  /\ StartLoopAPeriodicTimer
  /\ UNCHANGED <<world, queue, lpr, trans, loopApresent, held, arg,
                 round, commands, history>>

\* What another thread is recording changes under its hands.
Disturb(t) ==
  wiped' = [u \in Threads |-> wiped[u] \/ (u # t /\ InCall(u))]

Clearme(t) ==
  /\ iu' = None /\ entryOK' = FALSE /\ transID' = 0
  /\ savedTrans' = FALSE /\ barrierOpened' = FALSE
  /\ Disturb(t)
  /\ UNCHANGED <<world, queue, lpr, loopApresent, held, timer, arg,
                 round, commands, records, wrote, stray, unarmed>>

ClearForRound(t) == Goto(t, "clear", "detect") /\ Clearme(t)

\* Up to 500 ms of looking at loop B, then the id goes to the LPR.
SendTransID(t) ==
  /\ round < MaxRounds
  /\ Goto(t, "detect", "idle")
  /\ round' = round + 1
  /\ transID' = round + 1
  /\ asked' = [asked EXCEPT ![round + 1] = MaxAnswers]
  /\ seen' = [seen EXCEPT ![round + 1] = onA]
  /\ Disturb(t)
  /\ UNCHANGED <<world, queue, iu, entryOK, savedTrans, barrierOpened,
                 loopApresent, held, timer, arg, commands, records, wrote,
                 stray, unarmed>>

-----------------------------------------------------------------------------
(* The event thread takes one event at a time.                             *)

Take(e) ==
  /\ pc[Event] = "idle" /\ queue # <<>> /\ Head(queue) = e
  /\ queue' = Tail(queue)
  /\ UNCHANGED <<world, lpr, held, round, commands>>

LoopAOn ==
  /\ Take(<<"A_ON">>)
  /\ loopApresent' = TRUE
  /\ Goto(Event, "idle", "come")
  /\ UNCHANGED <<trans, timer, arg, history>>

\* Mutation: LoopAGone does not stop the timer.
KeepTimer ==
  /\ Take(<<"A_OFF">>)
  /\ loopApresent' = FALSE
  /\ stray' = (stray \/ ticks > 0 \/ pc[Timer] # "idle")
  /\ UNCHANGED <<trans, timer, pc, arg, records, wrote, wiped, unarmed>>

LoopAOff ==
  /\ Take(<<"A_OFF">>)
  /\ loopApresent' = FALSE
  /\ StopLoopAPeriodicTimer
  /\ stray' = (stray \/ ticks > 0 \/ pc[Timer] # "idle")
  /\ UNCHANGED <<trans, pc, arg, records, wrote, wiped>>

LoopCOff ==
  /\ Take(<<"C_OFF">>)
  /\ Goto(Event, "idle", "cGone")
  /\ UNCHANGED <<trans, loopApresent, timer, arg, history>>

LoopCGone ==
  /\ Goto(Event, "cGone", IF loopApresent THEN "come" ELSE "idle")
  /\ Clearme(Event)

BarrierStatusOn ==
  /\ Take(<<"BARRIER_ON">>)
  /\ IF barrierOpened
     THEN UNCHANGED <<pc, history>>
     ELSE /\ Goto(Event, "idle", "save")
          /\ StartCall(Event)
          /\ UNCHANGED <<records, stray, unarmed>>
  /\ UNCHANGED <<trans, loopApresent, timer, arg>>

\* Mutation: the transaction id of the result is not compared.
MatchesAnyRound(r) == loopApresent

\* Mutation: a result for the current id is always entered.
EnterAgain == TRUE

LprMatches(r) == transID = r /\ loopApresent

\* gbsavedtrans here, the plate in ReceivedLPR, gbEntryOK in VehicleCome.
NotYetEntered == ~savedTrans /\ iu = None /\ ~entryOK

\* Otherwise the plate goes to the row already written (updateEntryTrans).
ReceivedLPR(r, plate) ==
  /\ Take(<<"LPR", r, plate>>)
  /\ IF plate # None /\ LprMatches(r) /\ NotYetEntered
     THEN /\ Goto(Event, "idle", "entry")
          /\ arg' = [arg EXCEPT ![Event] = plate]
          /\ StartCall(Event)
          /\ UNCHANGED <<records, stray, unarmed>>
     ELSE UNCHANGED <<pc, arg, history>>
  /\ UNCHANGED <<trans, loopApresent, timer>>

EventThread ==
  \/ LoopAOn \/ LoopAOff \/ LoopCOff \/ LoopCGone \/ BarrierStatusOn
  \/ \E r \in Rounds, p \in Vehicles \cup {None} : ReceivedLPR(r, p)

-----------------------------------------------------------------------------
(* PBSEntry, SaveEntry and Openbarrier, on any thread.  ManualOpenBarrier  *)
(* is the last two; the iStatus it sets is not modelled.                   *)

callOnly == <<world, lpr, loopApresent, held, arg, round, commands>>

\* PBSEntry stores its argument, then asks about blacklist and season.
SetIU(t) ==
  /\ Goto(t, "entry", "check")
  /\ iu' = arg[t]
  /\ UNCHANGED <<callOnly, queue, entryOK, transID, savedTrans,
                 barrierOpened, timer, history>>

\* Mutation: the barrier opens for a vehicle that is turned away.
OpenAnyway(t) ==
  /\ Goto(t, "check", "save") \/ Goto(t, "check", "open")
  /\ UNCHANGED <<callOnly, queue, trans, timer, history>>

CheckEntry(t) ==
  /\ \/ Goto(t, "check", "save") /\ UNCHANGED arg
     \/ Goto(t, "check", "idle") /\ arg' = [arg EXCEPT ![t] = None]
  /\ UNCHANGED <<world, lpr, loopApresent, held, round, commands, queue,
                 trans, timer, history>>

\* SaveEntry hands what tEntry and gsTransID hold now to insertentrytrans,
\* unless tEntry is empty.  The thread goes on the same way whatever that
\* returns, and sets gbsavedtrans.
SaveEntry(t) ==
  /\ Goto(t, "save", IF iu = None THEN "open" ELSE "saved")
  /\ IF iu = None
     THEN UNCHANGED <<records, wrote>>
     ELSE /\ records' =
               IF t = Event /\ arg[t] # None
               THEN Append(records, [round |-> transID, iu |-> iu,
                                     wiped |-> \E u \in Threads : wiped[u]])
               ELSE records
          /\ wrote' = [wrote EXCEPT ![t] = iu]
  /\ UNCHANGED <<callOnly, queue, trans, timer, wiped, stray, unarmed>>

SetSaved(t) ==
  /\ Goto(t, "saved", "open")
  /\ savedTrans' = TRUE
  /\ UNCHANGED <<callOnly, queue, iu, entryOK, transID, barrierOpened,
                 timer, history>>

\* PBSEntry's gbEntryOK and Openbarrier, which follow each other at once: the
\* timer, the flag, then the pulse; the arm rises if it was down.
Openbarrier(t) ==
  /\ Goto(t, "open", "idle")
  /\ entryOK' = (entryOK \/ arg[t] # None)
  /\ StopLoopAPeriodicTimer
  /\ barrierOpened' = (barrierOpened \/ ~held)
  /\ arm' = (arm \/ ~held)
  /\ queue' = IF arm \/ held THEN queue
              ELSE Append(queue, <<"BARRIER_ON">>)
  /\ arg' = [arg EXCEPT ![t] = None]
  /\ wrote' = [wrote EXCEPT ![t] = None]
  /\ UNCHANGED <<road, onA, onC, lpr, loopApresent, held, round,
                 commands, iu, transID, savedTrans, records, wiped,
                 stray>>

Step(t) ==
  \/ LoopACome(t) \/ ClearForRound(t) \/ SendTransID(t)
  \/ SetIU(t) \/ CheckEntry(t) \/ SaveEntry(t) \/ SetSaved(t)
  \/ Openbarrier(t)

-----------------------------------------------------------------------------
(* The timer strand.  A handler that is not aborted either finds           *)
(* giOperationTO exceeded and runs LoopACome, or waits another second.     *)

\* Assumption: a handler runs before the timer's next second is over.
TimerExpires ==
  /\ armed /\ ticks = 0
  /\ armed' = FALSE /\ ticks' = 1
  /\ UNCHANGED <<world, queue, lpr, trans, loopApresent, held, pc, arg, round,
                 commands, history>>

\* LoopACome takes half a second, giOperationTO many: nobody is inside one.
OperationTimeout == \A t \in Threads : pc[t] \notin {"clear", "detect"}

HandleTimerTimeout ==
  /\ pc[Timer] = "idle" /\ ticks = 1
  /\ ticks' = 0
  /\ \/ OperationTimeout /\ pc' = [pc EXCEPT ![Timer] = "come"] /\ UNCHANGED armed
     \/ armed' = TRUE /\ UNCHANGED pc
  /\ UNCHANGED <<world, queue, lpr, trans, loopApresent, held, arg, round,
                 commands, history>>

-----------------------------------------------------------------------------
(* The PMS strand.                                                         *)

Command ==
  /\ pc[Pms] = "idle" /\ commands < MaxCommands
  /\ commands' = commands + 1
  /\ UNCHANGED <<road, onA, onC, lpr, loopApresent, timer, round, records,
                 stray, unarmed>>

CmdOpenBarrier ==
  /\ Command
  /\ Goto(Pms, "idle", "save")
  /\ StartCall(Pms)
  /\ UNCHANGED <<arm, queue, held, arg, iu, entryOK, transID, savedTrans,
                 barrierOpened>>

\* continueOpenBarrier raises the arm and leaves gbBarrierOpened alone.
CmdContinueOpenBarrier ==
  /\ Command /\ ~held
  /\ held' = TRUE /\ arm' = TRUE
  /\ queue' = IF arm THEN queue ELSE Append(queue, <<"BARRIER_ON">>)
  /\ UNCHANGED <<trans, pc, arg, wrote, wiped>>

CmdCloseBarrier ==
  /\ pc[Pms] = "idle" /\ held
  /\ held' = FALSE /\ arm' = FALSE
  /\ UNCHANGED <<road, onA, onC, queue, lpr, trans, loopApresent, timer, pc,
                 arg, round, commands, history>>

\* The car park is full no longer: the vehicle on loop A is entered again,
\* whatever became of it.  Becoming full only turns vehicles away.
CmdCarparkfull ==
  /\ Command
  /\ loopApresent /\ iu # None
  /\ Goto(Pms, "idle", "check")
  /\ arg' = [arg EXCEPT ![Pms] = iu]
  /\ StartCall(Pms)
  /\ UNCHANGED <<arm, queue, held, trans>>

PmsCommand ==
  CmdOpenBarrier \/ CmdContinueOpenBarrier \/ CmdCloseBarrier \/ CmdCarparkfull

-----------------------------------------------------------------------------
Next ==
  \/ World \/ EventThread
  \/ \E t \in Threads : Step(t)
  \/ TimerExpires \/ HandleTimerTimeout
  \/ PmsCommand

SafeSpec == Init /\ [][Next]_vars

-----------------------------------------------------------------------------
\* The variables have their types.
TypeOK ==
  /\ road \subseteq Vehicles
  /\ {onA, onC, iu} \subseteq Vehicles \cup {None}
  /\ arg \in [Threads -> Vehicles \cup {None}]
  /\ asked \in [Rounds -> 0..MaxAnswers] /\ seen \in [Rounds -> Vehicles \cup {None}]
  /\ transID \in 0..MaxRounds
  /\ arm \in BOOLEAN /\ entryOK \in BOOLEAN /\ loopApresent \in BOOLEAN
  /\ savedTrans \in BOOLEAN /\ barrierOpened \in BOOLEAN /\ held \in BOOLEAN
  /\ armed \in BOOLEAN /\ stray \in BOOLEAN /\ unarmed \in BOOLEAN
  /\ ticks \in 0..1 /\ round \in 0..MaxRounds /\ commands \in 0..MaxCommands
  /\ pc \in [Threads -> {"idle", "come", "clear", "detect", "cGone",
             "entry", "check", "save", "saved", "open"}]
  /\ wrote \in [Threads -> Vehicles \cup {None}]
  /\ wiped \in [Threads -> BOOLEAN]

(***************************************************************************)
(* PBSEntry opens the barrier only for the vehicle it recorded, that is    *)
(* handed to insertentrytrans, unless another thread's Clearme emptied the *)
(* record under it: SaveEntry then returns silently and the barrier opens  *)
(* for a vehicle nobody wrote down.                                        *)
(* (operation.cpp:968-970, 1781.)                                          *)
(***************************************************************************)
OpensForRecordedVehicle ==
  \A t \in Threads :
    pc[t] = "open" /\ arg[t] # None => wrote[t] = arg[t] \/ wiped[t]

(***************************************************************************)
(* The event thread records a vehicle under the transaction id of the      *)
(* round in which the LPR saw it, unless a Clearme hit a call that was     *)
(* under way.  (operation.cpp:2272, db.cpp:333.)                           *)
(***************************************************************************)
RecordIsOfItsRound ==
  \A i \in DOMAIN records :
    LET rec == records[i] IN
    ~rec.wiped => rec.round # 0 /\ seen[rec.round] = rec.iu

(***************************************************************************)
(* The event thread enters a vehicle at most once under a transaction id,  *)
(* however often the LPR answers and whatever the timer and the PMS do:    *)
(* gbsavedtrans, the plate and gbEntryOK together.  (operation.cpp:509,    *)
(* 2272-2280.)  Round 0 is a record written while a Clearme has emptied    *)
(* the id.                                                                 *)
(***************************************************************************)
OneRecordPerRound ==
  \A i, j \in DOMAIN records :
    i # j /\ records[i].round = records[j].round => records[i].round = 0

Calm == queue = <<>> /\ \A t \in Threads : pc[t] = "idle"

(***************************************************************************)
(* A vehicle on loop A is not forgotten: the timer will read it again, or  *)
(* the transaction is saved, or the barrier was opened, unless the timer   *)
(* was cancelled between another thread's start of it and its Clearme, or  *)
(* under a hold.  (operation.cpp:412-429, 523, 964-970.)                   *)
(***************************************************************************)
WaitingVehicleIsWatched ==
  Calm /\ onA # None
    => armed \/ ticks > 0 \/ savedTrans \/ barrierOpened \/ unarmed

(***************************************************************************)
(* The timer does not run for an empty lane, unless loop A was left while  *)
(* one of its handlers was already under way: cancel cannot stop it, and   *)
(* it re-arms the timer.  (operation.cpp:326-395, 474.)                    *)
(***************************************************************************)
TimerStopsWithLane ==
  Calm /\ onA = None => (~armed /\ ticks = 0) \/ stray
=============================================================================
