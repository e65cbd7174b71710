------------------------------ MODULE ExitLane ------------------------------
(***************************************************************************)
(* An exit station at work: the event thread that handles the loops, the   *)
(* arm, the LPR results and what the Touch'n Go service sends, the strand  *)
(* of the loop A timer, and the PMS strand.  All of them read and write    *)
(* the one record tExit, which no lock protects; a database call or a      *)
(* sleep separates the steps below.                                        *)
(*                                                                         *)
(* A "round" is one LoopACome, as at the entry, but Clearme keeps the      *)
(* transaction id.  The id is also the order id of the payment, and the    *)
(* result of a payment is not compared with it.                            *)
(*                                                                         *)
(* An amount is named after the vehicle whose stay it pays.  The arithmetic *)
(* of fees, the kinds of season and the search of LpnMatch are left out:   *)
(* an entry record that is found is the vehicle's own.  This build never   *)
(* starts the barcode reader, so no tickets come (operation.cpp:743).  The *)
(* hold of the barrier belongs to Barrier and EntryLane.  The row of an    *)
(* exit may fail to be written; that a lookup of the entry fails and that  *)
(* an exit stored locally is uploaded later are left out (OfflineSync is   *)
(* about the rows of entries).                                             *)
(***************************************************************************)
EXTENDS Integers, Sequences

CONSTANTS
  Vehicles,     \* the vehicles that come
  MaxRounds,    \* bound: calls of LoopACome
  MaxAnswers,   \* bound: results the LPR sends for one transaction id
  MaxResults,   \* bound: results the service owes for one order at a time
  MaxDisturbances,  \* bound: vehicles, answers and results after the first,
                    \* acts of the PMS, of the operator and of the card
  MaxBehind     \* bound: events that wait for the event thread

ASSUME VehiclesAssumption ==
  {"none", "noplate", "card", "flat"} \cap Vehicles = {}
ASSUME BoundsAssumption ==
  {MaxRounds, MaxAnswers, MaxResults, MaxDisturbances, MaxBehind} \subseteq Nat

Event == "event"  \* the event thread
Timer == "timer"  \* the operation strand
Pms == "pms"      \* the strand of the PMS socket
Threads == {Event, Timer, Pms}

None == "none"        \* no vehicle, an empty string, nothing to pay
NoPlate == "noplate"  \* "0000000000"
Card == "card"        \* the number of a card
Flat == "flat"        \* the charge for a vehicle without an entry record
Numbers == Vehicles \cup {None, NoPlate, Card}
Amounts == Vehicles \cup {None, Card, Flat}
Rounds == 1..MaxRounds

VARIABLES
  road, onA, onC, arm,   \* vehicles to come, on the loops; the arm is up
  queue,                 \* events the event thread has to handle
  asked, seen,           \* per round: answers the LPR may send, what it saw
  orders, owed,          \* payments requested; per order, results to come
  pmsAsked,              \* numbers whose entry time the PMS was asked for
  lpn, iu,               \* tExit.sLPN, tExit.sIUNo
  noEntry, entryOf,      \* tExit.bNoEntryRecord; whose sEntryTime tExit has
  due, status,           \* tExit.sPaidAmt, tExit.giDeductionStatus
  transID,               \* tProcess.gsTransID, 0 for ""
  loopApresent, savedTrans, barrierOpened,  \* tProcess
  lastPaid, paidStatus,  \* gsLastPaidTrans, gbLastPaidStatus
  armed, ticks,          \* the timer is waiting; its handlers ready to run
  call,                  \* per thread: where it is and its local variables
  round, disturbances,   \* rounds and disturbances so far
  records,     \* history: the rows SaveExit had written, in order, and what
               \* became of each
  stale,       \* history: tExit holds what belongs to another vehicle
  stray,       \* history: the timer was cancelled under one of its handlers
  unwritten    \* history: numbers that became the last paid by a payment
               \* that was disturbed, or whose row was lost

world == <<road, onA, onC, arm>>
lpr == <<asked, seen>>
payment == <<orders, owed>>
exit == <<lpn, iu, noEntry, entryOf, due, status>>
process == <<transID, savedTrans, barrierOpened>>
paid == <<lastPaid, paidStatus>>
timer == <<armed, ticks>>
history == <<records, stale, stray, unwritten>>
vars == <<world, queue, lpr, payment, pmsAsked, exit, process, loopApresent,
          paid, timer, call, round, disturbances, history>>

(***************************************************************************)
(* A thread that handles something: "at" is its next step, "arg" the       *)
(* number it was called for, "fee" showFee2User's amount, "kind" why the   *)
(* exit is closed, "order" the order of the payment result in hand.  Two   *)
(* fields are history: the number it "wrote", that is handed to            *)
(* insertexittrans, and "wiped", that another thread wrote tExit or the id *)
(* meanwhile.                                                              *)
(***************************************************************************)
Idle == [at |-> "idle", arg |-> None, fee |-> None, kind |-> "none",
         order |-> 0, wrote |-> None, wiped |-> FALSE]

Init ==
  /\ road = Vehicles /\ onA = None /\ onC = None /\ arm = FALSE
  /\ queue = <<>>
  /\ asked = [r \in Rounds |-> 0] /\ seen = [r \in Rounds |-> None]
  /\ orders = <<>> /\ owed = [r \in 0..MaxRounds |-> 0] /\ pmsAsked = {}
  /\ lpn = None /\ iu = None /\ noEntry = -1 /\ entryOf = None
  /\ due = None /\ status = "init"
  /\ transID = 0 /\ loopApresent = FALSE /\ savedTrans = FALSE
  /\ barrierOpened = FALSE /\ lastPaid = None /\ paidStatus = FALSE
  /\ armed = FALSE /\ ticks = 0
  /\ call = [t \in Threads |-> Idle]
  /\ round = 0 /\ disturbances = 0
  /\ records = <<>> /\ stale = FALSE /\ stray = FALSE /\ unwritten = {}

-----------------------------------------------------------------------------
(* Steps of the threads.                                                   *)

At(t, place) == call[t].at = place
InLoopACome(t) == call[t].at \in {"come", "clear", "detect"}
InCall(t) == ~At(t, "idle") /\ ~InLoopACome(t) /\ ~At(t, "cGone")

Become(t, c) == call' = [call EXCEPT ![t] = c]
Goto(t, place) == Become(t, [call[t] EXCEPT !.at = place])

\* A call that begins between another thread's Clearme and its new id is
\* disturbed from the start.
Call(t, place, number, why) ==
  [Idle EXCEPT !.at = place, !.arg = number, !.kind = why,
               !.wiped = \E u \in Threads \ {t} : At(u, "detect")]

\* The step writes tExit or the id: calls of other threads are disturbed.
Disturb(t, c) ==
  call' = [u \in Threads |->
             IF u = t THEN c
             ELSE [call[u] EXCEPT !.wiped = @ \/ InCall(u)]]

\* A step of a call that writes tExit: it may be disturbed itself.
WriteExit(t, c) ==
  /\ Disturb(t, c)
  /\ stale' = (stale \/ call[t].wiped)
  /\ UNCHANGED <<records, stray, unwritten>>

-----------------------------------------------------------------------------
(* The lane, the camera, the payment service.                              *)

station == <<exit, process, loopApresent, paid, pmsAsked, timer, call, round,
             history>>

\* The event is put in the queue.
Happens(e) == Len(queue) < MaxBehind /\ queue' = Append(queue, e)

\* The first of its kind is free, what repeats or disturbs it is counted.
Disturbance(is) ==
  /\ is => disturbances < MaxDisturbances
  /\ disturbances' = disturbances + IF is THEN 1 ELSE 0

Arrive(v) ==
  /\ v \in road /\ onA = None /\ Disturbance(road # Vehicles)
  /\ road' = road \ {v} /\ onA' = v
  /\ Happens(<<"A_ON">>)
  /\ UNCHANGED <<onC, arm, lpr, payment, station>>

\* Through the open barrier onto loop C, or back where it came from.
DriveOn ==
  /\ onA # None /\ onC = None /\ arm
  /\ onC' = onA /\ onA' = None
  /\ Happens(<<"A_OFF">>)
  /\ UNCHANGED <<road, arm, lpr, payment, disturbances, station>>

Reverse ==
  /\ onA # None
  /\ onA' = None
  /\ Happens(<<"A_OFF">>)
  /\ UNCHANGED <<road, onC, arm, lpr, payment, disturbances, station>>

\* The arm closes behind the vehicle.
LeaveC ==
  /\ onC # None
  /\ onC' = None /\ arm' = FALSE
  /\ Happens(<<"C_OFF">>)
  /\ UNCHANGED <<road, onA, lpr, payment, disturbances, station>>

OperatorRaisesArm ==
  /\ ~arm /\ arm' = TRUE /\ Disturbance(TRUE)
  /\ Happens(<<"BARRIER_ON">>)
  /\ UNCHANGED <<road, onA, onC, lpr, payment, station>>

LprAnswers(r) ==
  /\ asked[r] > 0 /\ Disturbance(asked[r] < MaxAnswers)
  /\ asked' = [asked EXCEPT ![r] = @ - 1]
  /\ Happens(<<"LPR", r, seen[r]>>)
  /\ UNCHANGED <<world, seen, payment, station>>

\* The result of an order comes late, again, or never; a card is tapped.
ServiceAnswers(id, state) ==
  /\ owed[id] > 0 /\ Disturbance(owed[id] < MaxResults)
  /\ owed' = [owed EXCEPT ![id] = @ - 1]
  /\ Happens(<<"PAY", id, state>>)
  /\ UNCHANGED <<world, lpr, orders, station>>

CardIsTapped ==
  /\ Disturbance(TRUE)
  /\ Happens(<<"CARD">>)
  /\ UNCHANGED <<world, lpr, payment, station>>

World ==
  \/ \E v \in Vehicles : Arrive(v)
  \/ DriveOn \/ Reverse \/ LeaveC \/ OperatorRaisesArm
  \/ \E r \in Rounds : LprAnswers(r)
  \/ \E id \in 0..MaxRounds, s \in {"ok", "insufficient"} : ServiceAnswers(id, s)
  \/ CardIsTapped

-----------------------------------------------------------------------------
(* LoopACome and Clearme.                                                  *)

LoopACome(t) ==
  /\ At(t, "come") /\ round < MaxRounds
  /\ Goto(t, "clear")
  /\ armed' = TRUE
  /\ UNCHANGED <<world, queue, lpr, payment, pmsAsked, exit, process,
                 loopApresent, paid, ticks, round, disturbances, history>>

\* Mutation: the entry record is kept from the round before.
KeepEntry(t, next) ==
  /\ lpn' = None /\ iu' = None
  /\ due' = None /\ status' = "init"
  /\ savedTrans' = FALSE /\ barrierOpened' = FALSE
  /\ Disturb(t, [call[t] EXCEPT !.at = next])
  /\ stale' = FALSE
  /\ UNCHANGED <<world, queue, lpr, payment, pmsAsked, noEntry, entryOf,
                 transID, loopApresent, paid, timer, round, disturbances, records,
                 stray, unwritten>>

\* Clearme of an exit: everything but the transaction id.
Clearme(t, next) ==
  /\ lpn' = None /\ iu' = None /\ noEntry' = -1 /\ entryOf' = None
  /\ due' = None /\ status' = "init"
  /\ savedTrans' = FALSE /\ barrierOpened' = FALSE
  /\ Disturb(t, [call[t] EXCEPT !.at = next])
  /\ stale' = FALSE
  /\ UNCHANGED <<world, queue, lpr, payment, pmsAsked, transID, loopApresent,
                 paid, timer, round, disturbances, records, stray, unwritten>>

ClearForRound(t) == At(t, "clear") /\ Clearme(t, "detect")

\* Up to 500 ms of looking at loop B, then the id goes to the LPR.
SendTransID(t) ==
  /\ At(t, "detect") /\ round < MaxRounds
  /\ round' = round + 1
  /\ transID' = round + 1
  /\ asked' = [asked EXCEPT ![round + 1] = MaxAnswers]
  /\ seen' = [seen EXCEPT ![round + 1] = onA]
  /\ Disturb(t, Idle)
  /\ UNCHANGED <<world, queue, payment, pmsAsked, exit, savedTrans,
                 barrierOpened, loopApresent, paid, timer, disturbances, history>>

-----------------------------------------------------------------------------
(* The event thread takes one event at a time.                             *)

Take(e) ==
  /\ At(Event, "idle") /\ queue # <<>> /\ Head(queue) = e
  /\ queue' = Tail(queue)
  /\ UNCHANGED <<world, lpr, payment, pmsAsked, round, disturbances>>

\* cancel does not reach a handler of the timer that is under way.
StopTimer(t) ==
  /\ armed' = FALSE /\ UNCHANGED ticks
  /\ stray' = (stray \/ ticks > 0 \/ (t # Timer /\ ~At(Timer, "idle")))

LoopAOn ==
  /\ Take(<<"A_ON">>)
  /\ loopApresent' = TRUE
  /\ Goto(Event, "come")
  /\ UNCHANGED <<exit, process, paid, timer, history>>

\* Mutation: LoopAGone does not stop the timer.
KeepTimer ==
  /\ Take(<<"A_OFF">>)
  /\ loopApresent' = FALSE
  /\ UNCHANGED <<exit, process, paid, timer, call, history>>

LoopAOff ==
  /\ Take(<<"A_OFF">>)
  /\ loopApresent' = FALSE
  /\ StopTimer(Event)
  /\ UNCHANGED <<exit, process, paid, call, records, stale, unwritten>>

LoopCOff ==
  /\ Take(<<"C_OFF">>)
  /\ Goto(Event, "cGone")
  /\ UNCHANGED <<exit, process, loopApresent, paid, timer, history>>

LoopCGone ==
  /\ At(Event, "cGone")
  /\ Clearme(Event, IF loopApresent THEN "come" ELSE "idle")

\* The program did not open: the operator did, and it is written down.
BarrierStatusOn ==
  /\ Take(<<"BARRIER_ON">>)
  /\ IF barrierOpened THEN UNCHANGED call
     ELSE Become(Event, Call(Event, "save", iu, "manual"))
  /\ UNCHANGED <<exit, process, loopApresent, paid, timer, history>>

\* Mutation: an answer for the current id is always taken.
TakenAgain == TRUE

NotYetOut == iu = None /\ ~savedTrans

\* Otherwise the plate goes to the row already written (updateExitTrans), or
\* replaces the plate of a vehicle whose number is known.
ReceivedLPR(r, plate) ==
  /\ Take(<<"LPR", r, plate>>)
  /\ LET mine == plate # None /\ transID = r /\ loopApresent IN
     /\ lpn' = IF mine /\ ~savedTrans THEN plate ELSE lpn
     /\ IF mine /\ NotYetOut
        THEN Become(Event, Call(Event, "check", plate, "none"))
        ELSE UNCHANGED call
  /\ UNCHANGED <<iu, noEntry, entryOf, due, status, process, loopApresent,
                 paid, timer, history>>

CardReceived ==
  /\ Take(<<"CARD">>)
  /\ Become(Event, Call(Event, "check", Card, "none"))
  /\ UNCHANGED <<exit, process, loopApresent, paid, timer, history>>

\* DebitOK takes the number tExit holds now; the order id is not compared.
PayResult(id, state) ==
  /\ Take(<<"PAY", id, state>>)
  /\ IF state = "ok"
     THEN /\ status' = "paid" /\ lastPaid' = iu /\ paidStatus' = TRUE
          /\ Become(Event, [Call(Event, "save", iu, "paid") EXCEPT !.order = id])
     ELSE status' = "insufficient" /\ UNCHANGED <<paid, call>>
  /\ UNCHANGED <<lpn, iu, noEntry, entryOf, due, process, loopApresent, timer,
                 history>>

-----------------------------------------------------------------------------
(* CheckIUorCardStatus and PBSExit, on the event thread.                    *)

callOnly == <<world, lpr, loopApresent, timer, round, disturbances, queue, process>>

\* A number other than that of the card that had too little.
WaitForCard ==
  /\ At(Event, "check") /\ status = "insufficient"
  /\ status' = "waiting"
  /\ WriteExit(Event, call[Event])
  /\ UNCHANGED <<callOnly, payment, pmsAsked, lpn, iu, noEntry, entryOf, due,
                 paid>>

SameCardAgain ==
  /\ At(Event, "check") /\ status = "insufficient"
  /\ Become(Event, Idle)
  /\ UNCHANGED <<callOnly, payment, pmsAsked, exit, paid, history>>

\* The number that is to be paid now goes to the service under the current id.
PayRequest(amount) ==
  /\ orders' = Append(orders, [id |-> transID, amount |-> amount,
                               disturbed |-> call[Event].wiped \/ stale])
  /\ owed' = [owed EXCEPT ![transID] = MaxResults]

NoRequest == UNCHANGED payment

CheckCardOK ==
  /\ At(Event, "check") /\ status = "waiting"
  /\ \/ /\ due' = None /\ NoRequest
        /\ WriteExit(Event, [call[Event] EXCEPT !.at = "save", !.kind = "card"])
     \/ /\ IF due # None THEN PayRequest(due) ELSE NoRequest
        /\ Become(Event, Idle)
        /\ UNCHANGED <<due, history>>
  /\ UNCHANGED <<callOnly, pmsAsked, lpn, iu, noEntry, entryOf, status, paid>>

NotWaiting == At(Event, "check") /\ status \notin {"insufficient", "waiting"}

\* The number that was let out last comes again within giMaxTransInterval.
SameAsLast ==
  /\ NotWaiting /\ call[Event].arg = lastPaid
  /\ IF paidStatus
     THEN Become(Event, [call[Event] EXCEPT !.at = "open", !.kind = "again"])
     ELSE due # None /\ Become(Event, Idle)
  /\ UNCHANGED <<callOnly, payment, pmsAsked, exit, paid, history>>

\* Mutation: PBSExit does not store the number it was called with.
ForgetNumber ==
  /\ NotWaiting
  /\ Become(Event, [call[Event] EXCEPT !.at = "fetch"])
  /\ UNCHANGED <<callOnly, payment, pmsAsked, exit, paid, history>>

StartPBSExit ==
  /\ NotWaiting
  /\ LET number == call[Event].arg IN
     IF number = iu
     THEN Become(Event, Idle) /\ UNCHANGED <<iu, history>>
     ELSE iu' = number /\ WriteExit(Event, [call[Event] EXCEPT !.at = "fetch"])
  /\ UNCHANGED <<callOnly, payment, pmsAsked, lpn, noEntry, entryOf, due,
                 status, paid>>

TurnedAway ==
  /\ At(Event, "fetch")
  /\ Become(Event, Idle)
  /\ UNCHANGED <<callOnly, payment, pmsAsked, exit, paid, history>>

\* The entry record is looked up unless tExit has one already.
FetchEntryinfo ==
  /\ At(Event, "fetch")
  /\ \/ noEntry = -1 /\ noEntry' = 0 /\ entryOf' = call[Event].arg
     \/ noEntry = -1 /\ noEntry' = (IF entryOf = None THEN 1 ELSE 0)
        /\ UNCHANGED entryOf
     \/ noEntry # -1 /\ UNCHANGED <<noEntry, entryOf>>
  /\ WriteExit(Event, [call[Event] EXCEPT !.at = "season"])
  /\ UNCHANGED <<callOnly, payment, pmsAsked, lpn, iu, due, status, paid>>

SeasonParking ==
  /\ At(Event, "season")
  /\ due' = None
  /\ WriteExit(Event, [call[Event] EXCEPT !.at = "save", !.kind = "season"])
  /\ UNCHANGED <<callOnly, payment, pmsAsked, lpn, iu, noEntry, entryOf,
                 status, paid>>

\* CalFeeRAM for the entry time tExit has now, or the charge of the tariff for
\* a vehicle without one; either may be nothing.
Fees == {None, IF entryOf = None THEN Flat ELSE entryOf}

CalculateFee ==
  /\ At(Event, "season")
  /\ \E amount \in Fees :
       /\ due' = amount
       /\ WriteExit(Event, [call[Event] EXCEPT !.at = "show", !.fee = amount])
  /\ UNCHANGED <<callOnly, payment, pmsAsked, lpn, iu, noEntry, entryOf,
                 status, paid>>

AskPms ==
  /\ At(Event, "season") /\ noEntry = 1
  /\ pmsAsked' = pmsAsked \cup {[id |-> transID, number |-> call[Event].arg]}
  /\ Become(Event, Idle)
  /\ UNCHANGED <<callOnly, payment, exit, paid, history>>

\* showFee2User sleeps a second and then writes the amount it showed.
ShowFee ==
  /\ At(Event, "show")
  /\ due' = call[Event].fee
  /\ IF call[Event].fee # None
     THEN PayRequest(call[Event].fee) /\ WriteExit(Event, Idle)
     ELSE /\ NoRequest
          /\ WriteExit(Event, [call[Event] EXCEPT !.at = "save", !.kind = "free"])
  /\ UNCHANGED <<callOnly, pmsAsked, lpn, iu, noEntry, entryOf, status, paid>>

EventThread ==
  \/ LoopAOn \/ LoopAOff \/ LoopCOff \/ LoopCGone \/ BarrierStatusOn
  \/ \E r \in Rounds, p \in Vehicles \cup {None} : ReceivedLPR(r, p)
  \/ CardReceived
  \/ \E id \in 0..MaxRounds, s \in {"ok", "insufficient"} : PayResult(id, s)
  \/ WaitForCard \/ SameCardAgain \/ CheckCardOK \/ SameAsLast
  \/ StartPBSExit \/ TurnedAway \/ FetchEntryinfo \/ SeasonParking
  \/ CalculateFee \/ AskPms \/ ShowFee

-----------------------------------------------------------------------------
(* CloseExitOperation, on any thread: SaveExit, then Openbarrier.          *)

\* What becomes of the row: it is stored in the central or the local table; it
\* is, but the central update of the movement that follows fails; it is lost.
Results == {"stored", "movement", "lost"}

Row(t, result) ==
  [round |-> transID, number |-> iu, kind |-> call[t].kind, amount |-> due,
   order |-> call[t].order, result |-> result,
   disturbed |-> call[t].wiped \/ stale \/ (t = Timer /\ stray)]

\* SaveExit hands what tExit and gsTransID hold now to insertexittrans, unless
\* tExit is empty.
SaveExit(t) ==
  /\ At(t, "save")
  /\ \/ /\ iu = None
        /\ Goto(t, "open")
        /\ unwritten' = IF call[t].kind = "paid" /\ call[t].wiped
                        THEN unwritten \cup {call[t].arg} ELSE unwritten
        /\ UNCHANGED records
     \/ \E result \in Results :
          /\ iu # None
          /\ Become(t, [call[t] EXCEPT
                         !.at = IF result = "stored" THEN "saved" ELSE "failed",
                         !.wrote = iu])
          /\ records' = Append(records, Row(t, result))
          /\ unwritten' =
               IF call[t].kind = "paid" /\ (call[t].wiped \/ result = "lost")
               THEN unwritten \cup {call[t].arg} ELSE unwritten
  /\ UNCHANGED <<callOnly, payment, pmsAsked, exit, paid, stale, stray>>

\* Mutation: the result of the insert is not looked at.
RememberAnyway(t) ==
  /\ call[t].at \in {"saved", "failed"}
  /\ lastPaid' = iu
  /\ unwritten' = IF call[t].wiped THEN unwritten \cup {iu} ELSE unwritten
  /\ paidStatus' = (paidStatus \/ due = None)
  /\ savedTrans' = TRUE
  /\ Goto(t, "open")
  /\ UNCHANGED <<world, queue, lpr, payment, pmsAsked, exit, transID,
                 barrierOpened, loopApresent, timer, round, disturbances, records,
                 stale, stray>>

\* The number is remembered when nothing failed, the rest is done either way.
SetSaved(t) ==
  /\ \/ /\ At(t, "saved")
        /\ lastPaid' = iu
        /\ unwritten' = IF call[t].wiped THEN unwritten \cup {iu} ELSE unwritten
     \/ At(t, "failed") /\ UNCHANGED <<lastPaid, unwritten>>
  /\ paidStatus' = (paidStatus \/ due = None)
  /\ savedTrans' = TRUE
  /\ Goto(t, "open")
  /\ UNCHANGED <<world, queue, lpr, payment, pmsAsked, exit, transID,
                 barrierOpened, loopApresent, timer, round, disturbances, records,
                 stale, stray>>

\* The timer, the flag, the pulse; the arm rises if it was down.
Openbarrier(t) ==
  /\ At(t, "open")
  /\ StopTimer(t)
  /\ barrierOpened' = TRUE
  /\ arm' = TRUE
  /\ queue' = IF arm THEN queue ELSE Append(queue, <<"BARRIER_ON">>)
  /\ Become(t, Idle)
  /\ UNCHANGED <<road, onA, onC, lpr, payment, pmsAsked, exit, transID,
                 savedTrans, loopApresent, paid, round, disturbances, records,
                 stale, unwritten>>

Step(t) ==
  \/ LoopACome(t) \/ ClearForRound(t) \/ SendTransID(t)
  \/ SaveExit(t) \/ SetSaved(t) \/ Openbarrier(t)

-----------------------------------------------------------------------------
(* The timer strand.  LoopACome takes half a second, the two timeouts      *)
(* many: when one has passed, nobody is inside LoopACome.                  *)

timerOnly == <<world, queue, lpr, payment, pmsAsked, process, loopApresent,
               paid, round, disturbances>>

\* Mutation: a second handler can be queued behind the first.
HandlersPileUp ==
  /\ armed
  /\ armed' = FALSE /\ ticks' = ticks + 1
  /\ UNCHANGED <<timerOnly, exit, call, history>>

\* Assumption: a handler runs before the timer's next second is over.
TimerExpires ==
  /\ armed /\ ticks = 0
  /\ armed' = FALSE /\ ticks' = 1
  /\ UNCHANGED <<timerOnly, exit, call, history>>

Handler ==
  /\ At(Timer, "idle") /\ ticks = 1
  /\ ticks' = 0

LongAgo == \A t \in Threads : call[t].at \notin {"clear", "detect"}

OperationTimeout ==
  /\ Handler /\ LongAgo
  /\ Goto(Timer, "come")
  /\ UNCHANGED <<timerOnly, armed, exit, history>>

\* Nobody could read the plate: the vehicle is let out under "0000000000".
LpnTimeout ==
  /\ Handler /\ LongAgo
  /\ lpn = None /\ iu = None
  /\ lpn' = NoPlate /\ iu' = NoPlate
  /\ Disturb(Timer, Call(Timer, "save", NoPlate, "noplate"))
  /\ UNCHANGED <<timerOnly, armed, noEntry, entryOf, due, status, history>>

WaitAnotherSecond ==
  /\ Handler
  /\ armed' = TRUE
  /\ UNCHANGED <<timerOnly, exit, call, history>>

TimerStrand ==
  TimerExpires \/ OperationTimeout \/ LpnTimeout \/ WaitAnotherSecond

-----------------------------------------------------------------------------
(* The PMS strand.                                                         *)

CmdOpenBarrier ==
  /\ At(Pms, "idle") /\ Disturbance(TRUE)
  /\ Become(Pms, Call(Pms, "save", iu, "manual"))
  /\ UNCHANGED <<world, queue, lpr, payment, pmsAsked, exit, process,
                 loopApresent, paid, timer, round, history>>

\* The PMS knows an entry time.  The answer names its vehicle; nobody looks.
CmdTimeForNoEntry(q) ==
  /\ At(Pms, "idle") /\ q \in pmsAsked
  /\ pmsAsked' = pmsAsked \ {q}
  /\ IF loopApresent
     THEN /\ entryOf' = q.number /\ noEntry' = 0
          /\ Disturb(Pms, Call(Pms, "fee", q.number, "none"))
          /\ stale' = (stale \/ q # [id |-> transID, number |-> iu])
     ELSE UNCHANGED <<entryOf, noEntry, call, stale>>
  /\ UNCHANGED <<world, queue, lpr, payment, lpn, iu, due, status, process,
                 loopApresent, paid, timer, round, disturbances, records, stray,
                 unwritten>>

\* ReceivedEntryRecord: the fee, showFee2User, then the card or the barrier.
ReceivedEntryRecord ==
  /\ At(Pms, "fee")
  /\ \E amount \in Fees :
       /\ due' = amount
       /\ WriteExit(Pms, [call[Pms] EXCEPT !.at = "show", !.fee = amount])
  /\ UNCHANGED <<callOnly, payment, pmsAsked, lpn, iu, noEntry, entryOf,
                 status, paid>>

ShowFeeForPms ==
  /\ At(Pms, "show")
  /\ due' = call[Pms].fee
  /\ IF call[Pms].fee # None
     THEN status' = "waiting" /\ WriteExit(Pms, Idle)
     ELSE /\ UNCHANGED status
          /\ WriteExit(Pms, [call[Pms] EXCEPT !.at = "save", !.kind = "free"])
  /\ UNCHANGED <<callOnly, payment, pmsAsked, lpn, iu, noEntry, entryOf, paid>>

PmsStrand ==
  \/ CmdOpenBarrier \/ ReceivedEntryRecord \/ ShowFeeForPms
  \/ \E q \in pmsAsked : CmdTimeForNoEntry(q)

-----------------------------------------------------------------------------
Next ==
  \/ World \/ EventThread \/ TimerStrand \/ PmsStrand
  \/ \E t \in Threads : Step(t)

SafeSpec == Init /\ [][Next]_vars

-----------------------------------------------------------------------------
\* The variables have their types.
TypeOK ==
  /\ road \subseteq Vehicles /\ {onA, onC} \subseteq Vehicles \cup {None}
  /\ {lpn, iu, entryOf, lastPaid} \subseteq Numbers /\ due \in Amounts
  /\ asked \in [Rounds -> 0..MaxAnswers] /\ seen \in [Rounds -> Vehicles \cup {None}]
  /\ owed \in [0..MaxRounds -> 0..MaxResults]
  /\ pmsAsked \subseteq [id : 0..MaxRounds, number : Numbers]
  /\ noEntry \in {-1, 0, 1}
  /\ status \in {"init", "waiting", "insufficient", "paid"}
  /\ {transID, round} \subseteq 0..MaxRounds /\ disturbances \in 0..MaxDisturbances
  /\ {arm, loopApresent, savedTrans, barrierOpened, paidStatus, armed, stale,
      stray} \subseteq BOOLEAN
  /\ ticks \in 0..1 /\ unwritten \subseteq Numbers
  /\ call \in [Threads ->
       [at : {"idle", "come", "clear", "detect", "cGone", "check", "fetch",
              "season", "fee", "show", "save", "saved", "failed", "open"},
        arg : Numbers, fee : Amounts,
        kind : {"none", "manual", "paid", "card", "again", "season", "free",
                "noplate"},
        order : 0..MaxRounds, wrote : Numbers, wiped : BOOLEAN]]

(***************************************************************************)
(* Free parking, season parking and "no plate" open the barrier only after *)
(* the number that was checked was handed to insertexittrans, unless       *)
(* another thread wrote tExit under the call or it belongs to another      *)
(* vehicle already.  The barrier opens even if that insert fails.          *)
(* (operation.cpp:2596-2727, 2745, 2759-2777, 2874-2875.)                  *)
(***************************************************************************)
OpensOnRecord ==
  \A t \in Threads :
    At(t, "open") /\ call[t].kind \in {"season", "free", "noplate"}
      => call[t].wrote = call[t].arg \/ call[t].wiped \/ stale

\* Another thread had its hands in the row or in the order it pays.
Disturbed(rec) ==
  rec.disturbed
  \/ \E i \in DOMAIN orders : orders[i].id = rec.order /\ orders[i].disturbed

(***************************************************************************)
(* When a payment of its own round is the first to close the round, the    *)
(* row is of the vehicle the camera saw in that round, and its amount is   *)
(* that of its own stay, or the flat one, as requested under that order.   *)
(* Nothing is promised for the result of an earlier round.                 *)
(* (operation.cpp:2311-2318, 2481-2586, 2701-2709, 3430-3434.)             *)
(***************************************************************************)
PaymentIsOfItsVehicle ==
  \A i \in DOMAIN records :
    LET rec == records[i] IN
    /\ rec.kind = "paid" /\ rec.order = rec.round
    /\ rec.number \in Vehicles /\ ~Disturbed(rec)
    /\ \A j \in 1..(i - 1) : records[j].round # rec.round
    => /\ rec.number = seen[rec.round]
       /\ rec.amount \in {rec.number, Flat}
       /\ \E j \in DOMAIN orders :
            orders[j].id = rec.order /\ orders[j].amount = rec.amount

(***************************************************************************)
(* The vehicle that is let out as "same as last" has a row in a database,  *)
(* unless the call that remembered it was disturbed, or it paid and the    *)
(* row of that payment was lost: DebitOK remembers the number before       *)
(* SaveExit writes the row, SaveExit itself only after it was stored.      *)
(* (operation.cpp:2311-2312, 2428-2443, 2759-2775.)                        *)
(***************************************************************************)
LastPaidIsRecorded ==
  At(Event, "open") /\ call[Event].kind = "again"
    => \/ call[Event].arg \in unwritten
       \/ \E i \in DOMAIN records : /\ records[i].number = call[Event].arg
                                     /\ records[i].result # "lost"

(***************************************************************************)
(* The timer lets a vehicle without a plate out only while one stands on   *)
(* loop A, unless the loop was left, or the barrier opened, while a        *)
(* handler of the timer was under way.  (operation.cpp:326-395, 474, 523.) *)
(***************************************************************************)
NoPlateOpensForVehicle == At(Timer, "open") => loopApresent \/ stray

(***************************************************************************)
(* Without cards and other disturbances a transaction id is closed once,   *)
(* by hand apart, and asks for one payment.  Two threads can both get to   *)
(* the end of an exit; then one has disturbed the other.  A result of an   *)
(* earlier order counts for its own id, and the service's second result    *)
(* for one order closes it again.                                          *)
(* (operation.cpp:2272-2283, 2459, 2708.)                                  *)
(***************************************************************************)
ClosedOnce ==
  \A i, j \in DOMAIN records :
    /\ i # j /\ records[i].round = records[j].round
    /\ "manual" \notin {records[i].kind, records[j].kind}
    /\ \A r \in {records[i], records[j]} : r.order \in {0, r.round}
    /\ records[i].order = records[j].order => records[i].order = 0
    => Disturbed(records[i]) \/ Disturbed(records[j])

AskedOnce ==
  \A i, j \in DOMAIN orders :
    i # j /\ orders[i].id = orders[j].id
      => orders[i].disturbed \/ orders[j].disturbed

OneExitPerRound == disturbances = 0 => ClosedOnce /\ AskedOnce
=============================================================================
