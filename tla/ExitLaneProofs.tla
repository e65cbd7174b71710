--------------------------- MODULE ExitLaneProofs ---------------------------
(***************************************************************************)
(* What is proved of the exit lane, for any vehicles and bounds: its types *)
(* (TypeCorrect), and the five things it promises of the vehicles it lets  *)
(* out (ExitsAreRecorded, NoPlateIsOfAVehicle, SameAsLastHasARow,          *)
(* PaymentsAreOfTheirVehicles and RoundsExitOnce).                         *)
(*                                                                         *)
(* First the types, action by action.  Then, for every action, what it     *)
(* does to calls, ids, books and tExit in plain terms (the lemmas whose    *)
(* name ends in Says): from there on no proof sees a record being updated. *)
(* Then one invariant per theorem.  That of the payments is a chain, from  *)
(* the numbers of the rounds to the rows, and that of RoundsExitOnce goes  *)
(* on from there: what one vehicle alone can do to the lane, and that no   *)
(* more than one of the calls, questions, orders and rows it leads to has  *)
(* a claim to close its round.                                             *)
(***************************************************************************)
EXTENDS ExitLane, TLAPS

Places == {"idle", "come", "clear", "detect", "cGone", "check", "fetch",
           "season", "fee", "show", "save", "saved", "failed", "open"}
Kinds == {"none", "manual", "paid", "card", "again", "season", "free", "noplate"}
Calls == [at : Places, arg : Numbers, fee : Amounts, kind : Kinds,
          order : 0..MaxRounds, wrote : Numbers, wiped : BOOLEAN]
Events ==
  {<<"A_ON">>, <<"A_OFF">>, <<"C_OFF">>, <<"BARRIER_ON">>, <<"CARD">>}
  \cup {<<"LPR", r, p>> : r \in Rounds, p \in Vehicles \cup {None}}
  \cup {<<"PAY", id, s>> : id \in 0..MaxRounds, s \in {"ok", "insufficient"}}
Orders == [id : 0..MaxRounds, amount : Amounts, disturbed : BOOLEAN]
Rows == [round : 0..MaxRounds, number : Numbers, kind : Kinds, amount : Amounts,
         order : 0..MaxRounds, result : Results, disturbed : BOOLEAN]

\* What the camera or the reader can give: no empty number, no "0000000000".
Plain == Vehicles \cup {Card}

-----------------------------------------------------------------------------
(***************************************************************************)
(* The three threads, and what a step does to their calls.                 *)
(***************************************************************************)
LEMMA TheThreads ==
  /\ Event \in Threads /\ Timer \in Threads /\ Pms \in Threads
  /\ Event # Timer /\ Event # Pms /\ Timer # Pms
  /\ \A t \in Threads : t = Event \/ t = Timer \/ t = Pms
  BY DEF Threads, Event, Timer, Pms

LEMMA TheNumbers ==
  /\ None \notin Vehicles /\ NoPlate \notin Vehicles
  /\ Card \notin Vehicles /\ Flat \notin Vehicles
  /\ None # NoPlate /\ None # Card /\ None # Flat /\ NoPlate # Card
  /\ NoPlate # Flat /\ Card # Flat
  /\ None \notin Plain /\ NoPlate \notin Plain
  /\ Plain \subseteq Numbers /\ Plain \subseteq Amounts
  /\ None \in Numbers /\ NoPlate \in Numbers /\ None \in Amounts /\ Flat \in Amounts
<1>1. "none" \notin Vehicles /\ "noplate" \notin Vehicles /\ "card" \notin Vehicles
      /\ "flat" \notin Vehicles
  BY VehiclesAssumption
<1> QED
  BY <1>1 DEF None, NoPlate, Card, Flat, Plain, Numbers, Amounts

LEMMA TheBounds ==
  /\ MaxRounds \in Nat /\ MaxAnswers \in Nat /\ MaxResults \in Nat
  /\ MaxDisturbances \in Nat
  BY BoundsAssumption

USE TheBounds

\* Only the call of the thread changes.
LEMMA Becomes ==
  ASSUME call \in [Threads -> Calls], NEW t \in Threads, NEW c \in Calls, Become(t, c)
  PROVE  /\ call' \in [Threads -> Calls] /\ call'[t] = c
         /\ \A u \in Threads : u # t => call'[u] = call[u]
  BY DEF Become

\* A call that goes on keeps everything but its place.
LEMMA Goes ==
  ASSUME call \in [Threads -> Calls], NEW t \in Threads, NEW place \in Places,
         Goto(t, place)
  PROVE  /\ call' \in [Threads -> Calls]
         /\ call'[t] = [call[t] EXCEPT !.at = place]
         /\ \A u \in Threads : u # t => call'[u] = call[u]
<1>1. [call[t] EXCEPT !.at = place] \in Calls
  BY DEF Calls
<1> QED
  BY <1>1, Becomes DEF Goto

\* The calls of the others are marked, if they are under way, and stay.
Marked(u) ==
  /\ call'[u].at = call[u].at /\ call'[u].arg = call[u].arg
  /\ call'[u].fee = call[u].fee /\ call'[u].kind = call[u].kind
  /\ call'[u].order = call[u].order /\ call'[u].wrote = call[u].wrote
  /\ call[u].wiped \/ InCall(u) => call'[u].wiped

LEMMA Disturbs ==
  ASSUME call \in [Threads -> Calls], NEW t \in Threads, NEW c \in Calls,
         Disturb(t, c)
  PROVE  /\ call' \in [Threads -> Calls] /\ call'[t] = c
         /\ \A u \in Threads : u # t => Marked(u)
<1> DEFINE m(u) == call[u].wiped \/ InCall(u)
<1>1. \A u \in Threads : m(u) \in BOOLEAN
  BY Zenon
<1>2. \A u \in Threads : u # t => call'[u] = [call[u] EXCEPT !.wiped = m(u)]
  BY Zenon DEF Disturb
<1>3. call'[t] = c
  BY Zenon DEF Disturb
<1>4. call' = [u \in Threads |-> call'[u]]
  BY Zenon DEF Disturb
<1>5. \A u \in Threads : m(u) <=> (call[u].wiped \/ InCall(u))
  OBVIOUS
<1> HIDE DEF m
<1>6. \A u \in Threads : u # t =>
        /\ call'[u] \in Calls
        /\ call'[u].at = call[u].at /\ call'[u].arg = call[u].arg
        /\ call'[u].fee = call[u].fee /\ call'[u].kind = call[u].kind
        /\ call'[u].order = call[u].order /\ call'[u].wrote = call[u].wrote
        /\ call'[u].wiped = m(u)
  <2> SUFFICES ASSUME NEW u \in Threads, u # t
               PROVE  /\ call'[u] \in Calls
                      /\ call'[u].at = call[u].at /\ call'[u].arg = call[u].arg
                      /\ call'[u].fee = call[u].fee /\ call'[u].kind = call[u].kind
                      /\ call'[u].order = call[u].order
                      /\ call'[u].wrote = call[u].wrote /\ call'[u].wiped = m(u)
    OBVIOUS
  <2>1. PICK b \in BOOLEAN : b = m(u)
    BY <1>1
  <2>2. call[u] \in Calls /\ call'[u] = [call[u] EXCEPT !.wiped = b]
    BY <1>2, <2>1
  <2> QED
    BY <2>1, <2>2 DEF Calls
<1>7. call' \in [Threads -> Calls]
  BY <1>3, <1>4, <1>6
<1>8. \A u \in Threads : u # t => Marked(u)
  BY <1>5, <1>6, Zenon DEF Marked
<1> QED
  BY <1>3, <1>7, <1>8

\* A new call.
LEMMA Begins ==
  ASSUME NEW t \in Threads, NEW place \in Places, NEW number \in Numbers,
         NEW why \in Kinds, NEW c, c = Call(t, place, number, why)
  PROVE  /\ c \in Calls /\ c.at = place /\ c.arg = number /\ c.kind = why
         /\ c.order = 0
         /\ (\E u \in Threads \ {t} : At(u, "detect")) => c.wiped
         /\ c.wiped => \E u \in Threads \ {t} : At(u, "detect")
<1> DEFINE w == \E u \in Threads \ {t} : At(u, "detect")
<1>1. w \in BOOLEAN
  BY Zenon
<1>2. c = [at |-> place, arg |-> number, fee |-> None, kind |-> why, order |-> 0,
           wrote |-> None, wiped |-> w]
  BY Zenon DEF Call, Idle
<1>3. w <=> \E u \in Threads \ {t} : At(u, "detect")
  OBVIOUS
<1> HIDE DEF w
<1>4. c.wiped = w
  BY <1>2
<1>5. /\ c \in Calls /\ c.at = place /\ c.arg = number /\ c.kind = why
      /\ c.order = 0
  BY <1>1, <1>2, TheNumbers DEF Calls
<1> QED
  BY <1>3, <1>4, <1>5, Zenon

LEMMA IdleIsACall == Idle \in Calls /\ Idle.at = "idle"
  BY TheNumbers DEF Idle, Calls, Places, Kinds

-----------------------------------------------------------------------------
(***************************************************************************)
(* Types.  No entry record is of "0000000000", nor is the PMS asked for    *)
(* it: that number only ever comes from the timer and goes straight to     *)
(* SaveExit.  Without this the amount would have no type.                  *)
(***************************************************************************)
LaneTyped ==
  /\ road \subseteq Vehicles
  /\ onA \in Vehicles \cup {None} /\ onC \in Vehicles \cup {None}
  /\ queue \in Seq(Events)
  /\ asked \in [Rounds -> 0..MaxAnswers]
  /\ seen \in [Rounds -> Vehicles \cup {None}]
  /\ owed \in [0..MaxRounds -> 0..MaxResults]
  /\ transID \in 0..MaxRounds /\ round \in 0..MaxRounds
  /\ disturbances \in 0..MaxDisturbances /\ ticks \in 0..1
  /\ arm \in BOOLEAN /\ loopApresent \in BOOLEAN /\ armed \in BOOLEAN

ExitTyped ==
  /\ lpn \in Numbers /\ iu \in Numbers /\ lastPaid \in Numbers
  /\ entryOf \in Numbers \ {NoPlate} /\ due \in Amounts
  /\ noEntry \in {-1, 0, 1}
  /\ status \in {"init", "waiting", "insufficient", "paid"}
  /\ savedTrans \in BOOLEAN /\ barrierOpened \in BOOLEAN /\ paidStatus \in BOOLEAN
  /\ pmsAsked \subseteq [id : 0..MaxRounds, number : Plain]

BooksTyped ==
  /\ orders \in Seq(Orders) /\ records \in Seq(Rows)
  /\ unwritten \subseteq Numbers
  /\ stale \in BOOLEAN /\ stray \in BOOLEAN

\* Where each thread can be, and with what.
CallsTyped ==
  /\ call \in [Threads -> Calls]
  /\ call[Event].at # "fee"
  /\ call[Timer].at \in {"idle", "come", "clear", "detect", "save", "saved", "failed", "open"}
  /\ call[Pms].at \in {"idle", "fee", "show", "save", "saved", "failed", "open"}
  /\ call[Event].at \in {"check", "fetch", "season", "show"} => call[Event].arg \in Plain
  /\ call[Pms].at \in {"fee", "show"} => call[Pms].arg \in Plain
  /\ call[Timer].at = "save" => call[Timer].kind = "noplate"
  /\ call[Pms].at = "save" => call[Pms].kind \in {"manual", "free"}

Typed == LaneTyped /\ ExitTyped /\ BooksTyped /\ CallsTyped

LEMMA TypedImpliesTypeOK == Typed => TypeOK
<1> SUFFICES ASSUME Typed PROVE TypeOK
  OBVIOUS
<1>1. {arm, loopApresent, savedTrans, barrierOpened, paidStatus, armed, stale,
       stray} \subseteq BOOLEAN
  BY DEF Typed, LaneTyped, ExitTyped, BooksTyped
<1>2. pmsAsked \subseteq [id : 0..MaxRounds, number : Numbers]
  BY TheNumbers DEF Typed, ExitTyped
<1>3. call \in [Threads ->
       [at : {"idle", "come", "clear", "detect", "cGone", "check", "fetch",
              "season", "fee", "show", "save", "saved", "failed", "open"},
        arg : Numbers, fee : Amounts,
        kind : {"none", "manual", "paid", "card", "again", "season", "free",
                "noplate"},
        order : 0..MaxRounds, wrote : Numbers, wiped : BOOLEAN]]
  BY DEF Typed, CallsTyped, Calls, Places, Kinds
<1> QED
  BY <1>1, <1>2, <1>3 DEF Typed, LaneTyped, ExitTyped, BooksTyped, TypeOK

\* The queue: what is appended is an event, and taking leaves events.
LEMMA Queued ==
  ASSUME queue \in Seq(Events), NEW e \in Events, Happens(e)
  PROVE  queue' \in Seq(Events)
  BY DEF Happens

LEMMA EventsOfTheLane ==
  /\ <<"A_ON">> \in Events /\ <<"A_OFF">> \in Events /\ <<"C_OFF">> \in Events
  /\ <<"BARRIER_ON">> \in Events /\ <<"CARD">> \in Events
  /\ \A r \in Rounds, p \in Vehicles \cup {None} : <<"LPR", r, p>> \in Events
  /\ \A id \in 0..MaxRounds, s \in {"ok", "insufficient"} : <<"PAY", id, s>> \in Events
<1>1. \A id \in 0..MaxRounds, s \in {"ok", "insufficient"} : <<"PAY", id, s>> \in Events
  BY SMT DEF Events
<1>2. \A r \in Rounds, p \in Vehicles \cup {None} : <<"LPR", r, p>> \in Events
  BY SMT DEF Events
<1> QED
  BY <1>1, <1>2 DEF Events

LEMMA Counted ==
  ASSUME disturbances \in 0..MaxDisturbances, NEW is \in BOOLEAN, Disturbance(is)
  PROVE  disturbances' \in 0..MaxDisturbances
<1>1. CASE is
  BY <1>1 DEF Disturbance
<1>2. CASE ~is
  BY <1>2 DEF Disturbance
<1> QED
  BY <1>1, <1>2

\* The lane, the camera and the service.
LEMMA WorldKeepsTyped ==
  ASSUME Typed, World
  PROVE  Typed'
<1> USE DEF Typed, LaneTyped
<1> SUFFICES LaneTyped' /\ ExitTyped' /\ BooksTyped' /\ CallsTyped'
  OBVIOUS
<1>0. UNCHANGED <<station, orders>>
  BY DEF World, Arrive, DriveOn, Reverse, LeaveC, OperatorRaisesArm, LprAnswers,
     ServiceAnswers, CardIsTapped, payment
<1>1. ExitTyped' /\ BooksTyped' /\ CallsTyped'
  BY <1>0 DEF ExitTyped, BooksTyped, CallsTyped, station, exit, process, paid, history
<1>2. UNCHANGED <<transID, round, ticks, loopApresent, armed>>
  BY <1>0 DEF station, process, timer
<1>3. ASSUME NEW v \in Vehicles, Arrive(v) PROVE LaneTyped'
  BY <1>2, <1>3, Queued, Counted, EventsOfTheLane DEF Arrive, lpr, payment
<1>4. ASSUME DriveOn PROVE LaneTyped'
  BY <1>2, <1>4, Queued, Counted, EventsOfTheLane DEF DriveOn, lpr, payment
<1>5. ASSUME Reverse PROVE LaneTyped'
  BY <1>2, <1>5, Queued, Counted, EventsOfTheLane DEF Reverse, lpr, payment
<1>6. ASSUME LeaveC PROVE LaneTyped'
  BY <1>2, <1>6, Queued, Counted, EventsOfTheLane DEF LeaveC, lpr, payment
<1>7. ASSUME OperatorRaisesArm PROVE LaneTyped'
  BY <1>2, <1>7, Queued, Counted, EventsOfTheLane DEF OperatorRaisesArm, lpr, payment
<1>8. ASSUME NEW r \in Rounds, LprAnswers(r) PROVE LaneTyped'
  <2>1. seen[r] \in Vehicles \cup {None}
    OBVIOUS
  <2>2. <<"LPR", r, seen[r]>> \in Events
    BY <2>1, EventsOfTheLane
  <2>3. queue' \in Seq(Events)
    BY <1>8, <2>2, Queued DEF LprAnswers
  <2>4. disturbances' \in 0..MaxDisturbances
    <3>1. CASE asked[r] < MaxAnswers
      BY <1>8, <3>1 DEF LprAnswers, Disturbance
    <3>2. CASE ~(asked[r] < MaxAnswers)
      BY <1>8, <3>2 DEF LprAnswers, Disturbance
    <3> QED
      BY <3>1, <3>2
  <2>5. asked' \in [Rounds -> 0..MaxAnswers]
    BY <1>8 DEF LprAnswers
  <2> QED
    BY <1>2, <1>8, <2>3, <2>4, <2>5 DEF LprAnswers, world, payment
<1>9. ASSUME NEW id \in 0..MaxRounds, NEW s \in {"ok", "insufficient"},
             ServiceAnswers(id, s)
      PROVE  LaneTyped'
  <2>1. <<"PAY", id, s>> \in Events
    BY EventsOfTheLane
  <2>3. queue' \in Seq(Events)
    BY <1>9, <2>1, Queued DEF ServiceAnswers
  <2>4. disturbances' \in 0..MaxDisturbances
    <3>1. CASE owed[id] < MaxResults
      BY <1>9, <3>1 DEF ServiceAnswers, Disturbance
    <3>2. CASE ~(owed[id] < MaxResults)
      BY <1>9, <3>2 DEF ServiceAnswers, Disturbance
    <3> QED
      BY <3>1, <3>2
  <2>5. owed' \in [0..MaxRounds -> 0..MaxResults]
    <3>1. owed[id] \in 0..MaxResults /\ owed[id] > 0
      BY <1>9 DEF ServiceAnswers
    <3>2. owed[id] - 1 \in 0..MaxResults /\ owed' = [owed EXCEPT ![id] = owed[id] - 1]
      BY <1>9, <3>1 DEF ServiceAnswers
    <3> QED
      BY <3>2
  <2> QED
    BY <1>2, <1>9, <2>3, <2>4, <2>5 DEF ServiceAnswers, world, lpr
<1>10. ASSUME CardIsTapped PROVE LaneTyped'
  BY <1>2, <1>10, Queued, Counted, EventsOfTheLane DEF CardIsTapped, world, lpr, payment
<1> QED
  BY <1>1, <1>3, <1>4, <1>5, <1>6, <1>7, <1>8, <1>9, <1>10 DEF World

\* LoopACome and Clearme.
LEMMA LoopAComeKeepsTyped ==
  ASSUME Typed, NEW t \in Threads, LoopACome(t)
  PROVE  Typed'
<1>1. /\ call' \in [Threads -> Calls] /\ call'[t] = [call[t] EXCEPT !.at = "clear"]
      /\ \A u \in Threads : u # t => call'[u] = call[u]
  BY Goes DEF LoopACome, Places, Typed, CallsTyped
<1>2. call'[t].at = "clear" /\ t # Pms
  BY <1>1, TheThreads DEF Calls, LoopACome, At, Typed, CallsTyped
<1>3. CallsTyped'
  BY <1>1, <1>2, TheThreads DEF Typed, CallsTyped
<1> QED
  BY <1>3 DEF LoopACome, Typed, LaneTyped, ExitTyped, BooksTyped, world, lpr,
     payment, exit, process, paid, history

\* What the calls of others keep when a step disturbs them.
LEMMA DisturbKeepsCallsTyped ==
  ASSUME CallsTyped, NEW t \in Threads, NEW c \in Calls, Disturb(t, c),
         t = Event => /\ c.at # "fee"
                      /\ c.at \in {"check", "fetch", "season", "show"} => c.arg \in Plain,
         t = Timer => /\ c.at \in {"idle", "come", "clear", "detect", "save", "saved", "failed", "open"}
                      /\ c.at = "save" => c.kind = "noplate",
         t = Pms => /\ c.at \in {"idle", "fee", "show", "save", "saved", "failed", "open"}
                    /\ c.at \in {"fee", "show"} => c.arg \in Plain
                    /\ c.at = "save" => c.kind \in {"manual", "free"}
  PROVE  CallsTyped'
<1>1. /\ call' \in [Threads -> Calls] /\ call'[t] = c
      /\ \A u \in Threads : u # t => Marked(u)
  BY Disturbs DEF CallsTyped
<1>2. ASSUME NEW u \in Threads, u # t
      PROVE  call'[u].at = call[u].at /\ call'[u].arg = call[u].arg
             /\ call'[u].kind = call[u].kind
  BY <1>1, <1>2 DEF Marked
<1> QED
  BY <1>1, <1>2, TheThreads DEF CallsTyped

LEMMA BecomeKeepsCallsTyped ==
  ASSUME CallsTyped, NEW t \in Threads, NEW c \in Calls, Become(t, c),
         t = Event => /\ c.at # "fee"
                      /\ c.at \in {"check", "fetch", "season", "show"} => c.arg \in Plain,
         t = Timer => /\ c.at \in {"idle", "come", "clear", "detect", "save", "saved", "failed", "open"}
                      /\ c.at = "save" => c.kind = "noplate",
         t = Pms => /\ c.at \in {"idle", "fee", "show", "save", "saved", "failed", "open"}
                    /\ c.at \in {"fee", "show"} => c.arg \in Plain
                    /\ c.at = "save" => c.kind \in {"manual", "free"}
  PROVE  CallsTyped'
<1>1. /\ call' \in [Threads -> Calls] /\ call'[t] = c
      /\ \A u \in Threads : u # t => call'[u] = call[u]
  BY Becomes DEF CallsTyped
<1> QED
  BY <1>1, TheThreads DEF CallsTyped

\* A call that is put somewhere else, with its number.
LEMMA Moved ==
  ASSUME NEW c \in Calls, NEW place \in Places
  PROVE  /\ [c EXCEPT !.at = place] \in Calls
         /\ [c EXCEPT !.at = place].at = place
         /\ [c EXCEPT !.at = place].arg = c.arg
         /\ [c EXCEPT !.at = place].kind = c.kind
         /\ [c EXCEPT !.at = place].wiped = c.wiped
         /\ [c EXCEPT !.at = place].fee = c.fee
         /\ [c EXCEPT !.at = place].order = c.order
         /\ [c EXCEPT !.at = place].wrote = c.wrote
  BY DEF Calls

LEMMA ClearmeKeepsTyped ==
  ASSUME Typed, NEW t \in Threads, t # Pms, Clearme(t, "detect")
         \/ (t = Event /\ (Clearme(t, "come") \/ Clearme(t, "idle")))
  PROVE  Typed'
<1>1. PICK next \in {"detect", "come", "idle"} : Clearme(t, next)
  OBVIOUS
<1>2. /\ call[t] \in Calls /\ next \in Places
      /\ Disturb(t, [call[t] EXCEPT !.at = next])
  BY <1>1 DEF Clearme, Typed, CallsTyped, Places
<1>3. CallsTyped'
  BY <1>1, <1>2, Moved, DisturbKeepsCallsTyped, TheThreads DEF Typed
<1>4. LaneTyped'
  BY <1>1 DEF Clearme, Typed, LaneTyped, world, lpr, payment, timer
<1>5. ExitTyped' /\ BooksTyped'
  BY <1>1, TheNumbers DEF Clearme, Typed, ExitTyped, BooksTyped, paid, payment
<1> QED
  BY <1>3, <1>4, <1>5 DEF Typed

LEMMA SendKeepsTyped ==
  ASSUME Typed, NEW t \in Threads, SendTransID(t)
  PROVE  Typed'
<1>1. /\ round \in 0..MaxRounds /\ round < MaxRounds
      /\ round + 1 \in 0..MaxRounds
  BY DEF SendTransID, Typed, LaneTyped
<1>2. CallsTyped'
  <2>1. Disturb(t, Idle) /\ Idle.at = "idle" /\ Idle \in Calls
    BY IdleIsACall DEF SendTransID
  <2> QED
    BY <2>1, DisturbKeepsCallsTyped DEF Typed
<1>3. asked' \in [Rounds -> 0..MaxAnswers] /\ seen' \in [Rounds -> Vehicles \cup {None}]
  <2>1. MaxAnswers \in 0..MaxAnswers
    OBVIOUS
  <2> QED
    BY <2>1 DEF SendTransID, Typed, LaneTyped
<1>4. LaneTyped'
  BY <1>1, <1>3 DEF SendTransID, Typed, LaneTyped, world, payment, timer
<1>5. ExitTyped' /\ BooksTyped'
  BY DEF SendTransID, Typed, ExitTyped, BooksTyped, exit, paid, payment, history
<1> QED
  BY <1>2, <1>4, <1>5 DEF Typed

\* Taking an event.
LEMMA TakeKeepsTyped ==
  ASSUME Typed, NEW e, Take(e), loopApresent' \in BOOLEAN, armed' \in BOOLEAN,
         ticks' = ticks, transID' = transID
  PROVE  LaneTyped'
<1>1. queue' \in Seq(Events)
  BY DEF Take, Typed, LaneTyped
<1> QED
  BY <1>1 DEF Take, Typed, LaneTyped, world, lpr, payment

LEMMA EventsKeepTyped ==
  ASSUME Typed,
         \/ LoopAOn \/ LoopAOff \/ LoopCOff \/ LoopCGone \/ BarrierStatusOn
         \/ CardReceived
         \/ \E r \in Rounds, p \in Vehicles \cup {None} : ReceivedLPR(r, p)
         \/ \E id \in 0..MaxRounds, s \in {"ok", "insufficient"} : PayResult(id, s)
  PROVE  Typed'
<1>0. /\ call \in [Threads -> Calls] /\ CallsTyped /\ Event \in Threads
      /\ Event # Timer /\ Event # Pms /\ call[Event] \in Calls
      /\ loopApresent \in BOOLEAN /\ armed \in BOOLEAN
  BY TheThreads DEF Typed, CallsTyped, LaneTyped
<1>1. CASE LoopAOn
  <2>1. CallsTyped'
    BY <1>0, <1>1, Moved, BecomeKeepsCallsTyped DEF LoopAOn, Goto, Places
  <2>2. LaneTyped'
    BY <1>0, <1>1, TakeKeepsTyped DEF LoopAOn, timer, process
  <2> QED
    BY <1>1, <2>1, <2>2 DEF LoopAOn, Take, Typed, ExitTyped, BooksTyped, exit,
       process, paid, history, payment
<1>2. CASE LoopAOff
  <2>1. CallsTyped'
    BY <1>0, <1>2 DEF LoopAOff, CallsTyped
  <2>2. LaneTyped'
    BY <1>0, <1>2, TakeKeepsTyped DEF LoopAOff, StopTimer, process
  <2>3. stray' \in BOOLEAN
    BY <1>2, Zenon DEF LoopAOff, StopTimer
  <2> QED
    BY <1>2, <2>1, <2>2, <2>3 DEF LoopAOff, Take, Typed, ExitTyped, BooksTyped, exit,
       process, paid, payment
<1>3. CASE LoopCOff
  <2>1. CallsTyped'
    BY <1>0, <1>3, Moved, BecomeKeepsCallsTyped DEF LoopCOff, Goto, Places
  <2>2. LaneTyped'
    BY <1>0, <1>3, TakeKeepsTyped DEF LoopCOff, timer, process
  <2> QED
    BY <1>3, <2>1, <2>2 DEF LoopCOff, Take, Typed, ExitTyped, BooksTyped, exit,
       process, paid, history, payment
<1>4. CASE LoopCGone
  BY <1>0, <1>4, ClearmeKeepsTyped DEF LoopCGone
<1>5. CASE BarrierStatusOn
  <2>1. CallsTyped'
    <3>1. CASE barrierOpened
      BY <1>0, <1>5, <3>1 DEF BarrierStatusOn, CallsTyped
    <3>2. CASE ~barrierOpened
      <4> DEFINE c == Call(Event, "save", iu, "manual")
      <4>1. Become(Event, c) /\ iu \in Numbers
        BY <1>5, <3>2 DEF BarrierStatusOn, Typed, ExitTyped
      <4>2. c \in Calls /\ c.at = "save"
        BY <1>0, <4>1, Begins DEF Places, Kinds
      <4> HIDE DEF c
      <4> QED
        BY <1>0, <4>1, <4>2, BecomeKeepsCallsTyped
    <3> QED
      BY <3>1, <3>2
  <2>2. LaneTyped'
    BY <1>0, <1>5, TakeKeepsTyped DEF BarrierStatusOn, timer, process
  <2> QED
    BY <1>5, <2>1, <2>2 DEF BarrierStatusOn, Take, Typed, ExitTyped, BooksTyped, exit,
       process, paid, history, payment
<1>6. CASE CardReceived
  <2>1. CallsTyped'
    <3> DEFINE c == Call(Event, "check", Card, "none")
    <3>1. Become(Event, c) /\ Card \in Numbers /\ Card \in Plain
      BY <1>6 DEF CardReceived, Numbers, Plain
    <3>2. c \in Calls /\ c.at = "check" /\ c.arg = Card
      BY <1>0, <3>1, Begins DEF Places, Kinds
    <3> HIDE DEF c
    <3> QED
      BY <1>0, <3>1, <3>2, BecomeKeepsCallsTyped
  <2>2. LaneTyped'
    BY <1>0, <1>6, TakeKeepsTyped DEF CardReceived, timer, process
  <2> QED
    BY <1>6, <2>1, <2>2 DEF CardReceived, Take, Typed, ExitTyped, BooksTyped, exit,
       process, paid, history, payment
<1>7. ASSUME NEW r \in Rounds, NEW p \in Vehicles \cup {None}, ReceivedLPR(r, p)
      PROVE  Typed'
  <2> DEFINE mine == p # None /\ transID = r /\ loopApresent
  <2>1. CallsTyped'
    <3>1. CASE ~(mine /\ NotYetOut)
      BY <1>0, <1>7, <3>1 DEF ReceivedLPR, CallsTyped
    <3>2. CASE mine /\ NotYetOut
      <4> DEFINE c == Call(Event, "check", p, "none")
      <4>1. Become(Event, c) /\ p \in Numbers /\ p \in Plain
        BY <1>7, <3>2 DEF ReceivedLPR, Numbers, Plain
      <4>2. c \in Calls /\ c.at = "check" /\ c.arg = p
        BY <1>0, <4>1, Begins DEF Places, Kinds
      <4> HIDE DEF c
      <4> QED
        BY <1>0, <4>1, <4>2, BecomeKeepsCallsTyped
    <3> QED
      BY <3>1, <3>2
  <2>2. LaneTyped'
    BY <1>0, <1>7, TakeKeepsTyped DEF ReceivedLPR, timer, process
  <2>3. lpn' \in Numbers
    BY <1>7 DEF ReceivedLPR, Typed, ExitTyped, Numbers
  <2> QED
    BY <1>7, <2>1, <2>2, <2>3 DEF ReceivedLPR, Take, Typed, ExitTyped, BooksTyped,
       process, paid, history, payment
<1>8. ASSUME NEW id \in 0..MaxRounds, NEW s \in {"ok", "insufficient"}, PayResult(id, s)
      PROVE  Typed'
  <2>1. CallsTyped'
    <3>1. CASE s # "ok"
      BY <1>0, <1>8, <3>1 DEF PayResult, CallsTyped
    <3>2. CASE s = "ok"
      <4> DEFINE b == Call(Event, "save", iu, "paid")
                 c == [b EXCEPT !.order = id]
      <4>1. Become(Event, c) /\ iu \in Numbers
        BY <1>8, <3>2 DEF PayResult, Typed, ExitTyped
      <4>2. b \in Calls /\ b.at = "save"
        BY <1>0, <4>1, Begins DEF Places, Kinds
      <4> HIDE DEF b
      <4>3. c \in Calls /\ c.at = "save"
        BY <4>2 DEF Calls
      <4> HIDE DEF c
      <4> QED
        BY <1>0, <4>1, <4>3, BecomeKeepsCallsTyped
    <3> QED
      BY <3>1, <3>2
  <2>2. LaneTyped'
    BY <1>0, <1>8, TakeKeepsTyped DEF PayResult, timer, process
  <2> QED
    BY <1>8, <2>1, <2>2 DEF PayResult, Take, Typed, ExitTyped, BooksTyped,
       process, paid, history, payment
<1> QED
  BY <1>1, <1>2, <1>3, <1>4, <1>5, <1>6, <1>7, <1>8

\* The amount CalFeeRAM may return.
LEMMA FeesAreAmounts ==
  ASSUME ExitTyped, NEW amount \in Fees
  PROVE  amount \in Amounts /\ (entryOf = None => amount \in {None, Flat})
         /\ amount \in {None, entryOf, Flat}
  BY DEF Fees, ExitTyped, Numbers, Amounts

\* An order that is placed, and the row of a call.
LEMMA RequestTyped ==
  ASSUME Typed, NEW amount \in Amounts, PayRequest(amount)
  PROVE  orders' \in Seq(Orders) /\ owed' \in [0..MaxRounds -> 0..MaxResults]
<1> DEFINE d == call[Event].wiped \/ stale
           o == [id |-> transID, amount |-> amount, disturbed |-> d]
<1>0. MaxResults \in 0..MaxResults
  BY TheBounds
<1>1. d \in BOOLEAN
  BY Zenon
<1>2. transID \in 0..MaxRounds /\ orders \in Seq(Orders)
      /\ owed \in [0..MaxRounds -> 0..MaxResults]
  BY DEF Typed, LaneTyped, BooksTyped
<1>3. orders' = Append(orders, o) /\ owed' = [owed EXCEPT ![transID] = MaxResults]
  BY Zenon DEF PayRequest
<1> HIDE DEF d
<1>4. o \in Orders
  BY <1>1, <1>2 DEF Orders
<1> HIDE DEF o
<1> QED
  BY <1>0, <1>2, <1>3, <1>4

\* CheckIUorCardStatus and PBSExit leave these alone.
LEMMA CallOnlyKeepsLaneTyped ==
  ASSUME Typed, UNCHANGED callOnly, owed' \in [0..MaxRounds -> 0..MaxResults]
  PROVE  LaneTyped'
  BY DEF callOnly, world, lpr, timer, process, Typed, LaneTyped

\* A step of the event thread's call, to a place with the number it has.
LEMMA ExitCallKeepsTyped ==
  ASSUME Typed,
         \/ WaitForCard \/ SameCardAgain \/ CheckCardOK \/ SameAsLast
         \/ StartPBSExit \/ TurnedAway \/ FetchEntryinfo \/ SeasonParking
         \/ CalculateFee \/ AskPms \/ ShowFee
  PROVE  Typed'
<1> DEFINE e == call[Event]
           Moves(c) == /\ c \in Calls /\ c.at \notin {"fee"}
                       /\ c.at \in {"check", "fetch", "season", "show"} => c.arg \in Plain
<1>0. /\ call \in [Threads -> Calls] /\ CallsTyped /\ Event \in Threads
      /\ Event # Timer /\ Event # Pms /\ e \in Calls
      /\ ExitTyped /\ BooksTyped
      /\ owed \in [0..MaxRounds -> 0..MaxResults] /\ transID \in 0..MaxRounds
  BY TheThreads DEF Typed, CallsTyped, LaneTyped
<1>1. ASSUME NEW c, Moves(c), Become(Event, c) PROVE CallsTyped'
  BY <1>0, <1>1, BecomeKeepsCallsTyped
<1>2. ASSUME NEW c, Moves(c), WriteExit(Event, c)
      PROVE  CallsTyped' /\ stale' \in BOOLEAN
             /\ UNCHANGED <<records, stray, unwritten>>
  <2>1. Disturb(Event, c) /\ stale' = (stale \/ call[Event].wiped)
        /\ UNCHANGED <<records, stray, unwritten>>
    BY <1>2, Zenon DEF WriteExit
  <2>2. stale' \in BOOLEAN
    BY <2>1, Zenon
  <2> QED
    BY <1>0, <1>2, <2>1, <2>2, DisturbKeepsCallsTyped
<1>3. Moves(Idle)
  BY IdleIsACall
<1>4. ASSUME NEW place \in Places \ {"fee"}, e.at \in {"check", "fetch", "season", "show"}
      PROVE  /\ Moves([e EXCEPT !.at = place])
             /\ \A k \in Kinds : Moves([e EXCEPT !.at = place, !.kind = k])
             /\ \A f \in Amounts : Moves([e EXCEPT !.at = place, !.fee = f])
  <2>1. e.arg \in Plain
    BY <1>0, <1>4 DEF CallsTyped
  <2> QED
    BY <1>0, <2>1 DEF Calls
<1>5. /\ {"fetch", "season", "show", "save", "open"} \subseteq Places \ {"fee"}
      /\ {"card", "again", "season", "free"} \subseteq Kinds
  BY DEF Places, Kinds
<1>6. At(Event, "check") => Moves(call[Event])
  BY <1>0 DEF At, CallsTyped
<1>7. ASSUME UNCHANGED callOnly, UNCHANGED <<payment, records, unwritten, stray>>,
             stale' \in BOOLEAN
      PROVE  LaneTyped' /\ BooksTyped'
  <2>1. UNCHANGED <<orders, owed>>
    BY <1>7 DEF payment
  <2> QED
    BY <1>0, <1>7, <2>1, CallOnlyKeepsLaneTyped DEF BooksTyped
<1>8. stale \in BOOLEAN
  BY <1>0 DEF BooksTyped
<1>9. UNCHANGED callOnly => UNCHANGED <<savedTrans, barrierOpened>>
  BY DEF callOnly, process
<1> HIDE DEF Moves, e
<1>10. CASE WaitForCard
  <2>1. WriteExit(Event, call[Event]) /\ At(Event, "check")
    BY <1>10 DEF WaitForCard
  <2>2. CallsTyped' /\ stale' \in BOOLEAN /\ UNCHANGED <<records, stray, unwritten>>
    BY <1>2, <1>6, <2>1
  <2>3. ExitTyped'
    BY <1>0, <1>9, <1>10 DEF WaitForCard, ExitTyped, paid
  <2>4. LaneTyped' /\ BooksTyped'
    BY <1>7, <1>10, <2>2 DEF WaitForCard
  <2> QED
    BY <2>2, <2>3, <2>4 DEF Typed
<1>11. CASE SameCardAgain \/ TurnedAway
  <2>1. CallsTyped'
    BY <1>1, <1>3, <1>11 DEF SameCardAgain, TurnedAway
  <2>2. ExitTyped'
    BY <1>0, <1>9, <1>11 DEF SameCardAgain, TurnedAway, ExitTyped, exit, paid
  <2>3. LaneTyped' /\ BooksTyped'
    BY <1>7, <1>8, <1>11 DEF SameCardAgain, TurnedAway, history
  <2> QED
    BY <2>1, <2>2, <2>3 DEF Typed
<1>12. CASE CheckCardOK
  <2>0. /\ UNCHANGED callOnly /\ UNCHANGED <<pmsAsked, lpn, iu, noEntry, entryOf, status, paid>>
        /\ e.at = "check"
    BY <1>12 DEF CheckCardOK, At, e
  <2>1. CASE /\ due' = None /\ NoRequest
             /\ WriteExit(Event, [call[Event] EXCEPT !.at = "save", !.kind = "card"])
    <3>1. CallsTyped' /\ stale' \in BOOLEAN /\ UNCHANGED <<records, stray, unwritten>>
      BY <1>2, <1>4, <1>5, <2>0, <2>1 DEF e
    <3>2. ExitTyped'
      BY <1>0, <1>9, <2>0, <2>1, TheNumbers DEF ExitTyped, paid
    <3>3. LaneTyped' /\ BooksTyped'
      BY <1>7, <2>0, <2>1, <3>1 DEF NoRequest
    <3> QED
      BY <3>1, <3>2, <3>3 DEF Typed
  <2>2. CASE /\ IF due # None THEN PayRequest(due) ELSE NoRequest
             /\ Become(Event, Idle)
             /\ UNCHANGED <<due, history>>
    <3>1. CallsTyped'
      BY <1>1, <1>3, <2>2
    <3>2. ExitTyped'
      BY <1>0, <1>9, <2>0, <2>2 DEF ExitTyped, paid
    <3>3. orders' \in Seq(Orders) /\ owed' \in [0..MaxRounds -> 0..MaxResults]
      <4>1. CASE due # None
        BY <1>0, <2>2, <4>1, RequestTyped DEF ExitTyped
      <4>2. CASE due = None
        BY <1>0, <2>2, <4>2 DEF NoRequest, payment, BooksTyped
      <4> QED
        BY <4>1, <4>2
    <3>4. LaneTyped' /\ BooksTyped'
      BY <1>0, <2>0, <2>2, <3>3, CallOnlyKeepsLaneTyped DEF BooksTyped, history
    <3> QED
      BY <3>1, <3>2, <3>4 DEF Typed
  <2> QED
    BY <1>12, <2>1, <2>2 DEF CheckCardOK
<1>13. CASE SameAsLast
  <2>0. e.at = "check"
    BY <1>13 DEF SameAsLast, NotWaiting, At, e
  <2>1. CallsTyped'
    <3>1. CASE paidStatus
      BY <1>1, <1>4, <1>5, <1>13, <2>0, <3>1 DEF SameAsLast, e
    <3>2. CASE ~paidStatus
      BY <1>1, <1>3, <1>13, <3>2 DEF SameAsLast
    <3> QED
      BY <3>1, <3>2
  <2>2. ExitTyped'
    BY <1>0, <1>9, <1>13 DEF SameAsLast, ExitTyped, exit, paid
  <2>3. LaneTyped' /\ BooksTyped'
    BY <1>7, <1>8, <1>13 DEF SameAsLast, history
  <2> QED
    BY <2>1, <2>2, <2>3 DEF Typed
<1>14. CASE StartPBSExit
  <2>0. e.at = "check" /\ e.arg \in Numbers
    BY <1>0, <1>14 DEF StartPBSExit, NotWaiting, At, e, Calls
  <2>1. CASE e.arg = iu
    <3>1. CallsTyped'
      BY <1>1, <1>3, <1>14, <2>1 DEF StartPBSExit, e
    <3>2. ExitTyped'
      BY <1>0, <1>9, <1>14, <2>1 DEF StartPBSExit, ExitTyped, paid, e
    <3>3. LaneTyped' /\ BooksTyped'
      BY <1>7, <1>8, <1>14, <2>1 DEF StartPBSExit, history, e
    <3> QED
      BY <3>1, <3>2, <3>3 DEF Typed
  <2>2. CASE e.arg # iu
    <3>1. CallsTyped' /\ stale' \in BOOLEAN /\ UNCHANGED <<records, stray, unwritten>>
      BY <1>2, <1>4, <1>5, <1>14, <2>0, <2>2 DEF StartPBSExit, e
    <3>2. ExitTyped'
      BY <1>0, <1>9, <1>14, <2>0, <2>2 DEF StartPBSExit, ExitTyped, paid, e
    <3>3. LaneTyped' /\ BooksTyped'
      BY <1>7, <1>14, <3>1 DEF StartPBSExit
    <3> QED
      BY <3>1, <3>2, <3>3 DEF Typed
  <2> QED
    BY <2>1, <2>2
<1>15. CASE FetchEntryinfo
  <2>0. e.at = "fetch" /\ e.arg \in Plain
    BY <1>0, <1>15 DEF FetchEntryinfo, At, e, CallsTyped
  <2>1. CallsTyped' /\ stale' \in BOOLEAN /\ UNCHANGED <<records, stray, unwritten>>
    BY <1>2, <1>4, <1>5, <1>15, <2>0 DEF FetchEntryinfo, e
  <2>2. entryOf' \in {entryOf, e.arg} /\ noEntry' \in {noEntry, 0, 1}
    BY <1>15 DEF FetchEntryinfo, e
  <2>3. ExitTyped'
    BY <1>0, <1>9, <1>15, <2>0, <2>2, TheNumbers DEF FetchEntryinfo, ExitTyped, paid
  <2>4. LaneTyped' /\ BooksTyped'
    BY <1>7, <1>15, <2>1 DEF FetchEntryinfo
  <2> QED
    BY <2>1, <2>3, <2>4 DEF Typed
<1>16. CASE SeasonParking
  <2>0. e.at = "season"
    BY <1>16 DEF SeasonParking, At, e
  <2>1. CallsTyped' /\ stale' \in BOOLEAN /\ UNCHANGED <<records, stray, unwritten>>
    BY <1>2, <1>4, <1>5, <1>16, <2>0 DEF SeasonParking, e
  <2>2. ExitTyped'
    BY <1>0, <1>9, <1>16, TheNumbers DEF SeasonParking, ExitTyped, paid
  <2>3. LaneTyped' /\ BooksTyped'
    BY <1>7, <1>16, <2>1 DEF SeasonParking
  <2> QED
    BY <2>1, <2>2, <2>3 DEF Typed
<1>17. CASE CalculateFee
  <2>0. e.at = "season"
    BY <1>17 DEF CalculateFee, At, e
  <2>1. PICK amount \in Fees :
          /\ due' = amount
          /\ WriteExit(Event, [call[Event] EXCEPT !.at = "show", !.fee = amount])
    BY <1>17 DEF CalculateFee
  <2>2. amount \in Amounts
    BY <1>0, FeesAreAmounts
  <2>3. CallsTyped' /\ stale' \in BOOLEAN /\ UNCHANGED <<records, stray, unwritten>>
    BY <1>2, <1>4, <1>5, <2>0, <2>1, <2>2 DEF e
  <2>4. ExitTyped'
    BY <1>0, <1>9, <1>17, <2>1, <2>2 DEF CalculateFee, ExitTyped, paid
  <2>5. LaneTyped' /\ BooksTyped'
    BY <1>7, <1>17, <2>3 DEF CalculateFee
  <2> QED
    BY <2>3, <2>4, <2>5 DEF Typed
<1>18. CASE AskPms
  <2>0. e.at = "season" /\ e.arg \in Plain
    BY <1>0, <1>18 DEF AskPms, At, e, CallsTyped
  <2>1. CallsTyped'
    BY <1>1, <1>3, <1>18 DEF AskPms
  <2>2. [id |-> transID, number |-> e.arg] \in [id : 0..MaxRounds, number : Plain]
    BY <1>0, <2>0
  <2>3. ExitTyped'
    BY <1>0, <1>9, <1>18, <2>2 DEF AskPms, ExitTyped, exit, paid, e
  <2>4. LaneTyped' /\ BooksTyped'
    BY <1>7, <1>8, <1>18 DEF AskPms, history
  <2> QED
    BY <2>1, <2>3, <2>4 DEF Typed
<1>19. CASE ShowFee
  <2>0. e.at = "show" /\ e.fee \in Amounts
    BY <1>0, <1>19 DEF ShowFee, At, e, Calls
  <2>1. ExitTyped'
    BY <1>0, <1>9, <1>19, <2>0 DEF ShowFee, ExitTyped, paid, e
  <2>2. CASE e.fee # None
    <3>1. PayRequest(e.fee) /\ WriteExit(Event, Idle) /\ UNCHANGED callOnly
      BY <1>19, <2>2 DEF ShowFee, e
    <3>2. orders' \in Seq(Orders) /\ owed' \in [0..MaxRounds -> 0..MaxResults]
      BY <2>0, <3>1, RequestTyped
    <3>3. CallsTyped' /\ stale' \in BOOLEAN /\ UNCHANGED <<records, stray, unwritten>>
      BY <1>2, <1>3, <3>1
    <3>4. LaneTyped' /\ BooksTyped'
      BY <1>0, <3>1, <3>2, <3>3, CallOnlyKeepsLaneTyped DEF BooksTyped
    <3> QED
      BY <2>1, <3>3, <3>4 DEF Typed
  <2>3. CASE e.fee = None
    <3>1. /\ NoRequest /\ UNCHANGED callOnly
          /\ WriteExit(Event, [e EXCEPT !.at = "save", !.kind = "free"])
      BY <1>19, <2>3 DEF ShowFee, e
    <3>2. CallsTyped' /\ stale' \in BOOLEAN /\ UNCHANGED <<records, stray, unwritten>>
      BY <1>2, <1>4, <1>5, <2>0, <3>1
    <3>3. LaneTyped' /\ BooksTyped'
      BY <1>7, <3>1, <3>2 DEF NoRequest
    <3> QED
      BY <2>1, <3>2, <3>3 DEF Typed
  <2> QED
    BY <2>2, <2>3
<1> QED
  BY <1>10, <1>11, <1>12, <1>13, <1>14, <1>15, <1>16, <1>17, <1>18, <1>19

\* What SaveExit hands over.
LEMMA RowIsTyped ==
  ASSUME LaneTyped, ExitTyped, NEW t \in Threads, call[t] \in Calls, NEW result \in Results
  PROVE  /\ Row(t, result) \in Rows
         /\ Row(t, result).round = transID /\ Row(t, result).number = iu
         /\ Row(t, result).kind = call[t].kind /\ Row(t, result).amount = due
         /\ Row(t, result).order = call[t].order /\ Row(t, result).result = result
         /\ Row(t, result).disturbed
              <=> (call[t].wiped \/ stale \/ (t = Timer /\ stray))
<1> DEFINE d == call[t].wiped \/ stale \/ (t = Timer /\ stray)
<1>1. d \in BOOLEAN /\ (d <=> (call[t].wiped \/ stale \/ (t = Timer /\ stray)))
  BY Zenon
<1>2. Row(t, result) = [round |-> transID, number |-> iu, kind |-> call[t].kind,
                        amount |-> due, order |-> call[t].order, result |-> result,
                        disturbed |-> d]
  BY Zenon DEF Row
<1> HIDE DEF d
<1> QED
  BY <1>1, <1>2 DEF Rows, LaneTyped, ExitTyped, Calls

\* SaveExit, SetSaved and Openbarrier.
LEMMA CloseKeepsTyped ==
  ASSUME Typed, NEW t \in Threads, SaveExit(t) \/ SetSaved(t) \/ Openbarrier(t)
  PROVE  Typed'
<1> DEFINE c == call[t]
<1>0. /\ call \in [Threads -> Calls] /\ CallsTyped /\ c \in Calls
      /\ ExitTyped /\ BooksTyped /\ LaneTyped
  BY DEF Typed, CallsTyped
<1>1. ASSUME NEW d \in Calls, d.at \in {"open", "saved", "failed", "idle"}, Become(t, d)
      PROVE  CallsTyped'
  BY <1>0, <1>1, BecomeKeepsCallsTyped
<1> HIDE DEF c
<1>2. CASE SaveExit(t)
  <2>1. CallsTyped'
    <3>1. CASE iu = None
      BY <1>0, <1>1, <1>2, <3>1, Moved DEF SaveExit, Goto, Places, c
    <3>2. CASE iu # None
      <4>1. PICK place \in {"saved", "failed"} :
              Become(t, [c EXCEPT !.at = place, !.wrote = iu])
        BY <1>2, <3>2 DEF SaveExit, c
      <4>2. /\ [c EXCEPT !.at = place, !.wrote = iu] \in Calls
            /\ [c EXCEPT !.at = place, !.wrote = iu].at = place
        BY <1>0 DEF Calls, Places, ExitTyped
      <4> QED
        BY <1>1, <4>1, <4>2
    <3> QED
      BY <3>1, <3>2
  <2>2. records' \in Seq(Rows)
    <3>1. CASE iu = None
      BY <1>0, <1>2, <3>1 DEF SaveExit, BooksTyped
    <3>2. CASE iu # None
      <4>1. PICK result \in Results : records' = Append(records, Row(t, result))
        BY <1>2, <3>2 DEF SaveExit
      <4>2. Row(t, result) \in Rows
        BY <1>0, RowIsTyped DEF c
      <4> QED
        BY <1>0, <4>1, <4>2 DEF BooksTyped
    <3> QED
      BY <3>1, <3>2
  <2>3. unwritten' \subseteq Numbers
    BY <1>0, <1>2 DEF SaveExit, BooksTyped, c, Calls
  <2>4. LaneTyped'
    BY <1>0, <1>2, CallOnlyKeepsLaneTyped DEF SaveExit, payment, LaneTyped
  <2>5. ExitTyped'
    BY <1>0, <1>2 DEF SaveExit, callOnly, process, exit, paid, ExitTyped
  <2> QED
    BY <1>0, <1>2, <2>1, <2>2, <2>3, <2>4, <2>5 DEF SaveExit, payment, BooksTyped, Typed
<1>3. CASE SetSaved(t)
  <2>1. CallsTyped'
    BY <1>0, <1>1, <1>3, Moved DEF SetSaved, Goto, Places, c
  <2>2. paidStatus' \in BOOLEAN
    BY <1>3, Zenon DEF SetSaved
  <2>3. unwritten' \subseteq Numbers
    BY <1>0, <1>3 DEF SetSaved, BooksTyped, ExitTyped
  <2>4. LaneTyped'
    BY <1>0, <1>3 DEF SetSaved, world, lpr, payment, timer, LaneTyped
  <2> QED
    BY <1>0, <1>3, <2>1, <2>2, <2>3, <2>4
       DEF SetSaved, exit, payment, ExitTyped, BooksTyped, Typed
<1>4. CASE Openbarrier(t)
  <2>1. CallsTyped'
    BY <1>0, <1>1, <1>4, IdleIsACall DEF Openbarrier
  <2>2. stray' \in BOOLEAN
    BY <1>4, Zenon DEF Openbarrier, StopTimer
  <2>3. queue' \in Seq(Events)
    BY <1>0, <1>4, EventsOfTheLane DEF Openbarrier, LaneTyped
  <2> QED
    BY <1>0, <1>4, <2>1, <2>2, <2>3
       DEF Openbarrier, StopTimer, lpr, payment, exit, paid, LaneTyped, ExitTyped,
           BooksTyped, Typed
<1> QED
  BY <1>2, <1>3, <1>4

\* The timer.
LEMMA TimerKeepsTyped ==
  ASSUME Typed, TimerStrand
  PROVE  Typed'
<1>0. /\ call \in [Threads -> Calls] /\ CallsTyped /\ call[Timer] \in Calls
      /\ ExitTyped /\ BooksTyped /\ LaneTyped /\ Timer \in Threads
      /\ Timer # Event /\ Timer # Pms
  BY TheThreads DEF Typed, CallsTyped
<1>1. UNCHANGED timerOnly
  BY DEF TimerStrand, TimerExpires, OperationTimeout, LpnTimeout, WaitAnotherSecond
<1>2. ticks' \in 0..1 /\ armed' \in BOOLEAN
  <2>1. ticks' \in {0, 1} /\ (armed' = armed \/ armed' = TRUE \/ armed' = FALSE)
    BY DEF TimerStrand, TimerExpires, OperationTimeout, LpnTimeout,
       WaitAnotherSecond, Handler
  <2>2. ticks' \in 0..1
    BY <2>1
  <2>3. armed \in BOOLEAN
    BY <1>0 DEF LaneTyped
  <2>4. armed' \in BOOLEAN
    BY <2>1, <2>3
  <2> QED
    BY <2>2, <2>4
<1>3. LaneTyped'
  BY <1>0, <1>1, <1>2 DEF timerOnly, LaneTyped, world, lpr, payment, process
<1>4. BooksTyped'
  BY <1>0, <1>1 DEF TimerStrand, TimerExpires, OperationTimeout, LpnTimeout,
     WaitAnotherSecond, timerOnly, payment, history, BooksTyped
<1>5. ExitTyped'
  BY <1>0, <1>1, TheNumbers DEF TimerStrand, TimerExpires, OperationTimeout, LpnTimeout,
     WaitAnotherSecond, timerOnly, process, exit, paid, ExitTyped
<1>6. CallsTyped'
  <2>1. CASE TimerExpires \/ WaitAnotherSecond
    BY <1>0, <2>1 DEF TimerExpires, WaitAnotherSecond, CallsTyped
  <2>2. CASE OperationTimeout
    BY <1>0, <2>2, Moved, BecomeKeepsCallsTyped DEF OperationTimeout, Goto, Places
  <2>3. CASE LpnTimeout
    <3> DEFINE c == Call(Timer, "save", NoPlate, "noplate")
    <3>1. Disturb(Timer, c)
      BY <2>3 DEF LpnTimeout
    <3>2. c \in Calls /\ c.at = "save" /\ c.kind = "noplate"
      BY <1>0, TheNumbers, Begins DEF Places, Kinds
    <3> HIDE DEF c
    <3> QED
      BY <1>0, <3>1, <3>2, DisturbKeepsCallsTyped
  <2> QED
    BY <2>1, <2>2, <2>3 DEF TimerStrand
<1> QED
  BY <1>3, <1>4, <1>5, <1>6 DEF Typed

\* The PMS.
LEMMA PmsKeepsTyped ==
  ASSUME Typed, PmsStrand
  PROVE  Typed'
<1>0. /\ call \in [Threads -> Calls] /\ CallsTyped /\ call[Pms] \in Calls
      /\ ExitTyped /\ BooksTyped /\ LaneTyped /\ Pms \in Threads
      /\ Pms # Event /\ Pms # Timer /\ stale \in BOOLEAN
      /\ owed \in [0..MaxRounds -> 0..MaxResults]
  BY TheThreads DEF Typed, CallsTyped, BooksTyped, LaneTyped
<1>1. CASE CmdOpenBarrier
  <2>1. CallsTyped'
    <3> DEFINE c == Call(Pms, "save", iu, "manual")
    <3>1. Become(Pms, c) /\ iu \in Numbers
      BY <1>0, <1>1 DEF CmdOpenBarrier, ExitTyped
    <3>2. c \in Calls /\ c.at = "save" /\ c.kind = "manual"
      BY <1>0, <3>1, Begins DEF Places, Kinds
    <3> HIDE DEF c
    <3> QED
      BY <1>0, <3>1, <3>2, BecomeKeepsCallsTyped
  <2>2. disturbances' \in 0..MaxDisturbances
    BY <1>0, <1>1 DEF CmdOpenBarrier, Disturbance, LaneTyped
  <2>3. LaneTyped'
    BY <1>0, <1>1, <2>2 DEF CmdOpenBarrier, world, lpr, payment, process, timer, LaneTyped
  <2> QED
    BY <1>0, <1>1, <2>1, <2>3 DEF CmdOpenBarrier, exit, process, paid, payment,
       history, ExitTyped, BooksTyped, Typed
<1>2. ASSUME NEW q \in pmsAsked, CmdTimeForNoEntry(q) PROVE Typed'
  <2>1. q.number \in Plain
    BY <1>0 DEF ExitTyped
  <2>2. CallsTyped' /\ stale' \in BOOLEAN
    <3>1. CASE ~loopApresent
      BY <1>0, <1>2, <3>1 DEF CmdTimeForNoEntry, CallsTyped
    <3>2. CASE loopApresent
      <4> DEFINE c == Call(Pms, "fee", q.number, "none")
      <4>1. Disturb(Pms, c)
        BY <1>2, <3>2 DEF CmdTimeForNoEntry
      <4>2. c \in Calls /\ c.at = "fee" /\ c.arg = q.number
        <5>1. q.number \in Numbers /\ "fee" \in Places /\ "none" \in Kinds
          BY <2>1, TheNumbers DEF Places, Kinds
        <5> QED
          BY <1>0, <5>1, Begins
      <4> HIDE DEF c
      <4>3. CallsTyped'
        BY <1>0, <2>1, <4>1, <4>2, DisturbKeepsCallsTyped
      <4>4. stale' = (stale \/ q # [id |-> transID, number |-> iu])
        BY <1>2, <3>2 DEF CmdTimeForNoEntry
      <4>5. stale' \in BOOLEAN
        BY <4>4, Zenon
      <4> QED
        BY <4>3, <4>5
    <3> QED
      BY <3>1, <3>2
  <2>3. ExitTyped'
    BY <1>0, <1>2, <2>1, TheNumbers DEF CmdTimeForNoEntry, ExitTyped, process, paid
  <2>4. LaneTyped'
    BY <1>0, <1>2 DEF CmdTimeForNoEntry, world, lpr, payment, process, timer, LaneTyped
  <2> QED
    BY <1>0, <1>2, <2>2, <2>3, <2>4 DEF CmdTimeForNoEntry, payment, BooksTyped, Typed
<1>3. ASSUME NEW c \in Calls, WriteExit(Pms, c),
             c.at \in {"idle", "show", "save"}, c.at = "show" => c.arg \in Plain,
             c.at = "save" => c.kind = "free"
      PROVE  CallsTyped' /\ stale' \in BOOLEAN
             /\ UNCHANGED <<records, stray, unwritten>>
  <2>1. /\ Disturb(Pms, c) /\ stale' = (stale \/ call[Pms].wiped)
        /\ UNCHANGED <<records, stray, unwritten>>
    BY <1>3, Zenon DEF WriteExit
  <2>2. stale' \in BOOLEAN
    BY <2>1, Zenon
  <2> QED
    BY <1>0, <1>3, <2>1, <2>2, DisturbKeepsCallsTyped
<1>4. CASE ReceivedEntryRecord
  <2>1. PICK amount \in Fees :
          /\ due' = amount
          /\ WriteExit(Pms, [call[Pms] EXCEPT !.at = "show", !.fee = amount])
    BY <1>4 DEF ReceivedEntryRecord
  <2> DEFINE c == [call[Pms] EXCEPT !.at = "show", !.fee = amount]
  <2>2. amount \in Amounts /\ call[Pms].arg \in Plain
    BY <1>0, <1>4, FeesAreAmounts DEF ReceivedEntryRecord, At, CallsTyped
  <2>3. c \in Calls /\ c.at = "show" /\ c.arg = call[Pms].arg
    BY <1>0, <2>2 DEF Calls, Places
  <2>4. CallsTyped' /\ stale' \in BOOLEAN /\ UNCHANGED <<records, stray, unwritten>>
    BY <1>3, <2>1, <2>2, <2>3
  <2>5. LaneTyped'
    BY <1>0, <1>4, CallOnlyKeepsLaneTyped DEF ReceivedEntryRecord, payment
  <2> QED
    BY <1>0, <1>4, <2>1, <2>2, <2>4, <2>5 DEF ReceivedEntryRecord, callOnly, process,
       paid, payment, ExitTyped, BooksTyped, Typed
<1>5. CASE ShowFeeForPms
  <2>1. call[Pms].fee \in Amounts
    BY <1>0 DEF Calls
  <2>2. CallsTyped' /\ stale' \in BOOLEAN /\ UNCHANGED <<records, stray, unwritten>>
    <3>1. CASE call[Pms].fee # None
      BY <1>3, <1>5, <3>1, IdleIsACall DEF ShowFeeForPms
    <3>2. CASE call[Pms].fee = None
      <4> DEFINE c == [call[Pms] EXCEPT !.at = "save", !.kind = "free"]
      <4>1. c \in Calls /\ c.at = "save" /\ c.kind = "free"
        BY <1>0 DEF Calls, Places, Kinds
      <4>2. WriteExit(Pms, c)
        BY <1>5, <3>2 DEF ShowFeeForPms
      <4> HIDE DEF c
      <4> QED
        BY <1>3, <4>1, <4>2
    <3> QED
      BY <3>1, <3>2
  <2>3. LaneTyped'
    BY <1>0, <1>5, CallOnlyKeepsLaneTyped DEF ShowFeeForPms, payment
  <2> QED
    BY <1>0, <1>5, <2>1, <2>2, <2>3 DEF ShowFeeForPms, callOnly, process,
       paid, payment, ExitTyped, BooksTyped, Typed
<1> QED
  BY <1>1, <1>2, <1>4, <1>5 DEF PmsStrand

LEMMA NextKeepsTyped == Typed /\ [Next]_vars => Typed'
<1> SUFFICES ASSUME Typed, [Next]_vars PROVE Typed'
  OBVIOUS
<1>1. CASE World
  BY <1>1, WorldKeepsTyped
<1>2. CASE EventThread
  BY <1>2, EventsKeepTyped, ExitCallKeepsTyped DEF EventThread
<1>3. CASE TimerStrand
  BY <1>3, TimerKeepsTyped
<1>4. CASE PmsStrand
  BY <1>4, PmsKeepsTyped
<1>5. ASSUME NEW t \in Threads, Step(t) PROVE Typed'
  <2>1. CASE LoopACome(t)
    BY <2>1, LoopAComeKeepsTyped
  <2>2. CASE ClearForRound(t)
    <3>1. t # Pms
      BY <2>2, TheThreads DEF ClearForRound, At, Typed, CallsTyped
    <3> QED
      BY <2>2, <3>1, ClearmeKeepsTyped DEF ClearForRound
  <2>3. CASE SendTransID(t)
    BY <2>3, SendKeepsTyped
  <2>4. CASE SaveExit(t) \/ SetSaved(t) \/ Openbarrier(t)
    BY <2>4, CloseKeepsTyped
  <2> QED
    BY <1>5, <2>1, <2>2, <2>3, <2>4 DEF Step
<1>6. CASE UNCHANGED vars
  BY <1>6 DEF vars, world, lpr, payment, exit, process, paid, timer, history,
     Typed, LaneTyped, ExitTyped, BooksTyped, CallsTyped
<1> QED
  BY <1>1, <1>2, <1>3, <1>4, <1>5, <1>6 DEF Next

LEMMA InitTyped == Init => Typed
<1> SUFFICES ASSUME Init PROVE Typed
  OBVIOUS
<1>1. LaneTyped
  <2>1. 0 \in 0..MaxAnswers /\ 0 \in 0..MaxResults /\ 0 \in 0..MaxRounds
        /\ 0 \in 0..MaxDisturbances
    BY TheBounds
  <2>2. /\ asked \in [Rounds -> 0..MaxAnswers]
        /\ owed \in [0..MaxRounds -> 0..MaxResults]
        /\ seen \in [Rounds -> Vehicles \cup {None}]
    BY <2>1 DEF Init
  <2>3. queue \in Seq(Events)
    BY DEF Init
  <2>4. /\ transID \in 0..MaxRounds /\ round \in 0..MaxRounds
        /\ disturbances \in 0..MaxDisturbances /\ ticks \in 0..1
    BY <2>1 DEF Init
  <2>5. /\ road \subseteq Vehicles /\ onA \in Vehicles \cup {None}
        /\ onC \in Vehicles \cup {None}
        /\ arm \in BOOLEAN /\ loopApresent \in BOOLEAN /\ armed \in BOOLEAN
    BY DEF Init
  <2> QED
    BY <2>2, <2>3, <2>4, <2>5, Zenon DEF LaneTyped
<1>2. ExitTyped /\ BooksTyped
  <2>1. orders \in Seq(Orders) /\ records \in Seq(Rows)
    BY DEF Init
  <2> QED
    BY <2>1, TheNumbers DEF Init, ExitTyped, BooksTyped
<1>3. CallsTyped
  <2>1. \A t \in Threads : call[t] = Idle
    BY DEF Init
  <2>2. call \in [Threads -> Calls]
    BY IdleIsACall DEF Init
  <2> QED
    BY <2>1, <2>2, IdleIsACall, TheThreads DEF CallsTyped
<1> QED
  BY <1>1, <1>2, <1>3 DEF Typed

(***************************************************************************)
(* For any vehicles and bounds the variables of the exit lane keep their   *)
(* types: in particular the amount to pay is always that of somebody's     *)
(* stay, the flat one or nothing.                                          *)
(***************************************************************************)
THEOREM TypeCorrect == SafeSpec => []TypeOK
  BY InitTyped, NextKeepsTyped, TypedImpliesTypeOK, PTL DEF SafeSpec

-----------------------------------------------------------------------------
(***************************************************************************)
(* What each step does, field by field.  The proofs below work with these  *)
(* facts and no longer with the records themselves.                        *)
(***************************************************************************)
books == <<orders, owed, pmsAsked, records, unwritten>>
ids == <<transID, round, seen, asked>>
vehicle == <<iu, entryOf, noEntry, due>>
loop == <<loopApresent, armed, ticks>>

OthersKept(t) == \A u \in Threads : u # t => call'[u] = call[u]
OthersMarked(t) == \A u \in Threads : u # t => Marked(u)

\* The call of t is at another place, for the same reason and number.
MovesTo(t, place) ==
  /\ call'[t].at = place /\ call'[t].arg = call[t].arg /\ call'[t].fee = call[t].fee
  /\ call'[t].kind = call[t].kind /\ call'[t].order = call[t].order
  /\ call'[t].wrote = call[t].wrote /\ call'[t].wiped = call[t].wiped

\* It closes the exit, for a reason.
MovesToSave(t, why) ==
  /\ call'[t].at = "save" /\ call'[t].kind = why /\ call'[t].arg = call[t].arg
  /\ call'[t].order = call[t].order /\ call'[t].wiped = call[t].wiped

\* It is a new one.
StartsAt(t, place, number, why) ==
  /\ call'[t].at = place /\ call'[t].arg = number /\ call'[t].kind = why
  /\ (\E u \in Threads \ {t} : At(u, "detect")) => call'[t].wiped
  /\ call'[t].wiped => \E u \in Threads \ {t} : At(u, "detect")

StaleIfWiped(t) ==
  /\ stale' => stale \/ call[t].wiped
  /\ stale \/ call[t].wiped => stale'

LEMMA GotoSays ==
  ASSUME CallsTyped, NEW t \in Threads, NEW place \in Places, Goto(t, place)
  PROVE  MovesTo(t, place) /\ OthersKept(t)
<1>1. /\ call[t] \in Calls /\ call'[t] = [call[t] EXCEPT !.at = place]
      /\ \A u \in Threads : u # t => call'[u] = call[u]
  BY Goes DEF CallsTyped
<1> QED
  BY <1>1, Moved DEF MovesTo, OthersKept

LEMMA IdleSays ==
  ASSUME CallsTyped, NEW t \in Threads, Become(t, Idle)
  PROVE  call'[t] = Idle /\ call'[t].at = "idle" /\ OthersKept(t)
  BY Becomes, IdleIsACall DEF CallsTyped, OthersKept

LEMMA CallSays ==
  ASSUME CallsTyped, NEW t \in Threads, NEW place \in Places, NEW number \in Numbers,
         NEW why \in Kinds, Become(t, Call(t, place, number, why))
  PROVE  StartsAt(t, place, number, why) /\ OthersKept(t)
<1> DEFINE c == Call(t, place, number, why)
<1>1. /\ c \in Calls /\ c.at = place /\ c.arg = number /\ c.kind = why
      /\ (\E u \in Threads \ {t} : At(u, "detect")) => c.wiped
      /\ c.wiped => \E u \in Threads \ {t} : At(u, "detect")
  BY Begins
<1>2. Become(t, c)
  OBVIOUS
<1> HIDE DEF c
<1>3. call'[t] = c /\ OthersKept(t)
  BY <1>1, <1>2, Becomes DEF CallsTyped, OthersKept
<1> QED
  BY <1>1, <1>3 DEF StartsAt

LEMMA DisturbingCallSays ==
  ASSUME CallsTyped, NEW t \in Threads, NEW place \in Places, NEW number \in Numbers,
         NEW why \in Kinds, Disturb(t, Call(t, place, number, why))
  PROVE  StartsAt(t, place, number, why) /\ OthersMarked(t)
<1> DEFINE c == Call(t, place, number, why)
<1>1. /\ c \in Calls /\ c.at = place /\ c.arg = number /\ c.kind = why
      /\ (\E u \in Threads \ {t} : At(u, "detect")) => c.wiped
      /\ c.wiped => \E u \in Threads \ {t} : At(u, "detect")
  BY Begins
<1>2. Disturb(t, c)
  OBVIOUS
<1> HIDE DEF c
<1>3. call'[t] = c /\ OthersMarked(t)
  BY <1>1, <1>2, Disturbs DEF CallsTyped, OthersMarked
<1> QED
  BY <1>1, <1>3 DEF StartsAt

\* The steps of a call that write tExit.
LEMMA WriteSays ==
  ASSUME CallsTyped, NEW t \in Threads, NEW c \in Calls, WriteExit(t, c)
  PROVE  /\ call'[t] = c /\ OthersMarked(t) /\ StaleIfWiped(t)
         /\ UNCHANGED <<records, stray, unwritten>>
<1>1. /\ Disturb(t, c) /\ stale' = (stale \/ call[t].wiped)
      /\ UNCHANGED <<records, stray, unwritten>>
  BY Zenon DEF WriteExit
<1>2. StaleIfWiped(t)
  BY <1>1 DEF StaleIfWiped
<1> QED
  BY <1>1, <1>2, Disturbs DEF CallsTyped, OthersMarked

LEMMA WriteMovesSays ==
  ASSUME CallsTyped, NEW t \in Threads, NEW place \in Places,
         WriteExit(t, [call[t] EXCEPT !.at = place])
  PROVE  /\ MovesTo(t, place) /\ OthersMarked(t) /\ StaleIfWiped(t)
         /\ UNCHANGED <<records, stray, unwritten>>
<1> DEFINE c == [call[t] EXCEPT !.at = place]
<1>1. /\ c \in Calls /\ c.at = place /\ c.arg = call[t].arg /\ c.fee = call[t].fee
      /\ c.kind = call[t].kind /\ c.order = call[t].order
      /\ c.wrote = call[t].wrote /\ c.wiped = call[t].wiped
  BY Moved DEF CallsTyped
<1>2. WriteExit(t, c)
  OBVIOUS
<1> HIDE DEF c
<1> QED
  BY <1>1, <1>2, WriteSays DEF MovesTo

LEMMA WriteShowsSays ==
  ASSUME CallsTyped, NEW t \in Threads, NEW amount \in Amounts,
         WriteExit(t, [call[t] EXCEPT !.at = "show", !.fee = amount])
  PROVE  /\ call'[t].at = "show" /\ call'[t].fee = amount
         /\ call'[t].arg = call[t].arg /\ call'[t].wiped = call[t].wiped
         /\ OthersMarked(t) /\ StaleIfWiped(t)
         /\ UNCHANGED <<records, stray, unwritten>>
<1> DEFINE c == [call[t] EXCEPT !.at = "show", !.fee = amount]
<1>1. /\ c \in Calls /\ c.at = "show" /\ c.arg = call[t].arg /\ c.fee = amount
      /\ c.wiped = call[t].wiped
  BY DEF CallsTyped, Calls, Places
<1>2. WriteExit(t, c)
  OBVIOUS
<1> HIDE DEF c
<1> QED
  BY <1>1, <1>2, WriteSays

LEMMA WriteClosesSays ==
  ASSUME CallsTyped, NEW t \in Threads, NEW why \in Kinds,
         WriteExit(t, [call[t] EXCEPT !.at = "save", !.kind = why])
  PROVE  /\ MovesToSave(t, why) /\ OthersMarked(t) /\ StaleIfWiped(t)
         /\ UNCHANGED <<records, stray, unwritten>>
<1> DEFINE c == [call[t] EXCEPT !.at = "save", !.kind = why]
<1>1. /\ c \in Calls /\ c.at = "save" /\ c.arg = call[t].arg /\ c.kind = why
      /\ c.wiped = call[t].wiped /\ c.order = call[t].order
  BY DEF CallsTyped, Calls, Places
<1>2. WriteExit(t, c)
  OBVIOUS
<1> HIDE DEF c
<1> QED
  BY <1>1, <1>2, WriteSays DEF MovesToSave

-----------------------------------------------------------------------------
(* LoopACome and Clearme.                                                  *)

LEMMA LoopAComeSays ==
  ASSUME Typed, NEW t \in Threads, LoopACome(t)
  PROVE  /\ call[t].at = "come" /\ MovesTo(t, "clear") /\ OthersKept(t)
         /\ armed' = TRUE
         /\ UNCHANGED <<queue, books, ids, vehicle, loopApresent, ticks, stale,
                        stray, lastPaid>>
  BY GotoSays DEF Typed, LoopACome, At, Places, lpr, payment, exit, process, paid,
     history, books, ids, vehicle

LEMMA ClearmeSays ==
  ASSUME Typed, NEW t \in Threads, NEW next \in Places, Clearme(t, next)
  PROVE  /\ MovesTo(t, next) /\ OthersMarked(t)
         /\ iu' = None /\ entryOf' = None /\ noEntry' = -1 /\ due' = None
         /\ stale' = FALSE
         /\ UNCHANGED <<queue, books, ids, loop, stray, lastPaid>>
<1> DEFINE c == [call[t] EXCEPT !.at = next]
<1>1. /\ c \in Calls /\ c.at = next /\ c.arg = call[t].arg /\ c.fee = call[t].fee
      /\ c.kind = call[t].kind /\ c.order = call[t].order
      /\ c.wrote = call[t].wrote /\ c.wiped = call[t].wiped
  BY Moved DEF Typed, CallsTyped
<1>2. Disturb(t, c)
  BY DEF Clearme
<1> HIDE DEF c
<1>3. MovesTo(t, next) /\ OthersMarked(t)
  BY <1>1, <1>2, Disturbs DEF Typed, CallsTyped, OthersMarked, MovesTo
<1> QED
  BY <1>3 DEF Clearme, lpr, payment, paid, timer, books, ids, loop

LEMMA SendSays ==
  ASSUME Typed, NEW t \in Threads, SendTransID(t)
  PROVE  /\ call[t].at = "detect" /\ call'[t].at = "idle" /\ OthersMarked(t)
         /\ round \in Nat /\ round + 1 \in Rounds
         /\ round' = round + 1 /\ transID' = round + 1
         /\ asked' = [asked EXCEPT ![round + 1] = MaxAnswers]
         /\ seen' = [seen EXCEPT ![round + 1] = onA]
         /\ \A r \in Rounds : r # round + 1 => asked'[r] = asked[r] /\ seen'[r] = seen[r]
         /\ UNCHANGED <<queue, books, vehicle, loop, stale, stray, lastPaid>>
<1>1. call[t].at = "detect" /\ call'[t].at = "idle" /\ OthersMarked(t)
  BY Disturbs, IdleIsACall DEF SendTransID, At, Typed, CallsTyped, OthersMarked
<1>2. round \in Nat /\ round + 1 \in Rounds
  BY DEF SendTransID, Typed, LaneTyped, Rounds
<1>3. /\ asked' = [asked EXCEPT ![round + 1] = MaxAnswers]
      /\ seen' = [seen EXCEPT ![round + 1] = onA]
  BY DEF SendTransID
<1>4. \A r \in Rounds : r # round + 1 => asked'[r] = asked[r] /\ seen'[r] = seen[r]
  BY <1>3 DEF Typed, LaneTyped
<1> QED
  BY <1>1, <1>2, <1>3, <1>4 DEF SendTransID, payment, exit, paid, timer, history, books,
     vehicle, loop

-----------------------------------------------------------------------------
(* The event thread.                                                       *)

TakesFrom(q) == q # <<>> /\ queue' = Tail(q)

LEMMA TakeSays ==
  ASSUME NEW e, Take(e)
  PROVE  /\ call[Event].at = "idle" /\ TakesFrom(queue) /\ Head(queue) = e
         /\ UNCHANGED <<round, seen, asked, orders, owed, pmsAsked, onA>>
  BY DEF Take, At, TakesFrom, world, lpr, payment

LEMMA LoopSays ==
  ASSUME Typed
  PROVE  /\ LoopAOn => /\ Take(<<"A_ON">>) /\ MovesTo(Event, "come") /\ OthersKept(Event)
                       /\ loopApresent' = TRUE
                       /\ UNCHANGED <<books, ids, vehicle, armed, ticks, stale, stray, lastPaid>>
         /\ LoopAOff => /\ Take(<<"A_OFF">>) /\ call' = call
                        /\ loopApresent' = FALSE /\ armed' = FALSE
                        /\ stray \/ ticks > 0 \/ call[Timer].at # "idle" => stray'
                        /\ stray' => stray \/ ticks > 0 \/ call[Timer].at # "idle"
                        /\ UNCHANGED <<books, ids, vehicle, ticks, stale, lastPaid>>
         /\ LoopCOff => /\ Take(<<"C_OFF">>) /\ MovesTo(Event, "cGone") /\ OthersKept(Event)
                        /\ UNCHANGED <<books, ids, vehicle, loop, stale, stray, lastPaid>>
<1> USE DEF Take, lpr, payment, exit, process, paid, timer, history, books, ids, vehicle, loop
<1>0. Event \in Threads /\ CallsTyped /\ Event # Timer
  BY TheThreads DEF Typed
<1>1. ASSUME LoopAOn
      PROVE  /\ Take(<<"A_ON">>) /\ MovesTo(Event, "come") /\ OthersKept(Event)
             /\ loopApresent' = TRUE
             /\ UNCHANGED <<books, ids, vehicle, armed, ticks, stale, stray, lastPaid>>
  <2>1. MovesTo(Event, "come") /\ OthersKept(Event)
    BY <1>0, <1>1, GotoSays DEF LoopAOn, Places
  <2> QED
    BY <1>1, <2>1 DEF LoopAOn
<1>2. ASSUME LoopAOff
      PROVE  /\ Take(<<"A_OFF">>) /\ call' = call
             /\ loopApresent' = FALSE /\ armed' = FALSE
             /\ stray \/ ticks > 0 \/ call[Timer].at # "idle" => stray'
             /\ stray' => stray \/ ticks > 0 \/ call[Timer].at # "idle"
             /\ UNCHANGED <<books, ids, vehicle, ticks, stale, lastPaid>>
  <2>1. stray' = (stray \/ ticks > 0 \/ (Event # Timer /\ ~At(Timer, "idle")))
    BY <1>2, Zenon DEF LoopAOff, StopTimer
  <2>2. /\ stray \/ ticks > 0 \/ call[Timer].at # "idle" => stray'
        /\ stray' => stray \/ ticks > 0 \/ call[Timer].at # "idle"
    BY <1>0, <2>1 DEF At
  <2> QED
    BY <1>2, <2>2 DEF LoopAOff, StopTimer
<1>3. ASSUME LoopCOff
      PROVE  /\ Take(<<"C_OFF">>) /\ MovesTo(Event, "cGone") /\ OthersKept(Event)
             /\ UNCHANGED <<books, ids, vehicle, loop, stale, stray, lastPaid>>
  <2>1. MovesTo(Event, "cGone") /\ OthersKept(Event)
    BY <1>0, <1>3, GotoSays DEF LoopCOff, Places
  <2> QED
    BY <1>3, <2>1 DEF LoopCOff
<1> QED
  BY <1>1, <1>2, <1>3

LEMMA BarrierSays ==
  ASSUME Typed, BarrierStatusOn
  PROVE  /\ Take(<<"BARRIER_ON">>)
         /\ call' = call \/ (StartsAt(Event, "save", iu, "manual") /\ OthersKept(Event))
         /\ UNCHANGED <<books, ids, vehicle, loop, stale, stray, lastPaid>>
<1>1. call' = call \/ (StartsAt(Event, "save", iu, "manual") /\ OthersKept(Event))
  BY CallSays, TheThreads DEF BarrierStatusOn, Typed, ExitTyped, Places, Kinds
<1> QED
  BY <1>1 DEF BarrierStatusOn, Take, lpr, payment, exit, process, paid, timer, history,
     books, ids, vehicle, loop

LEMMA LPRSays ==
  ASSUME Typed, NEW r \in Rounds, NEW p \in Vehicles \cup {None}, ReceivedLPR(r, p)
  PROVE  /\ Take(<<"LPR", r, p>>)
         /\ \/ call' = call
            \/ /\ StartsAt(Event, "check", p, "none") /\ OthersKept(Event)
               /\ p # None /\ transID = r /\ loopApresent /\ iu = None
         /\ UNCHANGED <<books, ids, vehicle, loop, stale, stray, lastPaid>>
<1>1. CASE p # None /\ transID = r /\ loopApresent /\ NotYetOut
  <2>1. Become(Event, Call(Event, "check", p, "none"))
    BY <1>1 DEF ReceivedLPR
  <2>2. "check" \in Places /\ p \in Numbers /\ "none" \in Kinds
    BY DEF Places, Kinds, Numbers
  <2>3. StartsAt(Event, "check", p, "none") /\ OthersKept(Event)
    BY <2>1, <2>2, CallSays, TheThreads DEF Typed
  <2> QED
    BY <1>1, <2>3 DEF NotYetOut, ReceivedLPR, Take, lpr, payment, process, paid, timer,
       history, books, ids, vehicle, loop
<1>2. CASE ~(p # None /\ transID = r /\ loopApresent /\ NotYetOut)
  BY <1>2 DEF ReceivedLPR, Take, lpr, payment, process, paid, timer, history,
     books, ids, vehicle, loop
<1> QED
  BY <1>1, <1>2

LEMMA CardSays ==
  ASSUME Typed, CardReceived
  PROVE  /\ Take(<<"CARD">>) /\ StartsAt(Event, "check", Card, "none") /\ OthersKept(Event)
         /\ UNCHANGED <<books, ids, vehicle, loop, stale, stray, lastPaid>>
<1>1. StartsAt(Event, "check", Card, "none") /\ OthersKept(Event)
  BY CallSays, TheThreads DEF CardReceived, Typed, Numbers, Places, Kinds
<1> QED
  BY <1>1 DEF CardReceived, Take, lpr, payment, exit, process, paid, timer, history,
     books, ids, vehicle, loop

LEMMA PaySays ==
  ASSUME Typed, NEW id \in 0..MaxRounds, NEW s \in {"ok", "insufficient"},
         PayResult(id, s)
  PROVE  /\ Take(<<"PAY", id, s>>) /\ OthersKept(Event)
         /\ \/ call' = call /\ lastPaid' = lastPaid
            \/ /\ StartsAt(Event, "save", iu, "paid") /\ call'[Event].order = id
               /\ lastPaid' = iu
         /\ UNCHANGED <<books, ids, vehicle, loop, stale, stray>>
<1> DEFINE b == Call(Event, "save", iu, "paid")
           c == [b EXCEPT !.order = id]
<1>1. CASE s = "ok"
  <2>1. Become(Event, c) /\ lastPaid' = iu
    BY <1>1 DEF PayResult
  <2>a. iu \in Numbers /\ "save" \in Places /\ "paid" \in Kinds /\ Event \in Threads
    BY TheThreads DEF Typed, ExitTyped, Places, Kinds
  <2>2. /\ b \in Calls /\ b.at = "save" /\ b.arg = iu /\ b.kind = "paid"
        /\ (\E u \in Threads \ {Event} : At(u, "detect")) => b.wiped
        /\ b.wiped => \E u \in Threads \ {Event} : At(u, "detect")
    BY <2>a, Begins
  <2> HIDE DEF b
  <2>3. /\ c \in Calls /\ c.at = "save" /\ c.arg = iu /\ c.kind = "paid"
        /\ c.order = id /\ c.wiped = b.wiped
    BY <2>2 DEF Calls
  <2> HIDE DEF c
  <2>4. call'[Event] = c /\ OthersKept(Event)
    BY <2>1, <2>3, Becomes, TheThreads DEF Typed, CallsTyped, OthersKept
  <2>5. StartsAt(Event, "save", iu, "paid") /\ call'[Event].order = id
    BY <2>2, <2>3, <2>4 DEF StartsAt
  <2> QED
    BY <1>1, <2>1, <2>4, <2>5 DEF PayResult, Take, lpr, payment, process, timer, history,
       books, ids, vehicle, loop
<1>2. CASE s # "ok"
  BY <1>2 DEF PayResult, Take, lpr, payment, process, paid, timer, history,
     books, ids, vehicle, loop, OthersKept
<1> QED
  BY <1>1, <1>2

-----------------------------------------------------------------------------
(* CheckIUorCardStatus and PBSExit.                                        *)

\* A payment is asked for under the current id.
Requests(amount) ==
  /\ Len(orders') = Len(orders) + 1
  /\ \A i \in 1..Len(orders) : orders'[i] = orders[i]
  /\ orders'[Len(orders) + 1].id = transID
  /\ orders'[Len(orders) + 1].amount = amount
  /\ call[Event].wiped \/ stale => orders'[Len(orders) + 1].disturbed
  /\ orders'[Len(orders) + 1].disturbed => call[Event].wiped \/ stale
  /\ \A r \in 0..MaxRounds : r # transID => owed'[r] = owed[r]

LEMMA PayRequestSays ==
  ASSUME Typed, NEW amount \in Amounts, PayRequest(amount)
  PROVE  Requests(amount)
<1> DEFINE w == call[Event].wiped \/ stale
           o == [id |-> transID, amount |-> amount, disturbed |-> w]
<1>1. orders' = Append(orders, o) /\ owed' = [owed EXCEPT ![transID] = MaxResults]
  BY DEF PayRequest
<1>2. w \in BOOLEAN /\ (w <=> (call[Event].wiped \/ stale))
  BY Zenon
<1> HIDE DEF w
<1>3. o \in Orders /\ o.id = transID /\ o.amount = amount /\ o.disturbed = w
  BY <1>2 DEF Orders, Typed, LaneTyped
<1> HIDE DEF o
<1>4. /\ Len(orders') = Len(orders) + 1
      /\ \A i \in 1..Len(orders) : orders'[i] = orders[i]
      /\ orders'[Len(orders) + 1] = o
  BY <1>1, <1>3 DEF Typed, BooksTyped
<1>5. \A r \in 0..MaxRounds : r # transID => owed'[r] = owed[r]
  BY <1>1 DEF Typed, LaneTyped
<1>6. /\ call[Event].wiped \/ stale => o.disturbed
      /\ o.disturbed => call[Event].wiped \/ stale
  BY <1>2, <1>3
<1> QED
  BY <1>3, <1>4, <1>5, <1>6, Zenon DEF Requests

LEMMA CallOnlySays ==
  ASSUME UNCHANGED callOnly
  PROVE  UNCHANGED <<queue, ids, loop, onA>>
  BY DEF callOnly, world, lpr, timer, process, ids, loop

LEMMA WaitForCardSays ==
  ASSUME Typed, WaitForCard
  PROVE  /\ call[Event].at = "check" /\ call'[Event] = call[Event]
         /\ OthersMarked(Event) /\ StaleIfWiped(Event)
         /\ UNCHANGED <<queue, books, ids, vehicle, loop, stray, lastPaid>>
<1>1. call[Event] \in Calls /\ Event \in Threads /\ CallsTyped
  BY TheThreads DEF Typed, CallsTyped
<1>2. WriteExit(Event, call[Event]) /\ call[Event].at = "check"
  BY DEF WaitForCard, At
<1>3. /\ call'[Event] = call[Event] /\ OthersMarked(Event) /\ StaleIfWiped(Event)
      /\ UNCHANGED <<records, stray, unwritten>>
  BY <1>1, <1>2, WriteSays
<1> QED
  BY <1>2, <1>3, CallOnlySays DEF WaitForCard, payment, paid, books, vehicle

LEMMA EndsSays ==
  ASSUME Typed, SameCardAgain \/ TurnedAway
  PROVE  /\ call'[Event].at = "idle" /\ OthersKept(Event)
         /\ UNCHANGED <<queue, books, ids, vehicle, loop, stale, stray, lastPaid>>
<1>1. Become(Event, Idle) /\ Event \in Threads /\ CallsTyped
  BY TheThreads DEF SameCardAgain, TurnedAway, Typed
<1>2. call'[Event].at = "idle" /\ OthersKept(Event)
  BY <1>1, IdleSays
<1> QED
  BY <1>2, CallOnlySays DEF SameCardAgain, TurnedAway, payment, exit, paid, history,
     books, vehicle

LEMMA CheckCardSays ==
  ASSUME Typed, CheckCardOK
  PROVE  /\ call[Event].at = "check"
         /\ \/ /\ MovesToSave(Event, "card") /\ OthersMarked(Event)
               /\ StaleIfWiped(Event) /\ due' = None /\ UNCHANGED <<orders, owed>>
            \/ /\ call'[Event].at = "idle" /\ OthersKept(Event)
               /\ UNCHANGED <<due, stale>>
               /\ \/ UNCHANGED <<orders, owed>>
                  \/ due # None /\ Requests(due)
         /\ UNCHANGED <<queue, pmsAsked, records, unwritten, ids, iu, entryOf,
                        noEntry, loop, stray, lastPaid>>
<1>0. Event \in Threads /\ CallsTyped /\ "card" \in Kinds /\ due \in Amounts
  BY TheThreads DEF Typed, Kinds, ExitTyped
<1>1. UNCHANGED <<queue, pmsAsked, ids, iu, entryOf, noEntry, loop, lastPaid>>
      /\ call[Event].at = "check"
  BY CallOnlySays DEF CheckCardOK, At, paid
<1>2. CASE /\ due' = None /\ NoRequest
           /\ WriteExit(Event, [call[Event] EXCEPT !.at = "save", !.kind = "card"])
  <2>1. /\ MovesToSave(Event, "card") /\ OthersMarked(Event)
        /\ StaleIfWiped(Event) /\ UNCHANGED <<records, stray, unwritten>>
    BY <1>0, <1>2, WriteClosesSays
  <2> QED
    BY <1>1, <1>2, <2>1 DEF NoRequest, payment
<1>3. CASE /\ IF due # None THEN PayRequest(due) ELSE NoRequest
           /\ Become(Event, Idle)
           /\ UNCHANGED <<due, history>>
  <2>1. call'[Event].at = "idle" /\ OthersKept(Event)
    BY <1>0, <1>3, IdleSays
  <2>2. UNCHANGED <<orders, owed>> \/ (due # None /\ Requests(due))
    BY <1>0, <1>3, PayRequestSays DEF NoRequest, payment
  <2>3. UNCHANGED <<due, records, stale, stray, unwritten>>
    BY <1>3 DEF history
  <2> QED
    BY <1>1, <2>1, <2>2, <2>3
<1> QED
  BY <1>2, <1>3 DEF CheckCardOK

LEMMA SameSays ==
  ASSUME Typed, SameAsLast
  PROVE  /\ call[Event].at = "check" /\ call[Event].arg = lastPaid
         /\ \/ call'[Event].at = "idle"
            \/ /\ call'[Event].at = "open" /\ call'[Event].kind = "again"
               /\ call'[Event].arg = call[Event].arg
         /\ OthersKept(Event)
         /\ UNCHANGED <<queue, books, ids, vehicle, loop, stale, stray, lastPaid>>
<1>0. Event \in Threads /\ CallsTyped /\ call[Event] \in Calls
  BY TheThreads DEF Typed, CallsTyped
<1>1. /\ \/ call'[Event].at = "idle"
         \/ /\ call'[Event].at = "open" /\ call'[Event].kind = "again"
            /\ call'[Event].arg = call[Event].arg
      /\ OthersKept(Event)
  <2>1. CASE Become(Event, Idle)
    BY <1>0, <2>1, IdleSays
  <2>2. CASE Become(Event, [call[Event] EXCEPT !.at = "open", !.kind = "again"])
    <3> DEFINE c == [call[Event] EXCEPT !.at = "open", !.kind = "again"]
    <3>1. c \in Calls /\ c.at = "open" /\ c.kind = "again" /\ c.arg = call[Event].arg
      BY <1>0 DEF Calls, Places, Kinds
    <3>2. Become(Event, c)
      BY <2>2
    <3> HIDE DEF c
    <3> QED
      BY <1>0, <3>1, <3>2, Becomes DEF CallsTyped, OthersKept
  <2> QED
    BY <2>1, <2>2 DEF SameAsLast
<1> QED
  BY <1>1, CallOnlySays DEF SameAsLast, NotWaiting, At, payment, exit, paid, history,
     books, vehicle

LEMMA StartSays ==
  ASSUME Typed, StartPBSExit
  PROVE  /\ call[Event].at = "check"
         /\ \/ /\ call'[Event].at = "idle" /\ OthersKept(Event)
               /\ UNCHANGED <<iu, stale>>
            \/ /\ MovesTo(Event, "fetch") /\ OthersMarked(Event)
               /\ StaleIfWiped(Event) /\ iu' = call[Event].arg
         /\ UNCHANGED <<queue, books, ids, entryOf, noEntry, due, loop, stray, lastPaid>>
<1>0. Event \in Threads /\ CallsTyped /\ "fetch" \in Places
  BY TheThreads DEF Typed, Places
<1>1. CASE call[Event].arg = iu
  <2>1. call'[Event].at = "idle" /\ OthersKept(Event)
    BY <1>0, <1>1, IdleSays DEF StartPBSExit
  <2> QED
    BY <1>1, <2>1, CallOnlySays DEF StartPBSExit, NotWaiting, At, payment, paid, history,
       books
<1>2. CASE call[Event].arg # iu
  <2>1. /\ MovesTo(Event, "fetch") /\ OthersMarked(Event) /\ StaleIfWiped(Event)
        /\ UNCHANGED <<records, stray, unwritten>>
    BY <1>0, <1>2, WriteMovesSays DEF StartPBSExit
  <2> QED
    BY <1>2, <2>1, CallOnlySays DEF StartPBSExit, NotWaiting, At, payment, paid, books
<1> QED
  BY <1>1, <1>2

LEMMA FetchSays ==
  ASSUME Typed, FetchEntryinfo
  PROVE  /\ call[Event].at = "fetch" /\ MovesTo(Event, "season")
         /\ OthersMarked(Event) /\ StaleIfWiped(Event)
         /\ entryOf' = entryOf \/ (noEntry = -1 /\ entryOf' = call[Event].arg)
         /\ UNCHANGED <<queue, books, ids, iu, due, loop, stray, lastPaid>>
<1>0. Event \in Threads /\ CallsTyped /\ "season" \in Places
  BY TheThreads DEF Typed, Places
<1>1. /\ MovesTo(Event, "season") /\ OthersMarked(Event) /\ StaleIfWiped(Event)
      /\ UNCHANGED <<records, stray, unwritten>>
  BY <1>0, WriteMovesSays DEF FetchEntryinfo
<1> QED
  BY <1>1, CallOnlySays DEF FetchEntryinfo, At, payment, paid, books

LEMMA SeasonSays ==
  ASSUME Typed, SeasonParking
  PROVE  /\ call[Event].at = "season" /\ MovesToSave(Event, "season")
         /\ OthersMarked(Event) /\ StaleIfWiped(Event) /\ due' = None
         /\ UNCHANGED <<queue, books, ids, iu, entryOf, noEntry, loop, stray, lastPaid>>
<1>0. Event \in Threads /\ CallsTyped /\ "season" \in Kinds
  BY TheThreads DEF Typed, Kinds
<1>1. /\ MovesToSave(Event, "season") /\ OthersMarked(Event) /\ StaleIfWiped(Event)
      /\ UNCHANGED <<records, stray, unwritten>>
  BY <1>0, WriteClosesSays DEF SeasonParking
<1> QED
  BY <1>1, CallOnlySays DEF SeasonParking, At, payment, paid, books

LEMMA CalculateSays ==
  ASSUME Typed, CalculateFee
  PROVE  /\ call[Event].at = "season"
         /\ call'[Event].at = "show" /\ call'[Event].arg = call[Event].arg
         /\ call'[Event].wiped = call[Event].wiped
         /\ due' \in Fees /\ call'[Event].fee = due'
         /\ OthersMarked(Event) /\ StaleIfWiped(Event)
         /\ UNCHANGED <<queue, books, ids, iu, entryOf, noEntry, loop, stray, lastPaid>>
<1>0. Event \in Threads /\ CallsTyped
  BY TheThreads DEF Typed
<1>1. PICK amount \in Fees :
        /\ due' = amount
        /\ WriteExit(Event, [call[Event] EXCEPT !.at = "show", !.fee = amount])
  BY DEF CalculateFee
<1>2. amount \in Amounts
  BY FeesAreAmounts DEF Typed
<1>3. /\ call'[Event].at = "show" /\ call'[Event].fee = amount
      /\ call'[Event].arg = call[Event].arg /\ call'[Event].wiped = call[Event].wiped
      /\ OthersMarked(Event) /\ StaleIfWiped(Event)
      /\ UNCHANGED <<records, stray, unwritten>>
  BY <1>0, <1>1, <1>2, WriteShowsSays
<1> QED
  BY <1>1, <1>3, CallOnlySays DEF CalculateFee, At, payment, paid, books

LEMMA AskSays ==
  ASSUME Typed, AskPms
  PROVE  /\ call[Event].at = "season" /\ call'[Event].at = "idle" /\ OthersKept(Event)
         /\ pmsAsked' = pmsAsked \cup {[id |-> transID, number |-> call[Event].arg]}
         /\ noEntry # -1
         /\ UNCHANGED <<queue, orders, owed, records, unwritten, ids, vehicle, loop,
                        stale, stray, lastPaid>>
<1>1. call'[Event].at = "idle" /\ OthersKept(Event)
  BY TheThreads, IdleSays DEF AskPms, Typed
<1> QED
  BY <1>1, CallOnlySays DEF AskPms, At, payment, exit, paid, history, vehicle

LEMMA ShowSays ==
  ASSUME Typed, ShowFee
  PROVE  /\ call[Event].at = "show" /\ due' = call[Event].fee
         /\ \/ /\ call[Event].fee # None /\ Requests(call[Event].fee)
               /\ call'[Event].at = "idle"
            \/ /\ call[Event].fee = None /\ UNCHANGED <<orders, owed>>
               /\ MovesToSave(Event, "free")
         /\ OthersMarked(Event) /\ StaleIfWiped(Event)
         /\ UNCHANGED <<queue, pmsAsked, records, unwritten, ids, iu, entryOf,
                        noEntry, loop, stray, lastPaid>>
<1>0. /\ Event \in Threads /\ CallsTyped /\ "free" \in Kinds
      /\ call[Event].fee \in Amounts
  BY TheThreads DEF Typed, Kinds, CallsTyped, Calls
<1>1. CASE call[Event].fee # None
  <2>1. PayRequest(call[Event].fee) /\ WriteExit(Event, Idle)
    BY <1>1 DEF ShowFee
  <2>2. Requests(call[Event].fee)
    BY <1>0, <2>1, PayRequestSays
  <2>3. /\ call'[Event].at = "idle" /\ OthersMarked(Event) /\ StaleIfWiped(Event)
        /\ UNCHANGED <<records, stray, unwritten>>
    BY <1>0, <2>1, WriteSays, IdleIsACall
  <2> QED
    BY <1>1, <2>2, <2>3, CallOnlySays DEF ShowFee, At, paid
<1>2. CASE call[Event].fee = None
  <2>1. /\ NoRequest
        /\ WriteExit(Event, [call[Event] EXCEPT !.at = "save", !.kind = "free"])
    BY <1>2 DEF ShowFee
  <2>2. /\ MovesToSave(Event, "free") /\ OthersMarked(Event) /\ StaleIfWiped(Event)
        /\ UNCHANGED <<records, stray, unwritten>>
    BY <1>0, <2>1, WriteClosesSays
  <2> QED
    BY <1>2, <2>1, <2>2, CallOnlySays DEF ShowFee, At, paid, NoRequest, payment
<1> QED
  BY <1>1, <1>2

-----------------------------------------------------------------------------
(* CloseExitOperation.                                                     *)

\* A row is written for what tExit and the id hold now.
Writes(t) ==
  /\ Len(records') = Len(records) + 1
  /\ \A i \in 1..Len(records) : records'[i] = records[i]
  /\ records'[Len(records) + 1].round = transID
  /\ records'[Len(records) + 1].number = iu
  /\ records'[Len(records) + 1].kind = call[t].kind
  /\ records'[Len(records) + 1].amount = due
  /\ records'[Len(records) + 1].order = call[t].order
  /\ call[t].wiped \/ stale \/ (t = Timer /\ stray)
       => records'[Len(records) + 1].disturbed
  /\ records'[Len(records) + 1].disturbed
       => call[t].wiped \/ stale \/ (t = Timer /\ stray)

\* A call that learns of no failure has its row, and a payment that has none is
\* remembered as such.
Tells(t) ==
  /\ call'[t].at = "saved" => records'[Len(records) + 1].result # "lost"
  /\ call[t].kind = "paid" /\ records'[Len(records) + 1].result = "lost"
       => call[t].arg \in unwritten'

LEMMA SaveSays ==
  ASSUME Typed, NEW t \in Threads, SaveExit(t)
  PROVE  /\ call[t].at = "save" /\ OthersKept(t)
         /\ \/ iu = None /\ MovesTo(t, "open") /\ UNCHANGED records
            \/ /\ iu # None /\ Writes(t)
               /\ call'[t].at \in {"saved", "failed"} /\ call'[t].wrote = iu
               /\ call'[t].arg = call[t].arg /\ call'[t].kind = call[t].kind
               /\ call'[t].wiped = call[t].wiped
               /\ Tells(t)
         /\ unwritten \subseteq unwritten'
         /\ call[t].kind = "paid" /\ call[t].wiped => call[t].arg \in unwritten'
         /\ UNCHANGED <<queue, orders, owed, pmsAsked, ids, vehicle, loop, stale,
                        stray, lastPaid>>
<1>0. CallsTyped /\ call[t] \in Calls /\ "open" \in Places /\ iu \in Numbers
  BY DEF Typed, CallsTyped, Places, ExitTyped
<1>1. /\ unwritten \subseteq unwritten'
      /\ call[t].kind = "paid" /\ call[t].wiped => call[t].arg \in unwritten'
      /\ call[t].at = "save"
      /\ UNCHANGED <<queue, orders, owed, pmsAsked, ids, vehicle, loop, stale,
                     stray, lastPaid>>
  BY CallOnlySays DEF SaveExit, At, payment, exit, paid, vehicle
<1>2. CASE iu = None
  <2>1. MovesTo(t, "open") /\ OthersKept(t) /\ UNCHANGED records
    BY <1>0, <1>2, GotoSays DEF SaveExit
  <2> QED
    BY <1>1, <1>2, <2>1
<1>3. CASE iu # None
  <2>1. PICK result \in Results :
          /\ Become(t, [call[t] EXCEPT
                         !.at = IF result = "stored" THEN "saved" ELSE "failed",
                         !.wrote = iu])
          /\ records' = Append(records, Row(t, result))
          /\ call[t].kind = "paid" /\ result = "lost" => call[t].arg \in unwritten'
    BY <1>3 DEF SaveExit
  <2> DEFINE rec == Row(t, result)
             d == [call[t] EXCEPT
                     !.at = IF result = "stored" THEN "saved" ELSE "failed",
                     !.wrote = iu]
  <2>2. /\ rec \in Rows /\ rec.round = transID /\ rec.number = iu
        /\ rec.kind = call[t].kind /\ rec.amount = due /\ rec.order = call[t].order
        /\ rec.result = result
        /\ rec.disturbed <=> (call[t].wiped \/ stale \/ (t = Timer /\ stray))
    BY <1>0, RowIsTyped DEF Typed
  <2> HIDE DEF rec
  <2>3. /\ Len(records') = Len(records) + 1
        /\ \A i \in 1..Len(records) : records'[i] = records[i]
        /\ records'[Len(records) + 1] = rec
    BY <2>1, <2>2 DEF Typed, BooksTyped, rec
  <2>4. /\ d \in Calls /\ d.at \in {"saved", "failed"} /\ d.wrote = iu
        /\ d.arg = call[t].arg /\ d.kind = call[t].kind /\ d.wiped = call[t].wiped
        /\ d.at = "saved" => result = "stored"
    BY <1>0 DEF Calls, Places
  <2>5. Become(t, d)
    BY <2>1
  <2> HIDE DEF d
  <2>6. call'[t] = d /\ OthersKept(t)
    BY <1>0, <2>4, <2>5, Becomes DEF CallsTyped, OthersKept
  <2>7. Writes(t)
    BY <2>2, <2>3, Zenon DEF Writes
  <2>8. Tells(t)
    BY <2>1, <2>2, <2>3, <2>4, <2>6 DEF Tells
  <2> QED
    BY <1>1, <1>3, <2>4, <2>6, <2>7, <2>8
<1> QED
  BY <1>2, <1>3

LEMMA SetSavedSays ==
  ASSUME Typed, NEW t \in Threads, SetSaved(t)
  PROVE  /\ call[t].at \in {"saved", "failed"} /\ MovesTo(t, "open") /\ OthersKept(t)
         /\ unwritten \subseteq unwritten'
         /\ \/ /\ call[t].at = "saved" /\ lastPaid' = iu
               /\ call[t].wiped => iu \in unwritten'
            \/ lastPaid' = lastPaid
         /\ UNCHANGED <<queue, orders, owed, pmsAsked, records, ids, vehicle, loop,
                        stale, stray>>
<1>1. MovesTo(t, "open") /\ OthersKept(t)
  BY GotoSays DEF SetSaved, Typed, Places
<1> QED
  BY <1>1 DEF SetSaved, At, payment, exit, timer, lpr, ids, vehicle, loop

LEMMA OpenSays ==
  ASSUME Typed, NEW t \in Threads, Openbarrier(t)
  PROVE  /\ call[t].at = "open" /\ call'[t].at = "idle" /\ OthersKept(t)
         /\ armed' = FALSE
         /\ stray \/ ticks > 0 => stray'
         /\ t # Timer /\ call[Timer].at # "idle" => stray'
         /\ queue' = queue \/ queue' = Append(queue, <<"BARRIER_ON">>)
         /\ UNCHANGED <<books, ids, vehicle, loopApresent, ticks, stale, lastPaid>>
<1>1. call'[t].at = "idle" /\ OthersKept(t)
  BY IdleSays DEF Openbarrier, Typed
<1>2. stray' = (stray \/ ticks > 0 \/ (t # Timer /\ ~At(Timer, "idle")))
  BY Zenon DEF Openbarrier, StopTimer
<1>3. /\ stray \/ ticks > 0 => stray'
      /\ t # Timer /\ call[Timer].at # "idle" => stray'
  BY <1>2 DEF At
<1> QED
  BY <1>1, <1>3 DEF Openbarrier, StopTimer, At, lpr, payment, exit, paid, books, ids,
     vehicle

-----------------------------------------------------------------------------
(* The lane, the timer strand, the PMS strand.                             *)

\* An event joins the queue: the answers and results were owed.
Joins ==
  \/ queue' \in {Append(queue, <<"A_ON">>), Append(queue, <<"A_OFF">>),
                 Append(queue, <<"C_OFF">>), Append(queue, <<"BARRIER_ON">>),
                 Append(queue, <<"CARD">>)}
  \/ \E r \in Rounds : asked[r] > 0 /\ queue' = Append(queue, <<"LPR", r, seen[r]>>)
  \/ \E id \in 0..MaxRounds, s \in {"ok", "insufficient"} :
       owed[id] > 0 /\ queue' = Append(queue, <<"PAY", id, s>>)

LEMMA WorldSays ==
  ASSUME Typed, World
  PROVE  /\ Joins
         /\ \A r \in Rounds : asked'[r] <= asked[r]
         /\ \A id \in 0..MaxRounds : owed'[id] <= owed[id]
         /\ UNCHANGED <<call, orders, pmsAsked, records, unwritten, transID, round,
                        seen, vehicle, loop, stale, stray, lastPaid>>
<1> USE DEF station, exit, process, paid, timer, history, vehicle, loop
<1>0. /\ \A r \in Rounds : asked[r] \in Nat
      /\ \A id \in 0..MaxRounds : owed[id] \in Nat
  BY DEF Typed, LaneTyped
<1>1. ASSUME NEW r \in Rounds, LprAnswers(r)
      PROVE  /\ Joins /\ UNCHANGED <<owed, seen, orders>>
             /\ \A q \in Rounds : asked'[q] <= asked[q]
  <2>1. Joins /\ UNCHANGED <<owed, seen, orders>>
    BY <1>1 DEF LprAnswers, Happens, Joins, payment
  <2>2. asked' = [asked EXCEPT ![r] = asked[r] - 1] /\ asked \in [Rounds -> 0..MaxAnswers]
    BY <1>1 DEF LprAnswers, Typed, LaneTyped
  <2>3. ASSUME NEW q \in Rounds PROVE asked'[q] <= asked[q]
    <3>1. asked'[q] = asked[q] \/ asked'[q] = asked[q] - 1
      BY <2>2
    <3> QED
      BY <1>0, <3>1
  <2> QED
    BY <2>1, <2>3
<1>2. ASSUME NEW id \in 0..MaxRounds, NEW s \in {"ok", "insufficient"},
             ServiceAnswers(id, s)
      PROVE  /\ Joins /\ UNCHANGED <<asked, seen, orders>>
             /\ \A q \in 0..MaxRounds : owed'[q] <= owed[q]
  <2>1. Joins /\ UNCHANGED <<asked, seen, orders>>
    BY <1>2 DEF ServiceAnswers, Happens, Joins, lpr
  <2>2. owed' = [owed EXCEPT ![id] = owed[id] - 1] /\ owed \in [0..MaxRounds -> 0..MaxResults]
    BY <1>2 DEF ServiceAnswers, Typed, LaneTyped
  <2>3. ASSUME NEW q \in 0..MaxRounds PROVE owed'[q] <= owed[q]
    <3>1. owed'[q] = owed[q] \/ owed'[q] = owed[q] - 1
      BY <2>2
    <3> QED
      BY <1>0, <3>1
  <2> QED
    BY <2>1, <2>3
<1>3. ASSUME \/ \E v \in Vehicles : Arrive(v)
             \/ DriveOn \/ Reverse \/ LeaveC \/ OperatorRaisesArm \/ CardIsTapped
      PROVE  Joins /\ UNCHANGED <<asked, seen, orders, owed>>
  BY <1>3 DEF Arrive, DriveOn, Reverse, LeaveC, OperatorRaisesArm, CardIsTapped,
     Happens, Joins, lpr, payment
<1>4. Joins
  BY <1>1, <1>2, <1>3 DEF World
<1>5. /\ \A r \in Rounds : asked'[r] <= asked[r]
      /\ \A id \in 0..MaxRounds : owed'[id] <= owed[id]
      /\ UNCHANGED <<seen, orders>>
  BY <1>0, <1>1, <1>2, <1>3 DEF World
<1>6. UNCHANGED station
  BY DEF World, Arrive, DriveOn, Reverse, LeaveC, OperatorRaisesArm, LprAnswers,
     ServiceAnswers, CardIsTapped
<1> QED
  BY <1>4, <1>5, <1>6

LEMMA TimerOnlySays ==
  ASSUME UNCHANGED timerOnly
  PROVE  UNCHANGED <<queue, orders, owed, pmsAsked, ids, loopApresent, lastPaid>>
  BY DEF timerOnly, lpr, payment, process, paid, ids

LEMMA HandlerSays ==
  ASSUME Typed, TimerExpires \/ WaitAnotherSecond
  PROVE  /\ call' = call
         /\ armed \/ ticks > 0
         /\ UNCHANGED <<queue, books, ids, vehicle, loopApresent, stale, stray, lastPaid>>
  BY TimerOnlySays DEF TimerExpires, WaitAnotherSecond, Handler, exit, history, books,
     vehicle

LEMMA TimeoutSays ==
  ASSUME Typed, OperationTimeout
  PROVE  /\ call[Timer].at = "idle" /\ ticks > 0 /\ MovesTo(Timer, "come")
         /\ OthersKept(Timer) /\ armed' = armed /\ ticks' = 0
         /\ UNCHANGED <<queue, books, ids, vehicle, loopApresent, stale, stray, lastPaid>>
<1>1. MovesTo(Timer, "come") /\ OthersKept(Timer)
  BY TheThreads, GotoSays DEF OperationTimeout, Typed, Places
<1> QED
  BY <1>1, TimerOnlySays DEF OperationTimeout, Handler, At, exit, history, books, vehicle

LEMMA NoPlateSays ==
  ASSUME Typed, LpnTimeout
  PROVE  /\ call[Timer].at = "idle" /\ ticks > 0 /\ ticks' = 0 /\ armed' = armed
         /\ StartsAt(Timer, "save", NoPlate, "noplate") /\ OthersMarked(Timer)
         /\ iu = None /\ iu' = NoPlate
         /\ UNCHANGED <<queue, books, ids, entryOf, noEntry, due, loopApresent, stale,
                        stray, lastPaid>>
<1>1. StartsAt(Timer, "save", NoPlate, "noplate") /\ OthersMarked(Timer)
  BY TheThreads, TheNumbers, DisturbingCallSays DEF LpnTimeout, Typed, Places, Kinds
<1> QED
  BY <1>1, TimerOnlySays DEF LpnTimeout, Handler, At, history, books

LEMMA OpenCmdSays ==
  ASSUME Typed, CmdOpenBarrier
  PROVE  /\ call[Pms].at = "idle"
         /\ StartsAt(Pms, "save", iu, "manual") /\ OthersKept(Pms)
         /\ UNCHANGED <<queue, books, ids, vehicle, loop, stale, stray, lastPaid>>
<1>1. StartsAt(Pms, "save", iu, "manual") /\ OthersKept(Pms)
  BY TheThreads, CallSays DEF CmdOpenBarrier, Typed, Places, Kinds, ExitTyped
<1> QED
  BY <1>1 DEF CmdOpenBarrier, At, lpr, payment, exit, process, paid, timer, history,
     books, ids, vehicle, loop

LEMMA EntryTimeSays ==
  ASSUME Typed, NEW q \in pmsAsked, CmdTimeForNoEntry(q)
  PROVE  /\ call[Pms].at = "idle" /\ pmsAsked' = pmsAsked \ {q}
         /\ \/ /\ StartsAt(Pms, "fee", q.number, "none") /\ OthersMarked(Pms)
               /\ entryOf' = q.number /\ noEntry' = 0
               /\ stale \/ q # [id |-> transID, number |-> iu] => stale'
               /\ stale' => stale \/ q # [id |-> transID, number |-> iu]
               /\ loopApresent
            \/ UNCHANGED <<entryOf, noEntry, call, stale>>
         /\ UNCHANGED <<queue, orders, owed, records, unwritten, ids, iu, due, loop,
                        stray, lastPaid>>
<1>1. /\ call[Pms].at = "idle" /\ pmsAsked' = pmsAsked \ {q}
      /\ UNCHANGED <<queue, orders, owed, records, unwritten, ids, iu, due, loop,
                     stray, lastPaid>>
  BY DEF CmdTimeForNoEntry, At, lpr, payment, process, paid, timer, ids, loop
<1>2. CASE loopApresent
  <2>1. /\ entryOf' = q.number /\ noEntry' = 0
        /\ Disturb(Pms, Call(Pms, "fee", q.number, "none"))
        /\ stale' = (stale \/ q # [id |-> transID, number |-> iu])
    BY <1>2, Zenon DEF CmdTimeForNoEntry
  <2>2. q.number \in Plain
    BY DEF Typed, ExitTyped
  <2>3. q.number \in Numbers /\ "fee" \in Places /\ "none" \in Kinds /\ CallsTyped
        /\ Pms \in Threads
    BY <2>2, TheNumbers, TheThreads DEF Typed, Places, Kinds
  <2>4. StartsAt(Pms, "fee", q.number, "none") /\ OthersMarked(Pms)
    BY <2>1, <2>3, DisturbingCallSays
  <2>5. /\ stale \/ q # [id |-> transID, number |-> iu] => stale'
        /\ stale' => stale \/ q # [id |-> transID, number |-> iu]
    BY <2>1, Zenon
  <2> QED
    BY <1>1, <1>2, <2>1, <2>4, <2>5
<1>3. CASE ~loopApresent
  BY <1>1, <1>3 DEF CmdTimeForNoEntry
<1> QED
  BY <1>2, <1>3

LEMMA PmsFeeSays ==
  ASSUME Typed, ReceivedEntryRecord
  PROVE  /\ call[Pms].at = "fee"
         /\ call'[Pms].at = "show" /\ call'[Pms].arg = call[Pms].arg
         /\ call'[Pms].wiped = call[Pms].wiped
         /\ due' \in Fees /\ call'[Pms].fee = due'
         /\ OthersMarked(Pms) /\ StaleIfWiped(Pms)
         /\ UNCHANGED <<queue, books, ids, iu, entryOf, noEntry, loop, stray, lastPaid>>
<1>0. Pms \in Threads /\ CallsTyped
  BY TheThreads DEF Typed
<1>1. PICK amount \in Fees :
        /\ due' = amount
        /\ WriteExit(Pms, [call[Pms] EXCEPT !.at = "show", !.fee = amount])
  BY DEF ReceivedEntryRecord
<1>2. amount \in Amounts
  BY FeesAreAmounts DEF Typed
<1>3. /\ call'[Pms].at = "show" /\ call'[Pms].fee = amount
      /\ call'[Pms].arg = call[Pms].arg /\ call'[Pms].wiped = call[Pms].wiped
      /\ OthersMarked(Pms) /\ StaleIfWiped(Pms)
      /\ UNCHANGED <<records, stray, unwritten>>
  BY <1>0, <1>1, <1>2, WriteShowsSays
<1> QED
  BY <1>1, <1>3, CallOnlySays DEF ReceivedEntryRecord, At, payment, paid, books

LEMMA PmsShowSays ==
  ASSUME Typed, ShowFeeForPms
  PROVE  /\ call[Pms].at = "show" /\ due' = call[Pms].fee
         /\ \/ call[Pms].fee # None /\ call'[Pms].at = "idle"
            \/ call[Pms].fee = None /\ MovesToSave(Pms, "free")
         /\ OthersMarked(Pms) /\ StaleIfWiped(Pms)
         /\ UNCHANGED <<queue, books, ids, iu, entryOf, noEntry, loop, stray, lastPaid>>
<1>0. Pms \in Threads /\ CallsTyped /\ "free" \in Kinds
  BY TheThreads DEF Typed, Kinds
<1>1. CASE call[Pms].fee # None
  <2>1. /\ call'[Pms].at = "idle" /\ OthersMarked(Pms) /\ StaleIfWiped(Pms)
        /\ UNCHANGED <<records, stray, unwritten>>
    BY <1>0, <1>1, WriteSays, IdleIsACall DEF ShowFeeForPms
  <2> QED
    BY <1>1, <2>1, CallOnlySays DEF ShowFeeForPms, At, payment, paid, books
<1>2. CASE call[Pms].fee = None
  <2>1. /\ MovesToSave(Pms, "free") /\ OthersMarked(Pms) /\ StaleIfWiped(Pms)
        /\ UNCHANGED <<records, stray, unwritten>>
    BY <1>0, <1>2, WriteClosesSays DEF ShowFeeForPms
  <2> QED
    BY <1>2, <2>1, CallOnlySays DEF ShowFeeForPms, At, payment, paid, books
<1> QED
  BY <1>1, <1>2

-----------------------------------------------------------------------------
(***************************************************************************)
(* What a call knows of the vehicle it is for.  While PBSExit or the       *)
(* answer of the PMS is at work, tExit holds the number of the call, or    *)
(* another thread wrote tExit under it, or tExit was stale already; once   *)
(* SaveExit is done, so does the row.                                      *)
(***************************************************************************)
HasNumber(t) ==
  /\ \/ call[t].at \in {"fetch", "season", "fee", "show"}
     \/ call[t].at = "save" /\ call[t].kind \in {"season", "free", "noplate"}
     => call[t].arg # None /\ (iu = call[t].arg \/ call[t].wiped \/ stale)
  /\ call[t].at \in {"saved", "failed", "open"} /\ call[t].kind \in {"season", "free", "noplate"}
     => call[t].wrote = call[t].arg \/ call[t].wiped \/ stale

CallHasItsNumber == \A t \in Threads : HasNumber(t)

LEMMA NumberKept ==
  ASSUME CallHasItsNumber, NEW t \in Threads, HasNumber(t)',
         \/ OthersMarked(t)
         \/ OthersKept(t) /\ iu' = iu /\ (stale => stale')
  PROVE  CallHasItsNumber'
<1>1. ASSUME NEW u \in Threads, u # t PROVE HasNumber(u)'
  <2>0. HasNumber(u)
    BY DEF CallHasItsNumber
  <2>1. CASE OthersMarked(t)
    <3>1. Marked(u)
      BY <1>1, <2>1 DEF OthersMarked
    <3>2. call[u].at \in {"fetch", "season", "fee", "show", "save", "saved", "failed", "open"}
            => call'[u].wiped
      BY <3>1 DEF Marked, InCall, InLoopACome, At
    <3> QED
      BY <2>0, <3>1, <3>2 DEF Marked, HasNumber
  <2>2. CASE OthersKept(t) /\ iu' = iu /\ (stale => stale')
    BY <1>1, <2>0, <2>2 DEF OthersKept, HasNumber
  <2> QED
    BY <2>1, <2>2
<1> QED
  BY <1>1 DEF CallHasItsNumber

LEMMA NextKeepsNumber ==
  ASSUME Typed, CallHasItsNumber, [Next]_vars
  PROVE  CallHasItsNumber'
<1>0. /\ Event \in Threads /\ Timer \in Threads /\ Pms \in Threads
      /\ iu \in Numbers
      /\ call[Event].at \in {"check", "fetch", "season", "show"} => call[Event].arg \in Plain
      /\ call[Pms].at \in {"fee", "show"} => call[Pms].arg \in Plain
      /\ \A q \in pmsAsked : q.number \in Plain
  BY TheThreads DEF Typed, CallsTyped, ExitTyped
<1>1. CASE UNCHANGED <<call, iu, stale>>
  BY <1>1 DEF CallHasItsNumber, HasNumber
<1>2. ASSUME World \/ TimerExpires \/ WaitAnotherSecond \/ LoopAOff \/ UNCHANGED vars
      PROVE  CallHasItsNumber'
  <2>1. CASE World
    <3>1. UNCHANGED <<call, iu, stale>>
      BY <2>1, WorldSays DEF vehicle
    <3> QED
      BY <1>1, <3>1
  <2>4. CASE TimerExpires \/ WaitAnotherSecond
    <3>1. UNCHANGED <<call, iu, stale>>
      BY <2>4, HandlerSays DEF vehicle
    <3> QED
      BY <1>1, <3>1
  <2>2. CASE LoopAOff
    BY <1>1, <2>2 DEF LoopAOff, exit
  <2>3. CASE UNCHANGED vars
    BY <1>1, <2>3 DEF vars, exit, history
  <2> QED
    BY <1>2, <2>1, <2>2, <2>3, <2>4
<1>3. ASSUME NEW t \in Threads, Step(t) PROVE CallHasItsNumber'
  <2>0. HasNumber(t) /\ iu \in Numbers
    BY <1>0 DEF CallHasItsNumber
  <2>1. CASE LoopACome(t)
    BY <2>1, LoopAComeSays, NumberKept DEF HasNumber, MovesTo, vehicle
  <2>2. CASE ClearForRound(t)
    <3>1. Clearme(t, "detect") /\ "detect" \in Places
      BY <2>2 DEF ClearForRound, Places
    <3> QED
      BY <3>1, ClearmeSays, NumberKept DEF HasNumber, MovesTo
  <2>3. CASE SendTransID(t)
    BY <2>3, SendSays, NumberKept DEF HasNumber
  <2>4. CASE SaveExit(t)
    <3>1. HasNumber(t)'
      BY <2>0, <2>4, SaveSays DEF HasNumber, MovesTo, vehicle
    <3> QED
      BY <2>4, <3>1, SaveSays, NumberKept DEF vehicle
  <2>5. CASE SetSaved(t)
    <3>1. HasNumber(t)'
      BY <2>0, <2>5, SetSavedSays DEF HasNumber, MovesTo, vehicle
    <3> QED
      BY <2>5, <3>1, SetSavedSays, NumberKept DEF vehicle
  <2>6. CASE Openbarrier(t)
    BY <2>6, OpenSays, NumberKept DEF HasNumber, vehicle
  <2> QED
    BY <1>3, <2>1, <2>2, <2>3, <2>4, <2>5, <2>6 DEF Step
<1>4. ASSUME LoopAOn \/ LoopCOff PROVE CallHasItsNumber'
  <2>1. /\ call'[Event].at \in {"come", "cGone"} /\ OthersKept(Event)
        /\ iu' = iu /\ stale' = stale
    <3>1. CASE LoopAOn
      BY <3>1, LoopSays DEF MovesTo, vehicle
    <3>2. CASE LoopCOff
      BY <3>2, LoopSays DEF MovesTo, vehicle
    <3> QED
      BY <1>4, <3>1, <3>2
  <2> QED
    BY <1>0, <2>1, NumberKept DEF HasNumber
<1>5. CASE LoopCGone
  <2>1. CASE loopApresent
    <3>1. Clearme(Event, "come") /\ "come" \in Places
      BY <1>5, <2>1 DEF LoopCGone, Places
    <3> QED
      BY <1>0, <3>1, ClearmeSays, NumberKept DEF HasNumber, MovesTo
  <2>2. CASE ~loopApresent
    <3>1. Clearme(Event, "idle") /\ "idle" \in Places
      BY <1>5, <2>2 DEF LoopCGone, Places
    <3> QED
      BY <1>0, <3>1, ClearmeSays, NumberKept DEF HasNumber, MovesTo
  <2> QED
    BY <2>1, <2>2
<1>6. CASE BarrierStatusOn
  BY <1>0, <1>1, <1>6, BarrierSays, NumberKept DEF HasNumber, StartsAt, vehicle
<1>7. ASSUME NEW r \in Rounds, NEW p \in Vehicles \cup {None}, ReceivedLPR(r, p)
      PROVE  CallHasItsNumber'
  BY <1>0, <1>1, <1>7, LPRSays, NumberKept DEF HasNumber, StartsAt, vehicle
<1>8. CASE CardReceived
  BY <1>0, <1>8, CardSays, NumberKept DEF HasNumber, StartsAt, vehicle
<1>9. ASSUME NEW id \in 0..MaxRounds, NEW s \in {"ok", "insufficient"}, PayResult(id, s)
      PROVE  CallHasItsNumber'
  BY <1>0, <1>1, <1>9, PaySays, NumberKept DEF HasNumber, StartsAt, vehicle
<1>10. CASE WaitForCard
  BY <1>0, <1>10, WaitForCardSays, NumberKept DEF HasNumber
<1>11. CASE SameCardAgain \/ TurnedAway
  BY <1>0, <1>11, EndsSays, NumberKept DEF HasNumber, vehicle
<1>12. CASE CheckCardOK
  BY <1>0, <1>12, CheckCardSays, NumberKept DEF HasNumber, MovesToSave
<1>13. CASE SameAsLast
  BY <1>0, <1>13, SameSays, NumberKept DEF HasNumber, vehicle
<1>14. CASE StartPBSExit
  <2>1. HasNumber(Event)'
    BY <1>0, <1>14, StartSays, TheNumbers DEF HasNumber, MovesTo
  <2> QED
    BY <1>0, <1>14, <2>1, StartSays, NumberKept
<1>15. ASSUME FetchEntryinfo \/ SeasonParking \/ CalculateFee \/ ShowFee
       PROVE  CallHasItsNumber'
  <2>0. HasNumber(Event)
    BY <1>0 DEF CallHasItsNumber
  <2>1. HasNumber(Event)' /\ OthersMarked(Event)
    BY <1>15, <2>0, FetchSays, SeasonSays, CalculateSays, ShowSays
       DEF HasNumber, MovesTo, MovesToSave, StaleIfWiped
  <2> QED
    BY <1>0, <2>1, NumberKept
<1>16. CASE AskPms
  BY <1>0, <1>16, AskSays, NumberKept DEF HasNumber, vehicle
<1>17. CASE OperationTimeout
  BY <1>0, <1>17, TimeoutSays, NumberKept DEF HasNumber, MovesTo, vehicle
<1>18. CASE LpnTimeout
  BY <1>0, <1>18, NoPlateSays, TheNumbers, NumberKept DEF HasNumber, StartsAt
<1>19. CASE CmdOpenBarrier
  BY <1>0, <1>19, OpenCmdSays, NumberKept DEF HasNumber, StartsAt, vehicle
<1>20. ASSUME NEW q \in pmsAsked, CmdTimeForNoEntry(q) PROVE CallHasItsNumber'
  <2>1. q.number # None
    BY <1>0, TheNumbers
  <2>2. CASE UNCHANGED <<entryOf, noEntry, call, stale>>
    BY <1>1, <1>20, <2>2, EntryTimeSays
  <2>3. CASE /\ StartsAt(Pms, "fee", q.number, "none") /\ OthersMarked(Pms)
             /\ stale \/ q # [id |-> transID, number |-> iu] => stale'
             /\ iu' = iu
    <3>1. stale' \/ iu = q.number
      BY <2>3
    <3>2. HasNumber(Pms)'
      BY <2>1, <2>3, <3>1 DEF HasNumber, StartsAt
    <3> QED
      BY <1>0, <2>3, <3>2, NumberKept
  <2> QED
    BY <1>20, <2>2, <2>3, EntryTimeSays
<1>21. ASSUME ReceivedEntryRecord \/ ShowFeeForPms PROVE CallHasItsNumber'
  <2>0. HasNumber(Pms)
    BY <1>0 DEF CallHasItsNumber
  <2>1. HasNumber(Pms)' /\ OthersMarked(Pms)
    BY <1>21, <2>0, PmsFeeSays, PmsShowSays
       DEF HasNumber, MovesToSave, StaleIfWiped
  <2> QED
    BY <1>0, <2>1, NumberKept
<1> QED
  BY <1>2, <1>3, <1>4, <1>5, <1>6, <1>7, <1>8, <1>9, <1>10, <1>11, <1>12, <1>13,
     <1>14, <1>15, <1>16, <1>17, <1>18, <1>19, <1>20, <1>21
     DEF Next, EventThread, TimerStrand, PmsStrand

(***************************************************************************)
(* For any vehicles and bounds, free parking, season parking and "no       *)
(* plate" open the barrier only for the number that was checked and        *)
(* written down, unless another thread wrote tExit under the call or it    *)
(* was stale already.                                                      *)
(***************************************************************************)
THEOREM ExitsAreRecorded == SafeSpec => []OpensOnRecord
<1>1. Init => CallHasItsNumber
  BY IdleIsACall DEF Init, CallHasItsNumber, HasNumber
<1>2. CallHasItsNumber => OpensOnRecord
  BY DEF CallHasItsNumber, HasNumber, OpensOnRecord, At
<1> QED
  BY <1>1, <1>2, InitTyped, NextKeepsTyped, NextKeepsNumber, PTL DEF SafeSpec

-----------------------------------------------------------------------------
(***************************************************************************)
(* The timer of loop A waits, or one of its handlers is under way, only    *)
(* while a vehicle stands on the loop, unless a handler escaped the        *)
(* cancellation; and the event thread enters a round only for a vehicle.   *)
(***************************************************************************)
TimerHasVehicle ==
  /\ armed \/ ticks > 0 \/ call[Timer].at # "idle" => loopApresent \/ stray
  /\ call[Event].at = "come" => loopApresent

\* The steps that have nothing to do with the loop or the timer.
LEMMA VehicleKept ==
  ASSUME TimerHasVehicle, UNCHANGED <<loop, stray>>,
         call'[Timer].at = call[Timer].at \/ call'[Timer].at = "idle"
           \/ call[Timer].at # "idle",
         call'[Event].at = call[Event].at \/ call'[Event].at # "come"
  PROVE  TimerHasVehicle'
  BY DEF TimerHasVehicle, loop

\* Who does not move stays where it is.
LEMMA OthersStay ==
  ASSUME NEW t \in Threads, OthersKept(t) \/ OthersMarked(t),
         NEW u \in Threads, u # t
  PROVE  call'[u].at = call[u].at
  BY DEF OthersKept, OthersMarked, Marked

LEMMA NextKeepsVehicle ==
  ASSUME Typed, TimerHasVehicle, [Next]_vars
  PROVE  TimerHasVehicle'
<1>0. /\ Event \in Threads /\ Timer \in Threads /\ Pms \in Threads
      /\ Event # Timer /\ Event # Pms /\ Timer # Pms
      /\ ticks \in Nat /\ loopApresent \in BOOLEAN /\ armed \in BOOLEAN
  BY TheThreads DEF Typed, LaneTyped
<1>1. ASSUME UNCHANGED <<call, loop, stray>> PROVE TimerHasVehicle'
  BY <1>1 DEF TimerHasVehicle, loop
<1>2. CASE World
  <2>1. UNCHANGED <<call, loop, stray>>
    BY <1>2, WorldSays
  <2> QED
    BY <1>1, <2>1
<1>3. CASE UNCHANGED vars
  <2>1. UNCHANGED <<call, loop, stray>>
    BY <1>3 DEF vars, timer, history, loop
  <2> QED
    BY <1>1, <2>1
<1>4. ASSUME NEW t \in Threads, OthersKept(t) \/ OthersMarked(t), UNCHANGED <<loop, stray>>,
             t = Timer => call[Timer].at # "idle",
             t = Event => call'[Event].at # "come" \/ loopApresent
      PROVE  TimerHasVehicle'
  <2>1. \A u \in Threads : u # t => call'[u].at = call[u].at
    BY <1>4, OthersStay
  <2> QED
    BY <1>0, <1>4, <2>1 DEF TimerHasVehicle, loop
<1>5. ASSUME NEW t \in Threads, Step(t) PROVE TimerHasVehicle'
  <2>1. CASE LoopACome(t)
    <3>1. /\ call[t].at = "come" /\ call'[t].at = "clear" /\ OthersKept(t) /\ armed' = TRUE
          /\ UNCHANGED <<loopApresent, ticks, stray>>
      BY <2>1, LoopAComeSays DEF MovesTo
    <3>2. t # Pms /\ \A u \in Threads : u # t => call'[u].at = call[u].at
      BY <1>0, <3>1, OthersStay DEF Typed, CallsTyped
    <3>3. t = Event \/ t = Timer
      BY <3>2, TheThreads
    <3> QED
      BY <1>0, <3>1, <3>2, <3>3 DEF TimerHasVehicle
  <2>2. CASE ClearForRound(t)
    <3>1. Clearme(t, "detect") /\ "detect" \in Places /\ call[t].at = "clear"
      BY <2>2 DEF ClearForRound, Places, At
    <3>2. call'[t].at = "detect" /\ OthersMarked(t) /\ UNCHANGED <<loop, stray>>
      BY <3>1, ClearmeSays DEF MovesTo
    <3> QED
      BY <1>4, <3>1, <3>2
  <2>3. CASE SendTransID(t)
    BY <1>4, <2>3, SendSays
  <2>4. CASE SaveExit(t)
    BY <1>4, <2>4, SaveSays DEF MovesTo
  <2>5. CASE SetSaved(t)
    BY <1>4, <2>5, SetSavedSays DEF MovesTo
  <2>6. CASE Openbarrier(t)
    <3>1. /\ call'[t].at = "idle" /\ OthersKept(t) /\ armed' = FALSE
          /\ stray \/ ticks > 0 => stray'
          /\ t # Timer /\ call[Timer].at # "idle" => stray'
          /\ UNCHANGED <<loopApresent, ticks>>
      BY <2>6, OpenSays
    <3>2. \A u \in Threads : u # t => call'[u].at = call[u].at
      BY <3>1, OthersStay
    <3> QED
      BY <1>0, <3>1, <3>2 DEF TimerHasVehicle
  <2> QED
    BY <1>5, <2>1, <2>2, <2>3, <2>4, <2>5, <2>6 DEF Step
<1>6. CASE LoopAOn
  <2>1. OthersKept(Event) /\ loopApresent' = TRUE
    BY <1>6, LoopSays
  <2> QED
    BY <2>1 DEF TimerHasVehicle
<1>7. CASE LoopAOff
  <2>1. /\ call' = call /\ call[Event].at = "idle" /\ armed' = FALSE /\ ticks' = ticks
        /\ stray \/ ticks > 0 \/ call[Timer].at # "idle" => stray'
    BY <1>7, LoopSays, TakeSays
  <2> QED
    BY <1>0, <2>1 DEF TimerHasVehicle
<1>8. CASE LoopCOff
  <2>1. call'[Event].at = "cGone" /\ OthersKept(Event) /\ UNCHANGED <<loop, stray>>
    BY <1>8, LoopSays DEF MovesTo
  <2> QED
    BY <1>0, <1>4, <2>1
<1>9. CASE LoopCGone
  <2>1. PICK next \in {"come", "idle"} :
          Clearme(Event, next) /\ (next = "come" => loopApresent)
    BY <1>9 DEF LoopCGone
  <2>2. /\ call'[Event].at = next /\ OthersMarked(Event) /\ UNCHANGED <<loop, stray>>
    BY <1>0, <2>1, ClearmeSays DEF MovesTo, Places
  <2> QED
    BY <1>0, <1>4, <2>1, <2>2
<1>10. CASE BarrierStatusOn
  <2>1. call' = call \/ (call'[Event].at = "save" /\ OthersKept(Event))
    BY <1>10, BarrierSays DEF StartsAt
  <2>2. UNCHANGED <<loop, stray>>
    BY <1>10, BarrierSays
  <2> QED
    BY <1>0, <1>1, <1>4, <2>1, <2>2
<1>11. ASSUME NEW r \in Rounds, NEW p \in Vehicles \cup {None}, ReceivedLPR(r, p)
       PROVE  TimerHasVehicle'
  <2>1. call' = call \/ (call'[Event].at = "check" /\ OthersKept(Event))
    BY <1>11, LPRSays DEF StartsAt
  <2>2. UNCHANGED <<loop, stray>>
    BY <1>11, LPRSays
  <2> QED
    BY <1>0, <1>1, <1>4, <2>1, <2>2
<1>12. CASE CardReceived
  BY <1>0, <1>4, <1>12, CardSays DEF StartsAt
<1>13. ASSUME NEW id \in 0..MaxRounds, NEW s \in {"ok", "insufficient"}, PayResult(id, s)
       PROVE  TimerHasVehicle'
  <2>1. /\ OthersKept(Event) /\ UNCHANGED <<loop, stray>>
        /\ call' = call \/ call'[Event].at = "save"
    BY <1>13, PaySays DEF StartsAt
  <2> QED
    BY <1>0, <1>1, <1>4, <2>1
<1>14. CASE WaitForCard
  BY <1>0, <1>4, <1>14, WaitForCardSays
<1>15. CASE SameCardAgain \/ TurnedAway
  BY <1>0, <1>4, <1>15, EndsSays
<1>16. CASE CheckCardOK
  BY <1>0, <1>4, <1>16, CheckCardSays DEF MovesToSave
<1>17. CASE SameAsLast
  BY <1>0, <1>4, <1>17, SameSays
<1>18. CASE StartPBSExit
  BY <1>0, <1>4, <1>18, StartSays DEF MovesTo
<1>19. CASE FetchEntryinfo
  BY <1>0, <1>4, <1>19, FetchSays DEF MovesTo
<1>20. CASE SeasonParking
  BY <1>0, <1>4, <1>20, SeasonSays DEF MovesToSave
<1>21. CASE CalculateFee
  BY <1>0, <1>4, <1>21, CalculateSays
<1>22. CASE AskPms
  BY <1>0, <1>4, <1>22, AskSays
<1>23. CASE ShowFee
  BY <1>0, <1>4, <1>23, ShowSays DEF MovesToSave
<1>24. CASE TimerExpires \/ WaitAnotherSecond
  <2>1. /\ call' = call /\ UNCHANGED <<loopApresent, stray>>
        /\ armed \/ ticks > 0
    BY <1>24, HandlerSays
  <2> QED
    BY <2>1 DEF TimerHasVehicle
<1>25. CASE OperationTimeout \/ LpnTimeout
  <2>1. /\ OthersKept(Timer) \/ OthersMarked(Timer)
        /\ ticks > 0 /\ UNCHANGED <<loopApresent, stray>>
    BY <1>25, TimeoutSays, NoPlateSays
  <2>2. call'[Event].at = call[Event].at
    BY <1>0, <2>1, OthersStay
  <2> QED
    BY <2>1, <2>2 DEF TimerHasVehicle
<1>26. CASE CmdOpenBarrier
  BY <1>0, <1>4, <1>26, OpenCmdSays
<1>27. ASSUME NEW q \in pmsAsked, CmdTimeForNoEntry(q) PROVE TimerHasVehicle'
  <2>1. call' = call \/ OthersMarked(Pms)
    BY <1>27, EntryTimeSays
  <2>2. UNCHANGED <<loop, stray>>
    BY <1>27, EntryTimeSays
  <2> QED
    BY <1>0, <1>1, <1>4, <2>1, <2>2
<1>28. CASE ReceivedEntryRecord
  BY <1>0, <1>4, <1>28, PmsFeeSays
<1>29. CASE ShowFeeForPms
  BY <1>0, <1>4, <1>29, PmsShowSays
<1> QED
  BY <1>2, <1>3, <1>5, <1>6, <1>7, <1>8, <1>9, <1>10, <1>11, <1>12, <1>13, <1>14,
     <1>15, <1>16, <1>17, <1>18, <1>19, <1>20, <1>21, <1>22, <1>23, <1>24, <1>25,
     <1>26, <1>27, <1>28, <1>29 DEF Next, EventThread, TimerStrand, PmsStrand

(***************************************************************************)
(* For any vehicles and bounds, the barrier opens under "0000000000" only  *)
(* while a vehicle stands on loop A, unless the loop was left, or the      *)
(* barrier opened, while a handler of the timer was under way.             *)
(***************************************************************************)
THEOREM NoPlateIsOfAVehicle == SafeSpec => []NoPlateOpensForVehicle
<1>1. Init => TimerHasVehicle
  BY TheThreads, IdleIsACall DEF Init, TimerHasVehicle
<1>2. TimerHasVehicle => NoPlateOpensForVehicle
  BY DEF TimerHasVehicle, NoPlateOpensForVehicle, At
<1> QED
  BY <1>1, <1>2, InitTyped, NextKeepsTyped, NextKeepsVehicle, PTL DEF SafeSpec

-----------------------------------------------------------------------------
(***************************************************************************)
(* The number that was let out last.  PayResult remembers it before there  *)
(* is a row, SetSaved after: until SaveExit has run, the call that holds   *)
(* it is the row's promise.  A payment whose row is lost stays remembered, *)
(* and is the exception; any other number is remembered when it has a row. *)
(***************************************************************************)
Recorded == {records[i].number : i \in {j \in DOMAIN records : records[j].result # "lost"}}
Known == unwritten \cup Recorded

Pays(t) == call[t].at = "save" /\ call[t].kind = "paid"

LastPaidIsKnown ==
  /\ lastPaid # None
       => lastPaid \in Known \/ (Pays(Event) /\ call[Event].arg = lastPaid)
  /\ Pays(Event) => call[Event].wiped \/ iu = call[Event].arg
  /\ \A t \in Threads : call[t].at = "saved"
       => /\ call[t].wrote \in Recorded
          /\ call[t].wiped \/ iu = call[t].wrote
  /\ call[Event].at \in {"save", "saved", "failed"} => call[Event].kind # "again"
  /\ call[Event].at = "open" /\ call[Event].kind = "again"
       => call[Event].arg \in Known

\* The steps that close no exit and pay nothing.
LEMMA PaidKept ==
  ASSUME LastPaidIsKnown, NEW t \in Threads, UNCHANGED <<records, unwritten, lastPaid>>,
         OthersMarked(t) \/ (OthersKept(t) /\ iu' = iu),
         call'[t].at \notin {"saved", "failed", "open"},
         call'[t].at = "save" => call'[t].kind \notin {"paid", "again"},
         call[t].at # "save"
  PROVE  LastPaidIsKnown'
<1>1. Recorded' = Recorded /\ Known' = Known
  BY DEF Recorded, Known
<1>2. Event \in Threads
  BY TheThreads
<1>3. ASSUME NEW u \in Threads, u # t
      PROVE  /\ call'[u].at = call[u].at /\ call'[u].kind = call[u].kind
             /\ call'[u].arg = call[u].arg /\ call'[u].wrote = call[u].wrote
             /\ call[u].at \in {"save", "saved", "failed"}
                  => (call[u].wiped => call'[u].wiped) /\ (call'[u].wiped \/ iu' = iu)
  <2>1. CASE OthersMarked(t)
    BY <1>3, <2>1 DEF OthersMarked, Marked, InCall, InLoopACome, At
  <2>2. CASE OthersKept(t) /\ iu' = iu
    BY <1>3, <2>2 DEF OthersKept
  <2> QED
    BY <2>1, <2>2
<1>4. ASSUME NEW u \in Threads, call'[u].at = "saved"
      PROVE  call'[u].wrote \in Recorded' /\ (call'[u].wiped \/ iu' = call'[u].wrote)
  <2>1. u # t /\ call[u].at = "saved"
    BY <1>3, <1>4
  <2> QED
    BY <1>1, <1>3, <2>1 DEF LastPaidIsKnown
<1>5. /\ Pays(Event)' => (call'[Event].wiped \/ iu' = call'[Event].arg)
      /\ Pays(Event) => Pays(Event)' /\ call'[Event].arg = call[Event].arg
  BY <1>2, <1>3 DEF LastPaidIsKnown, Pays
<1>6. /\ call'[Event].at \in {"save", "saved", "failed"} => call'[Event].kind # "again"
      /\ call'[Event].at = "open" /\ call'[Event].kind = "again"
           => call'[Event].arg \in Known'
  BY <1>1, <1>2, <1>3 DEF LastPaidIsKnown
<1>7. lastPaid # None
        => lastPaid \in Known \/ (Pays(Event)' /\ call'[Event].arg = lastPaid)
  BY <1>5 DEF LastPaidIsKnown
<1> QED
  BY <1>1, <1>4, <1>5, <1>6, <1>7 DEF LastPaidIsKnown

LEMMA SavingKeepsKnown ==
  ASSUME Typed, LastPaidIsKnown, NEW t \in Threads, SaveExit(t)
  PROVE  LastPaidIsKnown'
<1>0. Event \in Threads
  BY TheThreads
<1>1. /\ call[t].at = "save" /\ \A u \in Threads : u # t => call'[u] = call[u]
      /\ unwritten \subseteq unwritten' /\ iu' = iu /\ lastPaid' = lastPaid
      /\ call[t].kind = "paid" /\ call[t].wiped => call[t].arg \in unwritten'
  BY SaveSays DEF OthersKept, vehicle
<1>2. CASE iu = None /\ MovesTo(t, "open") /\ UNCHANGED records
  <2>1. Recorded' = Recorded /\ Known \subseteq Known' /\ unwritten' \subseteq Known'
    BY <1>1, <1>2 DEF Recorded, Known
  <2>2. ASSUME NEW u \in Threads, call'[u].at = "saved"
        PROVE  call'[u].wrote \in Recorded' /\ (call'[u].wiped \/ iu' = call'[u].wrote)
    <3>1. u # t
      BY <1>2, <2>2 DEF MovesTo
    <3> QED
      BY <1>1, <2>1, <2>2, <3>1 DEF LastPaidIsKnown
  <2>3. CASE t = Event
    <3>1. call'[Event].at = "open" /\ call'[Event].kind # "again"
      BY <1>1, <1>2, <2>3 DEF MovesTo, LastPaidIsKnown
    <3>2. lastPaid # None => lastPaid \in Known'
      BY <1>1, <1>2, <2>1, <2>3 DEF LastPaidIsKnown, Pays
    <3> QED
      BY <1>1, <2>2, <3>1, <3>2 DEF LastPaidIsKnown, Pays
  <2>4. CASE t # Event
    <3>1. call'[Event] = call[Event]
      BY <1>0, <1>1, <2>4
    <3> QED
      BY <1>1, <2>1, <2>2, <3>1 DEF LastPaidIsKnown, Pays
  <2> QED
    BY <2>3, <2>4
<1>3. CASE /\ iu # None /\ Writes(t)
           /\ call'[t].at \in {"saved", "failed"} /\ call'[t].wrote = iu
           /\ call'[t].arg = call[t].arg /\ call'[t].kind = call[t].kind
           /\ call'[t].wiped = call[t].wiped
           /\ Tells(t)
  <2>1. /\ Recorded \subseteq Recorded'
        /\ records'[Len(records) + 1].result # "lost" => iu \in Recorded'
    <3>1. /\ Len(records) \in Nat /\ DOMAIN records = 1..Len(records)
          /\ DOMAIN records' = 1..(Len(records) + 1)
      <4>1. records' \in Seq(Rows)
        BY CloseKeepsTyped DEF Typed, BooksTyped
      <4>2. Len(records') = Len(records) + 1
        BY <1>3 DEF Writes
      <4> QED
        BY <4>1, <4>2 DEF Typed, BooksTyped
    <3>2. \A i \in 1..Len(records) : records'[i] = records[i]
      BY <1>3 DEF Writes
    <3>3. records'[Len(records) + 1].number = iu
      BY <1>3 DEF Writes
    <3>4. 1..Len(records) \subseteq 1..(Len(records) + 1)
          /\ Len(records) + 1 \in 1..(Len(records) + 1)
      BY <3>1
    <3> QED
      BY <3>1, <3>2, <3>3, <3>4 DEF Recorded
  <2>2. Known \subseteq Known' /\ Recorded' \subseteq Known' /\ unwritten' \subseteq Known'
    BY <1>1, <2>1 DEF Known
  <2>3. ASSUME NEW u \in Threads, call'[u].at = "saved"
        PROVE  call'[u].wrote \in Recorded' /\ (call'[u].wiped \/ iu' = call'[u].wrote)
    <3>1. CASE u = t
      BY <1>1, <1>3, <2>1, <2>3, <3>1 DEF Tells
    <3>2. CASE u # t
      BY <1>1, <2>1, <2>3, <3>2 DEF LastPaidIsKnown
    <3> QED
      BY <3>1, <3>2
  <2>4. CASE t = Event
    <3>1. call'[Event].at \in {"saved", "failed"} /\ call'[Event].kind # "again"
      BY <1>1, <1>3, <2>4 DEF LastPaidIsKnown
    <3>2. lastPaid # None => lastPaid \in Known'
      <4>1. CASE call[t].kind = "paid"
        <5>1. \/ iu = call[t].arg /\ records'[Len(records) + 1].result # "lost"
              \/ call[t].arg \in unwritten'
          BY <1>1, <1>3, <2>4, <4>1 DEF LastPaidIsKnown, Pays, Tells
        <5> QED
          BY <1>1, <2>1, <2>2, <2>4, <5>1 DEF LastPaidIsKnown, Pays
      <4>2. CASE call[t].kind # "paid"
        BY <1>1, <2>2, <2>4, <4>2 DEF LastPaidIsKnown, Pays
      <4> QED
        BY <4>1, <4>2
    <3> QED
      BY <1>1, <2>3, <3>1, <3>2 DEF LastPaidIsKnown, Pays
  <2>5. CASE t # Event
    <3>1. call'[Event] = call[Event]
      BY <1>0, <1>1, <2>5
    <3> QED
      BY <1>1, <2>2, <2>3, <3>1 DEF LastPaidIsKnown, Pays
  <2> QED
    BY <2>4, <2>5
<1> QED
  BY <1>2, <1>3, SaveSays

LEMMA SetSavedKeepsKnown ==
  ASSUME Typed, LastPaidIsKnown, NEW t \in Threads, SetSaved(t)
  PROVE  LastPaidIsKnown'
<1>0. Event \in Threads
  BY TheThreads
<1>1. /\ call[t].at \in {"saved", "failed"} /\ MovesTo(t, "open")
      /\ \A u \in Threads : u # t => call'[u] = call[u]
      /\ unwritten \subseteq unwritten' /\ iu' = iu /\ records' = records
      /\ \/ /\ call[t].at = "saved" /\ lastPaid' = iu
            /\ call[t].wiped => iu \in unwritten'
         \/ lastPaid' = lastPaid
  BY SetSavedSays DEF OthersKept, vehicle
<1>2. Recorded' = Recorded /\ Known \subseteq Known' /\ unwritten' \subseteq Known'
      /\ Recorded' \subseteq Known'
  BY <1>1 DEF Recorded, Known
<1>3. ASSUME NEW u \in Threads, call'[u].at = "saved"
      PROVE  call'[u].wrote \in Recorded' /\ (call'[u].wiped \/ iu' = call'[u].wrote)
  <2>1. u # t
    BY <1>1, <1>3 DEF MovesTo
  <2> QED
    BY <1>1, <1>2, <1>3, <2>1 DEF LastPaidIsKnown
<1>4. lastPaid' = lastPaid \/ lastPaid' \in Known'
  BY <1>1, <1>2 DEF LastPaidIsKnown
<1>5. CASE t = Event
  <2>1. call'[Event].at = "open" /\ call'[Event].kind # "again"
    BY <1>1, <1>5 DEF LastPaidIsKnown, MovesTo
  <2> QED
    BY <1>1, <1>2, <1>3, <1>4, <1>5, <2>1 DEF LastPaidIsKnown, Pays
<1>6. CASE t # Event
  <2>1. call'[Event] = call[Event]
    BY <1>0, <1>1, <1>6
  <2> QED
    BY <1>1, <1>2, <1>3, <1>4, <2>1 DEF LastPaidIsKnown, Pays
<1> QED
  BY <1>5, <1>6

LEMMA NextKeepsKnown ==
  ASSUME Typed, LastPaidIsKnown, [Next]_vars
  PROVE  LastPaidIsKnown'
<1>0. /\ Event \in Threads /\ Timer \in Threads /\ Pms \in Threads
      /\ Event # Timer /\ Event # Pms
  BY TheThreads
<1>1. ASSUME UNCHANGED <<call, iu, records, unwritten, lastPaid>> PROVE LastPaidIsKnown'
  BY <1>1 DEF LastPaidIsKnown, Known, Recorded, Pays
<1>2. CASE World
  <2>1. UNCHANGED <<call, iu, records, unwritten, lastPaid>>
    BY <1>2, WorldSays DEF vehicle
  <2> QED
    BY <1>1, <2>1
<1>3. CASE UNCHANGED vars
  <2>1. UNCHANGED <<call, iu, records, unwritten, lastPaid>>
    BY <1>3 DEF vars, history, exit, paid
  <2> QED
    BY <1>1, <2>1
<1>4. ASSUME NEW t \in Threads, Step(t) PROVE LastPaidIsKnown'
  <2>1. CASE LoopACome(t)
    BY <2>1, PaidKept, LoopAComeSays DEF MovesTo, books, vehicle
  <2>2. CASE ClearForRound(t)
    <3>1. Clearme(t, "detect") /\ "detect" \in Places /\ call[t].at = "clear"
      BY <2>2 DEF ClearForRound, Places, At
    <3> QED
      BY <3>1, ClearmeSays, PaidKept DEF MovesTo, books
  <2>3. CASE SendTransID(t)
    BY <2>3, SendSays, PaidKept DEF books
  <2>4. CASE SaveExit(t)
    BY <2>4, SavingKeepsKnown
  <2>5. CASE SetSaved(t)
    BY <2>5, SetSavedKeepsKnown
  <2>6. CASE Openbarrier(t)
    BY <2>6, OpenSays, PaidKept DEF books, vehicle
  <2> QED
    BY <1>4, <2>1, <2>2, <2>3, <2>4, <2>5, <2>6 DEF Step
<1>5. CASE LoopAOn \/ LoopCOff
  <2>1. /\ OthersKept(Event) /\ call[Event].at = "idle"
        /\ call'[Event].at \in {"come", "cGone"}
        /\ UNCHANGED <<iu, records, unwritten, lastPaid>>
    <3>1. CASE LoopAOn
      BY <3>1, LoopSays, TakeSays DEF MovesTo, books, vehicle
    <3>2. CASE LoopCOff
      BY <3>2, LoopSays, TakeSays DEF MovesTo, books, vehicle
    <3> QED
      BY <1>5, <3>1, <3>2
  <2> QED
    BY <1>0, <2>1, PaidKept
<1>6. CASE LoopAOff
  <2>1. UNCHANGED <<call, iu, records, unwritten, lastPaid>>
    BY <1>6, LoopSays DEF books, vehicle
  <2> QED
    BY <1>1, <2>1
<1>7. CASE LoopCGone
  <2>1. PICK next \in {"come", "idle"} : Clearme(Event, next)
    BY <1>7 DEF LoopCGone
  <2>2. /\ call'[Event].at = next /\ OthersMarked(Event)
        /\ UNCHANGED <<records, unwritten, lastPaid>>
    BY <1>0, <2>1, ClearmeSays DEF MovesTo, Places, books
  <2>3. call[Event].at = "cGone"
    BY <1>7 DEF LoopCGone, At
  <2> QED
    BY <1>0, <2>2, <2>3, PaidKept
<1>8. CASE BarrierStatusOn
  <2>1. /\ \/ call' = call
           \/ /\ call'[Event].at = "save" /\ call'[Event].kind = "manual"
              /\ OthersKept(Event)
        /\ call[Event].at = "idle" /\ UNCHANGED <<iu, records, unwritten, lastPaid>>
    BY <1>8, BarrierSays, TakeSays DEF StartsAt, books, vehicle
  <2> QED
    BY <1>0, <1>1, <2>1, PaidKept
<1>9. ASSUME NEW r \in Rounds, NEW p \in Vehicles \cup {None}, ReceivedLPR(r, p)
      PROVE  LastPaidIsKnown'
  <2>1. /\ call' = call \/ (call'[Event].at = "check" /\ OthersKept(Event))
        /\ call[Event].at = "idle" /\ UNCHANGED <<iu, records, unwritten, lastPaid>>
    BY <1>9, LPRSays, TakeSays DEF StartsAt, books, vehicle
  <2> QED
    BY <1>0, <1>1, <2>1, PaidKept
<1>10. CASE CardReceived
  <2>1. /\ call'[Event].at = "check" /\ OthersKept(Event)
        /\ call[Event].at = "idle" /\ UNCHANGED <<iu, records, unwritten, lastPaid>>
    BY <1>10, CardSays, TakeSays DEF StartsAt, books, vehicle
  <2> QED
    BY <1>0, <2>1, PaidKept
<1>11. ASSUME NEW id \in 0..MaxRounds, NEW s \in {"ok", "insufficient"}, PayResult(id, s)
       PROVE  LastPaidIsKnown'
  <2>1. /\ OthersKept(Event) /\ UNCHANGED <<iu, records, unwritten>>
        /\ \/ call' = call /\ lastPaid' = lastPaid
           \/ StartsAt(Event, "save", iu, "paid") /\ lastPaid' = iu
    BY <1>11, PaySays DEF books, vehicle
  <2>2. CASE call' = call /\ lastPaid' = lastPaid
    BY <1>1, <2>1, <2>2
  <2>3. CASE StartsAt(Event, "save", iu, "paid") /\ lastPaid' = iu
    <3>1. Recorded' = Recorded /\ Known' = Known
      BY <2>1 DEF Recorded, Known
    <3>2. call'[Event].at = "save" /\ call'[Event].kind = "paid" /\ call'[Event].arg = iu
      BY <2>3 DEF StartsAt
    <3>3. ASSUME NEW u \in Threads, call'[u].at = "saved"
          PROVE  call'[u].wrote \in Recorded' /\ (call'[u].wiped \/ iu' = call'[u].wrote)
      <4>1. u # Event
        BY <3>2, <3>3
      <4>2. call'[u] = call[u]
        BY <2>1, <4>1 DEF OthersKept
      <4> QED
        BY <2>1, <3>1, <3>3, <4>2 DEF LastPaidIsKnown
    <3> QED
      BY <2>1, <2>3, <3>2, <3>3 DEF LastPaidIsKnown, Pays
  <2> QED
    BY <2>1, <2>2, <2>3
<1>12. CASE WaitForCard
  BY <1>0, <1>12, WaitForCardSays, PaidKept DEF books
<1>13. CASE SameCardAgain \/ TurnedAway
  <2>1. call[Event].at \in {"check", "fetch"}
    BY <1>13 DEF SameCardAgain, TurnedAway, At
  <2> QED
    BY <1>0, <1>13, <2>1, EndsSays, PaidKept DEF books, vehicle
<1>14. CASE CheckCardOK
  <2>1. /\ call[Event].at = "check"
        /\ UNCHANGED <<iu, records, unwritten, lastPaid>>
        /\ OthersMarked(Event) \/ OthersKept(Event)
        /\ \/ call'[Event].at = "save" /\ call'[Event].kind = "card"
           \/ call'[Event].at = "idle"
    BY <1>14, CheckCardSays DEF MovesToSave
  <2> QED
    BY <1>0, <2>1, PaidKept
<1>15. CASE SameAsLast
  <2>1. /\ call[Event].at = "check" /\ call[Event].arg = lastPaid
        /\ \/ call'[Event].at = "idle"
           \/ /\ call'[Event].at = "open" /\ call'[Event].kind = "again"
              /\ call'[Event].arg = call[Event].arg
        /\ OthersKept(Event)
        /\ UNCHANGED <<iu, records, unwritten, lastPaid>>
    BY <1>15, SameSays DEF books, vehicle
  <2>2. lastPaid # None
    BY <2>1, TheNumbers DEF Typed, CallsTyped
  <2>3. Recorded' = Recorded /\ Known' = Known /\ lastPaid \in Known
    BY <2>1, <2>2 DEF Recorded, Known, LastPaidIsKnown, Pays
  <2>4. ASSUME NEW u \in Threads, call'[u].at = "saved"
        PROVE  call'[u].wrote \in Recorded' /\ (call'[u].wiped \/ iu' = call'[u].wrote)
    <3>1. u # Event
      BY <2>1, <2>4
    <3> QED
      BY <2>1, <2>3, <2>4, <3>1 DEF LastPaidIsKnown, OthersKept
  <2> QED
    BY <2>1, <2>3, <2>4 DEF LastPaidIsKnown, Pays
<1>16. CASE StartPBSExit
  BY <1>0, <1>16, StartSays, PaidKept DEF MovesTo, books
<1>17. CASE FetchEntryinfo
  BY <1>0, <1>17, FetchSays, PaidKept DEF MovesTo, books
<1>18. CASE SeasonParking
  BY <1>0, <1>18, SeasonSays, PaidKept DEF MovesToSave, books
<1>19. CASE CalculateFee
  BY <1>0, <1>19, CalculateSays, PaidKept DEF books
<1>20. CASE AskPms
  BY <1>0, <1>20, AskSays, PaidKept DEF vehicle
<1>21. CASE ShowFee
  BY <1>0, <1>21, ShowSays, PaidKept DEF MovesToSave
<1>22. CASE TimerExpires \/ WaitAnotherSecond
  <2>1. UNCHANGED <<call, iu, records, unwritten, lastPaid>>
    BY <1>22, HandlerSays DEF books, vehicle
  <2> QED
    BY <1>1, <2>1
<1>23. CASE OperationTimeout
  BY <1>0, <1>23, TimeoutSays, PaidKept DEF MovesTo, books, vehicle
<1>24. CASE LpnTimeout
  BY <1>0, <1>24, NoPlateSays, PaidKept DEF StartsAt, books
<1>25. CASE CmdOpenBarrier
  BY <1>0, <1>25, OpenCmdSays, PaidKept DEF StartsAt, books, vehicle
<1>26. ASSUME NEW q \in pmsAsked, CmdTimeForNoEntry(q) PROVE LastPaidIsKnown'
  <2>1. /\ call' = call \/ (OthersMarked(Pms) /\ call'[Pms].at = "fee")
        /\ call[Pms].at = "idle" /\ UNCHANGED <<iu, records, unwritten, lastPaid>>
    BY <1>26, EntryTimeSays DEF StartsAt
  <2> QED
    BY <1>0, <1>1, <2>1, PaidKept
<1>27. CASE ReceivedEntryRecord
  BY <1>0, <1>27, PmsFeeSays, PaidKept DEF books
<1>28. CASE ShowFeeForPms
  BY <1>0, <1>28, PmsShowSays, PaidKept DEF MovesToSave, books
<1> QED
  BY <1>2, <1>3, <1>4, <1>5, <1>6, <1>7, <1>8, <1>9, <1>10, <1>11, <1>12, <1>13, <1>14,
     <1>15, <1>16, <1>17, <1>18, <1>19, <1>20, <1>21, <1>22, <1>23, <1>24, <1>25,
     <1>26, <1>27, <1>28 DEF Next, EventThread, TimerStrand, PmsStrand

(***************************************************************************)
(* For any vehicles and bounds, the vehicle that is let out as "same as    *)
(* last" has a row that an insert has stored, unless the call that         *)
(* remembered it was disturbed or the row of its payment was lost          *)
(* (operation.cpp:2311-2312, 2428-2443, 2759-2775).                        *)
(***************************************************************************)
THEOREM SameAsLastHasARow == SafeSpec => []LastPaidIsRecorded
<1>1. Init => LastPaidIsKnown
  BY TheThreads, IdleIsACall DEF Init, LastPaidIsKnown, Pays
<1>2. LastPaidIsKnown => LastPaidIsRecorded
  BY DEF LastPaidIsKnown, Known, Recorded, LastPaidIsRecorded, At
<1> QED
  BY <1>1, <1>2, InitTyped, NextKeepsTyped, NextKeepsKnown, PTL DEF SafeSpec

-----------------------------------------------------------------------------
(***************************************************************************)
(* The kinds of steps, as far as payments are concerned.                   *)
(***************************************************************************)
about == <<vehicle, transID, seen, orders, pmsAsked, records, stale>>
\* Nobody moves; the loop may be left.
Rests ==
  /\ call' = call /\ UNCHANGED about
  /\ loopApresent' = loopApresent \/ (loopApresent' = FALSE /\ call[Event].at = "idle")

\* A thread moves, but not into a call that checks or pays.
Moves(t) ==
  /\ UNCHANGED about /\ OthersKept(t)
  /\ call'[t].at \notin {"detect", "check", "fetch", "season", "fee", "show"}
  /\ call'[t].at = "save" => call'[t].kind \in {"manual", "paid"}
  /\ call[t].at \notin {"save", "detect"}
  /\ t = Event /\ call[t].at \in {"come", "clear"} => call'[t].at = "clear"
  /\ loopApresent' = loopApresent \/ (t = Event /\ call'[t].at = "come")

Clears(t) ==
  /\ iu' = None /\ entryOf' = None /\ noEntry' = -1 /\ due' = None /\ stale' = FALSE
  /\ OthersMarked(t) /\ call[t].at \in {"clear", "cGone"}
  /\ \/ call'[t].at = "detect" /\ t # Pms
     \/ call'[t].at = "come" /\ t = Event
     \/ call'[t].at = "idle" /\ ~loopApresent'
  /\ UNCHANGED <<transID, seen, orders, pmsAsked, records, loopApresent>>

Checks(r, p) ==
  /\ StartsAt(Event, "check", p, "none") /\ OthersKept(Event)
  /\ call[Event].at = "idle"
  /\ p # Card => /\ r \in Rounds /\ transID = r /\ loopApresent /\ iu = None /\ queue # <<>>
                 /\ Head(queue) = <<"LPR", r, p>>
  /\ UNCHANGED <<about, loopApresent>>

Fetches == /\ call[Event].at = "check" /\ MovesTo(Event, "fetch") /\ OthersMarked(Event)
           /\ StaleIfWiped(Event) /\ iu' = call[Event].arg
           /\ UNCHANGED <<transID, seen, orders, pmsAsked, records, entryOf, noEntry,
                          due, loopApresent>>

LearnsEntry(q) ==
  /\ call[Pms].at = "idle" /\ pmsAsked' = pmsAsked \ {q}
  /\ \/ /\ StartsAt(Pms, "fee", q.number, "none") /\ OthersMarked(Pms)
        /\ entryOf' = q.number /\ noEntry' = 0
        /\ stale \/ q # [id |-> transID, number |-> iu] => stale'
     \/ UNCHANGED <<entryOf, noEntry, call, stale>>
  /\ UNCHANGED <<transID, seen, orders, records, iu, due, loopApresent>>

OtherSteps ==
  \/ WaitForCard \/ CheckCardOK \/ FetchEntryinfo \/ SeasonParking \/ CalculateFee
  \/ AskPms \/ ShowFee \/ LpnTimeout \/ ReceivedEntryRecord \/ ShowFeeForPms

LEMMA StepsAre ==
  ASSUME Typed, [Next]_vars
  PROVE  \/ Rests
         \/ \E t \in Threads : Moves(t) \/ Clears(t) \/ SaveExit(t) \/ SendTransID(t)
         \/ \E r \in 0..MaxRounds, p \in Plain : Checks(r, p)
         \/ \E q \in pmsAsked : LearnsEntry(q)
         \/ Fetches \/ OtherSteps
<1> DEFINE Goal == \/ Rests
                   \/ \E t \in Threads : Moves(t) \/ Clears(t) \/ SaveExit(t) \/ SendTransID(t)
                   \/ \E r \in 0..MaxRounds, p \in Plain : Checks(r, p)
                   \/ \E q \in pmsAsked : LearnsEntry(q)
                   \/ Fetches \/ OtherSteps
<1>0. /\ Event \in Threads /\ Timer \in Threads /\ Pms \in Threads
      /\ Event # Timer /\ Event # Pms /\ Timer # Pms
  BY TheThreads
<1>1. Rests => Goal
  OBVIOUS
<1>2. \A t \in Threads : Moves(t) \/ Clears(t) \/ SaveExit(t) \/ SendTransID(t) => Goal
  OBVIOUS
<1>3. /\ \A r \in 0..MaxRounds, p \in Plain : Checks(r, p) => Goal
      /\ \A q \in pmsAsked : LearnsEntry(q) => Goal
      /\ Fetches \/ OtherSteps => Goal
  OBVIOUS
<1> HIDE DEF Goal
<1> SUFFICES Goal
  BY DEF Goal
<1>4. CASE World
  <2>1. Rests
    BY <1>4, WorldSays DEF Rests, about, loop
  <2> QED
    BY <1>1, <2>1
<1>5. CASE UNCHANGED vars
  <2>1. Rests
    BY <1>5 DEF Rests, about, vehicle, vars, lpr, payment, exit, process, history
  <2> QED
    BY <1>1, <2>1
<1>6. ASSUME NEW t \in Threads, Step(t) PROVE Goal
  <2>1. CASE LoopACome(t)
    <3>1. Moves(t)
      BY <2>1, LoopAComeSays DEF Moves, MovesTo, about, books, ids
    <3> QED
      BY <1>2, <3>1
  <2>2. CASE ClearForRound(t)
    <3>1. Clearme(t, "detect") /\ "detect" \in Places /\ call[t].at = "clear"
      BY <2>2 DEF ClearForRound, Places, At
    <3>2. t # Pms
      BY <3>1, <1>0 DEF Typed, CallsTyped
    <3>3. Clears(t)
      BY <3>1, <3>2, ClearmeSays DEF Clears, MovesTo, books, ids, loop
    <3> QED
      BY <1>2, <3>3
  <2>3. CASE SendTransID(t) \/ SaveExit(t)
    BY <1>2, <2>3
  <2>4. CASE SetSaved(t)
    <3>1. Moves(t)
      BY <2>4, SetSavedSays DEF Moves, MovesTo, about, ids, loop
    <3> QED
      BY <1>2, <3>1
  <2>5. CASE Openbarrier(t)
    <3>1. Moves(t)
      BY <2>5, OpenSays DEF Moves, about, ids, books
    <3> QED
      BY <1>2, <3>1
  <2> QED
    BY <1>6, <2>1, <2>2, <2>3, <2>4, <2>5 DEF Step
<1>7. CASE LoopAOn
  <2>1. call[Event].at = "idle"
    BY <1>7, LoopSays, TakeSays
  <2>2. Moves(Event)
    BY <1>7, <2>1, LoopSays DEF Moves, MovesTo, about, ids, books
  <2> QED
    BY <1>0, <1>2, <2>2
<1>8. CASE LoopAOff
  <2>0. call[Event].at = "idle"
    BY <1>8, LoopSays, TakeSays
  <2>1. Rests
    BY <1>8, <2>0, LoopSays DEF Rests, about, books, ids
  <2> QED
    BY <1>1, <2>1
<1>9. CASE LoopCOff
  <2>1. call[Event].at = "idle"
    BY <1>9, LoopSays, TakeSays
  <2>2. Moves(Event)
    BY <1>9, <2>1, LoopSays DEF Moves, MovesTo, about, ids, books, loop
  <2> QED
    BY <1>0, <1>2, <2>2
<1>10. CASE LoopCGone
  <2>1. PICK next \in {"come", "idle"} :
          Clearme(Event, next) /\ (next = "idle" => ~loopApresent)
    BY <1>10 DEF LoopCGone
  <2>2. call[Event].at = "cGone"
    BY <1>10 DEF LoopCGone, At
  <2>3. Clears(Event)
    BY <1>0, <2>1, <2>2, ClearmeSays DEF Clears, MovesTo, Places, books, ids, loop
  <2> QED
    BY <1>0, <1>2, <2>3
<1>11. CASE BarrierStatusOn
  <2>1. /\ call[Event].at = "idle" /\ UNCHANGED <<about, loopApresent>>
        /\ call' = call \/ (StartsAt(Event, "save", iu, "manual") /\ OthersKept(Event))
    BY <1>11, BarrierSays, TakeSays DEF about, books, ids, loop
  <2>2. Rests \/ Moves(Event)
    BY <2>1 DEF Rests, Moves, StartsAt
  <2> QED
    BY <1>0, <1>1, <1>2, <2>2
<1>12. ASSUME NEW r \in Rounds, NEW p \in Vehicles \cup {None}, ReceivedLPR(r, p)
       PROVE  Goal
  <2>1. /\ call[Event].at = "idle" /\ UNCHANGED <<about, loopApresent>>
        /\ queue # <<>> /\ Head(queue) = <<"LPR", r, p>>
    BY <1>12, LPRSays, TakeSays DEF about, books, ids, loop, TakesFrom
  <2>2. CASE call' = call
    BY <1>1, <2>1, <2>2 DEF Rests
  <2>3. CASE /\ StartsAt(Event, "check", p, "none") /\ OthersKept(Event)
             /\ p # None /\ transID = r /\ loopApresent /\ iu = None
    <3>1. p \in Plain
      BY <2>3 DEF Plain
    <3>2. Checks(r, p)
      BY <2>1, <2>3 DEF Checks
    <3>3. r \in 0..MaxRounds
      BY DEF Rounds
    <3> QED
      BY <1>3, <3>1, <3>2, <3>3
  <2> QED
    BY <1>12, <2>2, <2>3, LPRSays
<1>13. CASE CardReceived
  <2>1. /\ call[Event].at = "idle" /\ UNCHANGED <<about, loopApresent>>
        /\ StartsAt(Event, "check", Card, "none") /\ OthersKept(Event)
    BY <1>13, CardSays, TakeSays DEF about, books, ids, loop
  <2>2. Checks(0, Card) /\ 0 \in 0..MaxRounds /\ Card \in Plain
    BY <2>1 DEF Checks, Plain
  <2> QED
    BY <1>3, <2>2
<1>14. ASSUME NEW id \in 0..MaxRounds, NEW s \in {"ok", "insufficient"}, PayResult(id, s)
       PROVE  Goal
  <2>1. /\ call[Event].at = "idle" /\ UNCHANGED <<about, loopApresent>> /\ OthersKept(Event)
        /\ call' = call \/ StartsAt(Event, "save", iu, "paid")
    BY <1>14, PaySays, TakeSays DEF about, books, ids, loop
  <2>2. Rests \/ Moves(Event)
    BY <2>1 DEF Rests, Moves, StartsAt
  <2> QED
    BY <1>0, <1>1, <1>2, <2>2
<1>15. CASE SameCardAgain \/ TurnedAway
  <2>1. call[Event].at \in {"check", "fetch"}
    BY <1>15 DEF SameCardAgain, TurnedAway, At
  <2>2. Moves(Event)
    BY <1>0, <1>15, <2>1, EndsSays DEF Moves, about, books, ids, loop
  <2> QED
    BY <1>0, <1>2, <2>2
<1>16. CASE SameAsLast
  <2>1. Moves(Event)
    BY <1>0, <1>16, SameSays DEF Moves, about, books, ids, loop
  <2> QED
    BY <1>0, <1>2, <2>1
<1>17. CASE StartPBSExit
  <2>1. /\ call[Event].at = "check"
        /\ UNCHANGED <<transID, seen, orders, pmsAsked, records, entryOf, noEntry, due,
                       loopApresent>>
    BY <1>17, StartSays DEF books, ids, loop
  <2>2. CASE /\ call'[Event].at = "idle" /\ OthersKept(Event)
             /\ UNCHANGED <<iu, stale>>
    <3>1. Moves(Event)
      BY <2>1, <2>2 DEF Moves, about, vehicle
    <3> QED
      BY <1>0, <1>2, <3>1
  <2>3. CASE /\ MovesTo(Event, "fetch") /\ OthersMarked(Event)
             /\ StaleIfWiped(Event) /\ iu' = call[Event].arg
    BY <1>3, <2>1, <2>3 DEF Fetches
  <2> QED
    BY <1>17, <2>2, <2>3, StartSays
<1>18. OtherSteps => Goal
  BY <1>3
<1>19. CASE TimerExpires \/ WaitAnotherSecond
  <2>1. Rests
    BY <1>19, HandlerSays DEF Rests, about, books, ids
  <2> QED
    BY <1>1, <2>1
<1>20. CASE OperationTimeout
  <2>1. Moves(Timer)
    BY <1>0, <1>20, TimeoutSays DEF Moves, MovesTo, about, books, ids
  <2> QED
    BY <1>0, <1>2, <2>1
<1>21. CASE CmdOpenBarrier
  <2>1. Moves(Pms)
    BY <1>0, <1>21, OpenCmdSays DEF Moves, StartsAt, about, books, ids, loop
  <2> QED
    BY <1>0, <1>2, <2>1
<1>22. ASSUME NEW q \in pmsAsked, CmdTimeForNoEntry(q) PROVE Goal
  <2>1. LearnsEntry(q)
    BY <1>22, EntryTimeSays DEF LearnsEntry, ids, loop
  <2> QED
    BY <1>3, <2>1
<1>23. CASE EventThread
  BY <1>7, <1>8, <1>9, <1>10, <1>11, <1>12, <1>13, <1>14, <1>15, <1>16, <1>17, <1>18,
     <1>23 DEF EventThread, OtherSteps
<1>24. CASE TimerStrand
  BY <1>18, <1>19, <1>20, <1>24 DEF TimerStrand, OtherSteps
<1>25. CASE PmsStrand
  BY <1>18, <1>21, <1>22, <1>25 DEF PmsStrand, OtherSteps
<1> QED
  BY <1>4, <1>5, <1>6, <1>23, <1>24, <1>25 DEF Next

-----------------------------------------------------------------------------
(***************************************************************************)
(* Ids and what is under way.  No order, row, question or answer has an id *)
(* that is not given out yet, an answer of the camera carries what it saw  *)
(* in its round, and a result is always of an order.                       *)
(***************************************************************************)
Waiting == {queue[k] : k \in 1..Len(queue)}
Placed(id) == \E i \in 1..Len(orders) : orders[i].id = id
PayStates == {"ok", "insufficient"}

IdsAreGivenOut ==
  /\ transID = round
  /\ \A i \in 1..Len(orders) : orders[i].id <= round
  /\ \A i \in 1..Len(records) : records[i].round <= round
  /\ \A q \in pmsAsked : q.id <= round
  /\ \A r \in Rounds : asked[r] > 0 => r <= round

AnswersAreOfTheirRounds ==
  \A r \in Rounds, p \in Vehicles \cup {None} :
    <<"LPR", r, p>> \in Waiting => r <= round /\ p = seen[r]

ResultsAreOfOrders ==
  /\ \A id \in 0..MaxRounds : owed[id] > 0 => Placed(id)
  /\ \A id \in 0..MaxRounds, s \in PayStates : <<"PAY", id, s>> \in Waiting => Placed(id)
  /\ Pays(Event) => Placed(call[Event].order)

Numbered == IdsAreGivenOut /\ AnswersAreOfTheirRounds /\ ResultsAreOfOrders

\* What a step can do to the queue, the ids and the books.
QueueStep ==
  \/ queue' = queue \/ TakesFrom(queue) \/ Joins
  \/ queue' = Append(queue, <<"BARRIER_ON">>)
IdStep ==
  \/ /\ UNCHANGED <<transID, round, seen>>
     /\ \A r \in Rounds : asked'[r] > 0 => asked[r] > 0
  \/ queue' = queue /\ \E t \in Threads : SendTransID(t)
OrderStep ==
  \/ orders' = orders /\ \A id \in 0..MaxRounds : owed'[id] > 0 => owed[id] > 0
  \/ \E amount \in Amounts : Requests(amount)
RowStep == records' = records \/ \E t \in Threads : Writes(t)
AskStep ==
  pmsAsked' \subseteq pmsAsked
    \/ \E n \in Numbers : pmsAsked' = pmsAsked \cup {[id |-> transID, number |-> n]}
PayStep ==
  Pays(Event)'
    => \/ Pays(Event) /\ call'[Event].order = call[Event].order
       \/ /\ queue # <<>>
          /\ \E id \in 0..MaxRounds, s \in PayStates :
               Head(queue) = <<"PAY", id, s>> /\ call'[Event].order = id
BookStep == QueueStep /\ IdStep /\ OrderStep /\ RowStep /\ AskStep /\ PayStep

\* Most steps touch none of it.
LEMMA QuietStep ==
  ASSUME QueueStep, UNCHANGED <<books, ids>>,
         \/ call'[Event].at # "save" \/ call'[Event].kind # "paid"
         \/ /\ call'[Event].at = call[Event].at /\ call'[Event].kind = call[Event].kind
            /\ call'[Event].order = call[Event].order
  PROVE  BookStep
<1> USE DEF books, ids
<1>1. IdStep /\ OrderStep /\ RowStep /\ AskStep
  BY DEF IdStep, OrderStep, RowStep, AskStep
<1>2. PayStep
  BY DEF PayStep, Pays
<1> QED
  BY <1>1, <1>2 DEF BookStep

\* The event thread stays in its call when another thread moves.
LEMMA EventStays ==
  ASSUME NEW t \in Threads, t # Event, OthersKept(t) \/ OthersMarked(t)
  PROVE  /\ call'[Event].at = call[Event].at /\ call'[Event].kind = call[Event].kind
         /\ call'[Event].order = call[Event].order /\ call'[Event].arg = call[Event].arg
         /\ call[Event].wiped => call'[Event].wiped
  BY TheThreads DEF OthersKept, OthersMarked, Marked

LEMMA NextDoesBooks ==
  ASSUME Typed, [Next]_vars
  PROVE  BookStep
<1>0. /\ Event \in Threads /\ Timer \in Threads /\ Pms \in Threads
      /\ Event # Timer /\ Event # Pms /\ Timer # Pms
  BY TheThreads
<1>a. queue' = queue => QueueStep
  BY DEF QueueStep
<1>b. ASSUME NEW e, Take(e) PROVE QueueStep
  BY <1>b, TakeSays DEF QueueStep
<1>1. ASSUME NEW t \in Threads, OthersKept(t) \/ OthersMarked(t), QueueStep,
             UNCHANGED <<books, ids>>,
             t = Event => call'[Event].at # "save" \/ call'[Event].kind # "paid"
      PROVE  BookStep
  BY <1>1, EventStays, QuietStep
<1>2. ASSUME call' = call, QueueStep, UNCHANGED <<books, ids>> PROVE BookStep
  BY <1>2, QuietStep
<1>3. CASE World
  <2>1. /\ Joins /\ call' = call
        /\ \A r \in Rounds : asked'[r] > 0 => asked[r] > 0
        /\ \A id \in 0..MaxRounds : owed'[id] > 0 => owed[id] > 0
        /\ UNCHANGED <<orders, pmsAsked, records, transID, round, seen>>
    <3>1. /\ \A r \in Rounds : asked'[r] <= asked[r]
          /\ \A id \in 0..MaxRounds : owed'[id] <= owed[id]
          /\ Joins /\ UNCHANGED <<call, orders, pmsAsked, records, transID, round, seen>>
      BY <1>3, WorldSays
    <3>2. /\ asked \in [Rounds -> 0..MaxAnswers] /\ asked' \in [Rounds -> 0..MaxAnswers]
          /\ owed \in [0..MaxRounds -> 0..MaxResults]
          /\ owed' \in [0..MaxRounds -> 0..MaxResults]
      BY <1>3, WorldKeepsTyped DEF Typed, LaneTyped
    <3>3. \A r \in Rounds : asked[r] \in Int /\ asked'[r] \in Int
      BY <3>2
    <3>4. \A id \in 0..MaxRounds : owed[id] \in Int /\ owed'[id] \in Int
      BY <3>2
    <3> QED
      BY <3>1, <3>3, <3>4
  <2>2. QueueStep /\ IdStep /\ OrderStep /\ RowStep /\ AskStep
    BY <2>1 DEF QueueStep, IdStep, OrderStep, RowStep, AskStep
  <2>3. PayStep
    BY <2>1 DEF PayStep, Pays
  <2> QED
    BY <2>2, <2>3 DEF BookStep
<1>4. CASE UNCHANGED vars
  <2>1. call' = call /\ queue' = queue /\ UNCHANGED <<books, ids>>
    BY <1>4 DEF vars, books, ids, lpr, payment, process, history
  <2> QED
    BY <1>a, <1>2, <2>1
<1>5. ASSUME NEW t \in Threads, Step(t) PROVE BookStep
  <2>1. CASE LoopACome(t)
    BY <1>a, <1>1, <2>1, LoopAComeSays DEF MovesTo
  <2>2. CASE ClearForRound(t)
    <3>1. Clearme(t, "detect") /\ "detect" \in Places
      BY <2>2 DEF ClearForRound, Places
    <3> QED
      BY <1>a, <1>1, <3>1, ClearmeSays DEF MovesTo
  <2>3. CASE SendTransID(t)
    <3>1. /\ OthersMarked(t) /\ queue' = queue /\ call'[t].at = "idle"
          /\ UNCHANGED books
      BY <2>3, SendSays
    <3>2. QueueStep /\ IdStep /\ OrderStep /\ RowStep /\ AskStep
      BY <1>a, <2>3, <3>1 DEF books, IdStep, OrderStep, RowStep, AskStep
    <3>3. PayStep
      BY <1>0, <3>1, EventStays DEF PayStep, Pays
    <3> QED
      BY <3>2, <3>3 DEF BookStep
  <2>4. CASE SaveExit(t)
    <3>1. /\ OthersKept(t) /\ queue' = queue /\ call'[t].at # "save"
          /\ UNCHANGED <<orders, owed, pmsAsked, ids>>
          /\ records' = records \/ Writes(t)
      BY <2>4, SaveSays DEF MovesTo
    <3>2. QueueStep /\ IdStep /\ OrderStep /\ RowStep /\ AskStep
      BY <1>a, <3>1 DEF ids, IdStep, OrderStep, RowStep, AskStep
    <3>3. PayStep
      BY <1>0, <3>1, EventStays DEF PayStep, Pays
    <3> QED
      BY <3>2, <3>3 DEF BookStep
  <2>5. CASE SetSaved(t)
    <3>1. /\ OthersKept(t) /\ queue' = queue /\ call'[t].at # "save"
          /\ UNCHANGED <<orders, owed, pmsAsked, records, ids>>
      BY <2>5, SetSavedSays DEF MovesTo
    <3>2. QueueStep /\ IdStep /\ OrderStep /\ RowStep /\ AskStep
      BY <1>a, <3>1 DEF ids, IdStep, OrderStep, RowStep, AskStep
    <3>3. PayStep
      BY <1>0, <3>1, EventStays DEF PayStep, Pays
    <3> QED
      BY <3>2, <3>3 DEF BookStep
  <2>6. CASE Openbarrier(t)
    <3>1. QueueStep
      BY <2>6, OpenSays DEF QueueStep
    <3> QED
      BY <1>1, <2>6, <3>1, OpenSays
  <2> QED
    BY <1>5, <2>1, <2>2, <2>3, <2>4, <2>5, <2>6 DEF Step
<1>6. CASE LoopAOn
  BY <1>0, <1>b, <1>1, <1>6, LoopSays DEF MovesTo
<1>7. CASE LoopAOff
  BY <1>b, <1>2, <1>7, LoopSays
<1>8. CASE LoopCOff
  BY <1>0, <1>b, <1>1, <1>8, LoopSays DEF MovesTo
<1>9. CASE LoopCGone
  <2>1. PICK next \in {"come", "idle"} : Clearme(Event, next)
    BY <1>9 DEF LoopCGone
  <2>2. /\ call'[Event].at = next /\ OthersMarked(Event) /\ queue' = queue
        /\ UNCHANGED <<books, ids>>
    BY <1>0, <2>1, ClearmeSays DEF MovesTo, Places
  <2> QED
    BY <1>0, <1>a, <1>1, <2>2
<1>10. CASE BarrierStatusOn
  <2>1. /\ QueueStep /\ UNCHANGED <<books, ids>>
        /\ \/ call' = call
           \/ /\ OthersKept(Event) /\ call'[Event].kind = "manual"
    BY <1>b, <1>10, BarrierSays DEF StartsAt
  <2> QED
    BY <1>0, <1>1, <1>2, <2>1
<1>11. ASSUME NEW r \in Rounds, NEW p \in Vehicles \cup {None}, ReceivedLPR(r, p)
       PROVE  BookStep
  <2>1. /\ QueueStep /\ UNCHANGED <<books, ids>>
        /\ \/ call' = call
           \/ OthersKept(Event) /\ call'[Event].at = "check"
    BY <1>b, <1>11, LPRSays DEF StartsAt
  <2> QED
    BY <1>0, <1>1, <1>2, <2>1
<1>12. CASE CardReceived
  BY <1>0, <1>b, <1>1, <1>12, CardSays DEF StartsAt
<1>13. ASSUME NEW id \in 0..MaxRounds, NEW s \in {"ok", "insufficient"}, PayResult(id, s)
       PROVE  BookStep
  <2>1. /\ Take(<<"PAY", id, s>>) /\ OthersKept(Event) /\ UNCHANGED <<books, ids>>
        /\ call' = call \/ call'[Event].order = id
    BY <1>13, PaySays
  <2>2. QueueStep /\ queue # <<>> /\ Head(queue) = <<"PAY", id, s>>
    BY <1>b, <2>1, TakeSays DEF TakesFrom
  <2>3. IdStep /\ OrderStep /\ RowStep /\ AskStep
    BY <2>1 DEF ids, books, IdStep, OrderStep, RowStep, AskStep
  <2>4. PayStep
    BY <1>13, <2>1, <2>2 DEF PayStep, Pays, PayStates
  <2> QED
    BY <2>2, <2>3, <2>4 DEF BookStep
<1>14. CASE WaitForCard
  BY <1>a, <1>14, WaitForCardSays, QuietStep
<1>15. CASE SameCardAgain \/ TurnedAway
  BY <1>0, <1>a, <1>1, <1>15, EndsSays
<1>16. CASE CheckCardOK
  <2>1. /\ queue' = queue /\ UNCHANGED <<pmsAsked, records, ids>>
        /\ (orders' = orders /\ owed' = owed) \/ Requests(due)
        /\ call'[Event].at = "idle" \/ call'[Event].kind = "card"
    BY <1>16, CheckCardSays DEF MovesToSave
  <2>2. due \in Amounts
    BY DEF Typed, ExitTyped
  <2>3. QueueStep /\ IdStep /\ OrderStep /\ RowStep /\ AskStep
    BY <1>a, <2>1, <2>2 DEF ids, IdStep, OrderStep, RowStep, AskStep
  <2>4. PayStep
    BY <2>1 DEF PayStep, Pays
  <2> QED
    BY <2>3, <2>4 DEF BookStep
<1>17. CASE SameAsLast
  BY <1>0, <1>a, <1>1, <1>17, SameSays
<1>18. CASE StartPBSExit
  <2>1. OthersKept(Event) \/ OthersMarked(Event)
    BY <1>18, StartSays
  <2> QED
    BY <1>0, <1>a, <1>1, <1>18, <2>1, StartSays DEF MovesTo
<1>19. CASE FetchEntryinfo
  BY <1>0, <1>a, <1>1, <1>19, FetchSays DEF MovesTo
<1>20. CASE SeasonParking
  BY <1>0, <1>a, <1>1, <1>20, SeasonSays DEF MovesToSave
<1>21. CASE CalculateFee
  BY <1>0, <1>a, <1>1, <1>21, CalculateSays
<1>22. CASE AskPms
  <2>1. /\ queue' = queue /\ UNCHANGED <<orders, owed, records, ids>>
        /\ pmsAsked' = pmsAsked \cup {[id |-> transID, number |-> call[Event].arg]}
        /\ call'[Event].at = "idle"
    BY <1>22, AskSays
  <2>2. call[Event].arg \in Numbers
    BY <1>0 DEF Typed, CallsTyped, Calls
  <2>3. QueueStep /\ IdStep /\ OrderStep /\ RowStep /\ AskStep
    BY <1>a, <2>1, <2>2 DEF ids, IdStep, OrderStep, RowStep, AskStep
  <2>4. PayStep
    BY <2>1 DEF PayStep, Pays
  <2> QED
    BY <2>3, <2>4 DEF BookStep
<1>23. CASE ShowFee
  <2>1. /\ queue' = queue /\ UNCHANGED <<pmsAsked, records, ids>>
        /\ (orders' = orders /\ owed' = owed) \/ Requests(call[Event].fee)
        /\ call'[Event].at = "idle" \/ call'[Event].kind = "free"
    BY <1>23, ShowSays DEF MovesToSave
  <2>2. call[Event].fee \in Amounts
    BY <1>0 DEF Typed, CallsTyped, Calls
  <2>3. QueueStep /\ IdStep /\ OrderStep /\ RowStep /\ AskStep
    BY <1>a, <2>1, <2>2 DEF ids, IdStep, OrderStep, RowStep, AskStep
  <2>4. PayStep
    BY <2>1 DEF PayStep, Pays
  <2> QED
    BY <2>3, <2>4 DEF BookStep
<1>24. CASE TimerExpires \/ WaitAnotherSecond
  BY <1>a, <1>2, <1>24, HandlerSays
<1>25. CASE OperationTimeout
  BY <1>0, <1>a, <1>1, <1>25, TimeoutSays
<1>26. CASE LpnTimeout
  BY <1>0, <1>a, <1>1, <1>26, NoPlateSays
<1>27. CASE CmdOpenBarrier
  BY <1>0, <1>a, <1>1, <1>27, OpenCmdSays
<1>28. ASSUME NEW q \in pmsAsked, CmdTimeForNoEntry(q) PROVE BookStep
  <2>1. /\ queue' = queue /\ UNCHANGED <<orders, owed, records, ids>>
        /\ pmsAsked' \subseteq pmsAsked
        /\ call' = call \/ OthersMarked(Pms)
    BY <1>28, EntryTimeSays
  <2>2. QueueStep /\ IdStep /\ OrderStep /\ RowStep /\ AskStep
    BY <1>a, <2>1 DEF ids, IdStep, OrderStep, RowStep, AskStep
  <2>3. PayStep
    BY <1>0, <2>1, EventStays DEF PayStep, Pays
  <2> QED
    BY <2>2, <2>3 DEF BookStep
<1>29. CASE ReceivedEntryRecord
  BY <1>0, <1>a, <1>1, <1>29, PmsFeeSays
<1>30. CASE ShowFeeForPms
  BY <1>0, <1>a, <1>1, <1>30, PmsShowSays
<1>31. CASE EventThread
  BY <1>6, <1>7, <1>8, <1>9, <1>10, <1>11, <1>12, <1>13, <1>14, <1>15, <1>16,
     <1>17, <1>18, <1>19, <1>20, <1>21, <1>22, <1>23, <1>31 DEF EventThread
<1>32. CASE TimerStrand
  BY <1>24, <1>25, <1>26, <1>32 DEF TimerStrand
<1>33. CASE PmsStrand
  BY <1>27, <1>28, <1>29, <1>30, <1>33 DEF PmsStrand
<1> QED
  BY <1>3, <1>4, <1>5, <1>31, <1>32, <1>33 DEF Next

\* Who waits was waiting, or has just joined.
LEMMA AppendWaits ==
  ASSUME queue \in Seq(Events), NEW e, queue' = Append(queue, e), e \in Events,
         NEW w \in Waiting'
  PROVE  w \in Waiting \/ w = e
<1>1. PICK k \in 1..Len(queue') : w = queue'[k]
  BY DEF Waiting
<1>2. Len(queue') = Len(queue) + 1 /\ Len(queue) \in Nat
  OBVIOUS
<1>3. CASE k = Len(queue) + 1
  BY <1>1, <1>3
<1>4. CASE k \in 1..Len(queue)
  BY <1>1, <1>4 DEF Waiting
<1> QED
  BY <1>1, <1>2, <1>3, <1>4

LEMMA TailWaits ==
  ASSUME queue \in Seq(Events), TakesFrom(queue)
  PROVE  Waiting' \subseteq Waiting
<1>1. SUFFICES ASSUME NEW k \in 1..Len(queue') PROVE queue'[k] \in Waiting
  BY DEF Waiting
<1>2. /\ Len(queue) \in Nat /\ Len(queue') = Len(queue) - 1
      /\ k + 1 \in 1..Len(queue) /\ queue'[k] = queue[k + 1]
  BY DEF TakesFrom
<1> QED
  BY <1>2 DEF Waiting

LEMMA HeadWaits ==
  ASSUME queue \in Seq(Events), queue # <<>>
  PROVE  Head(queue) \in Waiting
  BY DEF Waiting

LEMMA WaitsAfter ==
  ASSUME Typed, QueueStep, NEW w \in Waiting'
  PROVE  \/ w \in Waiting
         \/ w \in {<<"A_ON">>, <<"A_OFF">>, <<"C_OFF">>, <<"BARRIER_ON">>, <<"CARD">>}
         \/ \E r \in Rounds : asked[r] > 0 /\ w = <<"LPR", r, seen[r]>>
         \/ \E id \in 0..MaxRounds, s \in PayStates : owed[id] > 0 /\ w = <<"PAY", id, s>>
<1>0. queue \in Seq(Events) /\ \A r \in Rounds : seen[r] \in Vehicles \cup {None}
  BY DEF Typed, LaneTyped
<1>1. CASE queue' = queue
  BY <1>1 DEF Waiting
<1>2. CASE TakesFrom(queue)
  BY <1>0, <1>2, TailWaits
<1>3. ASSUME NEW e \in {<<"A_ON">>, <<"A_OFF">>, <<"C_OFF">>, <<"BARRIER_ON">>, <<"CARD">>},
             queue' = Append(queue, e)
      PROVE  w \in Waiting \/ w = e
  <2>1. e \in Events
    BY <1>3 DEF Events
  <2> QED
    BY <1>0, <1>3, <2>1, AppendWaits
<1>4. ASSUME NEW r \in Rounds, asked[r] > 0, queue' = Append(queue, <<"LPR", r, seen[r]>>)
      PROVE  w \in Waiting \/ w = <<"LPR", r, seen[r]>>
  <2>1. <<"LPR", r, seen[r]>> \in Events
    BY <1>0, EventsOfTheLane
  <2> QED
    BY <1>0, <1>4, <2>1, AppendWaits
<1>5. ASSUME NEW id \in 0..MaxRounds, NEW s \in PayStates, owed[id] > 0,
             queue' = Append(queue, <<"PAY", id, s>>)
      PROVE  w \in Waiting \/ w = <<"PAY", id, s>>
  <2>1. <<"PAY", id, s>> \in Events
    BY EventsOfTheLane DEF PayStates
  <2> QED
    BY <1>0, <1>5, <2>1, AppendWaits
<1>6. CASE Joins
  <2>1. CASE queue' \in {Append(queue, <<"A_ON">>), Append(queue, <<"A_OFF">>),
                         Append(queue, <<"C_OFF">>), Append(queue, <<"BARRIER_ON">>),
                         Append(queue, <<"CARD">>)}
    BY <1>3, <2>1
  <2>2. CASE \E r \in Rounds : asked[r] > 0 /\ queue' = Append(queue, <<"LPR", r, seen[r]>>)
    BY <1>4, <2>2
  <2>3. CASE \E id \in 0..MaxRounds, s \in {"ok", "insufficient"} :
               owed[id] > 0 /\ queue' = Append(queue, <<"PAY", id, s>>)
    BY <1>5, <2>3 DEF PayStates
  <2> QED
    BY <1>6, <2>1, <2>2, <2>3 DEF Joins
<1>7. CASE queue' = Append(queue, <<"BARRIER_ON">>)
  BY <1>3, <1>7
<1> QED
  BY <1>1, <1>2, <1>6, <1>7 DEF QueueStep

\* Who waits is told apart by its name.
LEMMA NamesDiffer ==
  /\ \A r, p : <<"LPR", r, p>> \notin {<<"A_ON">>, <<"A_OFF">>, <<"C_OFF">>,
                                       <<"BARRIER_ON">>, <<"CARD">>}
  /\ \A r, p : <<"PAY", r, p>> \notin {<<"A_ON">>, <<"A_OFF">>, <<"C_OFF">>,
                                       <<"BARRIER_ON">>, <<"CARD">>}
  /\ \A r, p, id, s : <<"LPR", r, p>> # <<"PAY", id, s>>
  /\ \A r, p, id, s : <<"LPR", r, p>> = <<"LPR", id, s>> => r = id /\ p = s
  /\ \A r, p, id, s : <<"PAY", r, p>> = <<"PAY", id, s>> => r = id /\ p = s
  OBVIOUS

\* Orders and rows are only added.
LEMMA OrdersStay ==
  ASSUME Typed, OrderStep
  PROVE  /\ Len(orders) \in Nat /\ Len(orders') \in Nat /\ Len(orders) <= Len(orders')
         /\ \A i \in 1..Len(orders) : orders'[i] = orders[i]
         /\ \A id \in 0..MaxRounds : Placed(id) => Placed(id)'
<1>1. Len(orders) \in Nat
  BY DEF Typed, BooksTyped
<1>2. \/ orders' = orders
      \/ /\ Len(orders') = Len(orders) + 1
         /\ \A i \in 1..Len(orders) : orders'[i] = orders[i]
  BY DEF OrderStep, Requests
<1>3. /\ Len(orders') \in Nat /\ Len(orders) <= Len(orders')
      /\ \A i \in 1..Len(orders) : orders'[i] = orders[i]
  BY <1>1, <1>2
<1> QED
  BY <1>1, <1>3 DEF Placed

LEMMA NextKeepsIds ==
  ASSUME Typed, Typed', IdsAreGivenOut, BookStep
  PROVE  IdsAreGivenOut' /\ round' \in Nat /\ round <= round'
<1>0. /\ round \in Nat /\ transID = round /\ Len(orders) \in Nat /\ Len(records) \in Nat
      /\ \A i \in 1..Len(orders) : orders[i].id \in Nat /\ orders[i].id <= round
      /\ \A i \in 1..Len(records) : records[i].round \in Nat /\ records[i].round <= round
      /\ \A q \in pmsAsked : q.id \in Nat /\ q.id <= round
  <2>1. round \in Nat /\ transID = round /\ Len(orders) \in Nat /\ Len(records) \in Nat
    BY DEF IdsAreGivenOut, Typed, LaneTyped, BooksTyped
  <2>2. ASSUME NEW i \in 1..Len(orders) PROVE orders[i].id \in Nat /\ orders[i].id <= round
    <3>1. orders[i] \in Orders
      BY DEF Typed, BooksTyped
    <3> QED
      BY <3>1 DEF Orders, IdsAreGivenOut
  <2>3. ASSUME NEW i \in 1..Len(records)
        PROVE  records[i].round \in Nat /\ records[i].round <= round
    <3>1. records[i] \in Rows
      BY DEF Typed, BooksTyped
    <3> QED
      BY <3>1 DEF Rows, IdsAreGivenOut
  <2>4. \A q \in pmsAsked : q.id \in Nat /\ q.id <= round
    BY DEF Typed, ExitTyped, IdsAreGivenOut
  <2> QED
    BY <2>1, <2>2, <2>3, <2>4
<1>1. /\ round' \in Nat /\ round <= round' /\ transID' = round'
      /\ \A r \in Rounds : asked'[r] > 0 => r <= round'
  <2>1. CASE /\ UNCHANGED <<transID, round, seen>>
             /\ \A r \in Rounds : asked'[r] > 0 => asked[r] > 0
    BY <1>0, <2>1 DEF IdsAreGivenOut
  <2>2. ASSUME NEW t \in Threads, SendTransID(t)
        PROVE  /\ round' \in Nat /\ round <= round' /\ transID' = round'
               /\ \A r \in Rounds : asked'[r] > 0 => r <= round'
    <3>1. /\ round' = round + 1 /\ transID' = round + 1
          /\ \A r \in Rounds : r # round + 1 => asked'[r] = asked[r]
      BY <2>2, SendSays
    <3>2. ASSUME NEW r \in Rounds, asked'[r] > 0 PROVE r <= round + 1
      <4>1. r \in Nat
        BY DEF Rounds
      <4>2. CASE r # round + 1
        BY <1>0, <3>1, <3>2, <4>1, <4>2 DEF IdsAreGivenOut
      <4> QED
        BY <1>0, <4>2
    <3> QED
      BY <1>0, <3>1, <3>2
  <2> QED
    BY <2>1, <2>2 DEF BookStep, IdStep
<1>2. \A i \in 1..Len(orders') : orders'[i].id <= round'
  <2>1. CASE orders' = orders
    BY <1>0, <1>1, <2>1
  <2>2. ASSUME NEW amount, Requests(amount)
        PROVE  \A i \in 1..Len(orders') : orders'[i].id <= round'
    <3>1. /\ Len(orders') = Len(orders) + 1
          /\ \A i \in 1..Len(orders) : orders'[i] = orders[i]
          /\ orders'[Len(orders) + 1].id = transID
      BY <2>2 DEF Requests
    <3>2. ASSUME NEW i \in 1..Len(orders') PROVE orders'[i].id <= round'
      <4>1. i \in 1..Len(orders) \/ i = Len(orders) + 1
        BY <1>0, <3>1
      <4> QED
        BY <1>0, <1>1, <3>1, <4>1
    <3> QED
      BY <3>2
  <2> QED
    BY <2>1, <2>2 DEF BookStep, OrderStep
<1>3. \A i \in 1..Len(records') : records'[i].round <= round'
  <2>1. CASE records' = records
    BY <1>0, <1>1, <2>1
  <2>2. ASSUME NEW t \in Threads, Writes(t)
        PROVE  \A i \in 1..Len(records') : records'[i].round <= round'
    <3>1. /\ Len(records') = Len(records) + 1
          /\ \A i \in 1..Len(records) : records'[i] = records[i]
          /\ records'[Len(records) + 1].round = transID
      BY <2>2 DEF Writes
    <3>2. ASSUME NEW i \in 1..Len(records') PROVE records'[i].round <= round'
      <4>1. i \in 1..Len(records) \/ i = Len(records) + 1
        BY <1>0, <3>1
      <4> QED
        BY <1>0, <1>1, <3>1, <4>1
    <3> QED
      BY <3>2
  <2> QED
    BY <2>1, <2>2 DEF BookStep, RowStep
<1>4. ASSUME NEW q \in pmsAsked' PROVE q.id <= round'
  <2>1. CASE pmsAsked' \subseteq pmsAsked
    BY <1>0, <1>1, <1>4, <2>1
  <2>2. ASSUME NEW n \in Numbers,
               pmsAsked' = pmsAsked \cup {[id |-> transID, number |-> n]}
        PROVE  q.id <= round'
    BY <1>0, <1>1, <1>4, <2>2
  <2> QED
    BY <2>1, <2>2 DEF BookStep, AskStep
<1> QED
  BY <1>1, <1>2, <1>3, <1>4 DEF IdsAreGivenOut

LEMMA NextKeepsAnswers ==
  ASSUME Typed, IdsAreGivenOut, AnswersAreOfTheirRounds, BookStep
  PROVE  AnswersAreOfTheirRounds'
<1>0. round \in Nat
  BY DEF Typed, LaneTyped
<1> SUFFICES ASSUME NEW r \in Rounds, NEW p \in Vehicles \cup {None},
                    <<"LPR", r, p>> \in Waiting'
             PROVE  r <= round' /\ p = seen'[r]
  BY DEF AnswersAreOfTheirRounds
<1>1. \/ <<"LPR", r, p>> \in Waiting
      \/ asked[r] > 0 /\ p = seen[r]
  BY WaitsAfter, NamesDiffer DEF BookStep
<1>2. r <= round /\ p = seen[r] /\ r \in Nat
  BY <1>1 DEF AnswersAreOfTheirRounds, IdsAreGivenOut, Rounds
<1>3. CASE UNCHANGED <<round, seen>>
  BY <1>2, <1>3
<1>4. ASSUME NEW t \in Threads, SendTransID(t) PROVE r <= round' /\ p = seen'[r]
  <2>1. /\ round' = round + 1
        /\ \A q \in Rounds : q # round + 1 => seen'[q] = seen[q]
    BY <1>4, SendSays
  <2> QED
    BY <1>0, <1>2, <2>1
<1> QED
  BY <1>3, <1>4 DEF BookStep, IdStep

LEMMA NextKeepsResults ==
  ASSUME Typed, IdsAreGivenOut, ResultsAreOfOrders, BookStep
  PROVE  ResultsAreOfOrders'
<1>0. transID \in 0..MaxRounds
  BY DEF Typed, LaneTyped
<1>1. \A id \in 0..MaxRounds : Placed(id) => Placed(id)'
  BY OrdersStay DEF BookStep
<1>2. ASSUME NEW id \in 0..MaxRounds, owed'[id] > 0 PROVE Placed(id)'
  <2>1. CASE orders' = orders /\ \A j \in 0..MaxRounds : owed'[j] > 0 => owed[j] > 0
    BY <1>1, <1>2, <2>1 DEF ResultsAreOfOrders
  <2>2. ASSUME NEW amount \in Amounts, Requests(amount) PROVE Placed(id)'
    <3>1. CASE id = transID
      <4>1. /\ Len(orders') = Len(orders) + 1 /\ orders'[Len(orders) + 1].id = transID
            /\ Len(orders) \in Nat
        BY <2>2 DEF Requests, Typed, BooksTyped
      <4>2. Len(orders) + 1 \in 1..Len(orders')
        BY <4>1
      <4> QED
        BY <3>1, <4>1, <4>2 DEF Placed
    <3>2. CASE id # transID
      BY <1>1, <1>2, <2>2, <3>2 DEF Requests, ResultsAreOfOrders
    <3> QED
      BY <3>1, <3>2
  <2> QED
    BY <2>1, <2>2 DEF BookStep, OrderStep
<1>3. ASSUME NEW id \in 0..MaxRounds, NEW s \in PayStates, <<"PAY", id, s>> \in Waiting'
      PROVE  Placed(id)'
  <2>1. <<"PAY", id, s>> \in Waiting \/ owed[id] > 0
    BY <1>3, WaitsAfter, NamesDiffer DEF BookStep
  <2> QED
    BY <1>1, <2>1 DEF ResultsAreOfOrders
<1>4. ASSUME Pays(Event)' PROVE Placed(call[Event].order)'
  <2>1. CASE Pays(Event) /\ call'[Event].order = call[Event].order
    <3>1. call[Event].order \in 0..MaxRounds
      BY TheThreads DEF Typed, CallsTyped, Calls
    <3> QED
      BY <1>1, <2>1, <3>1 DEF ResultsAreOfOrders, Placed
  <2>2. ASSUME queue # <<>>, NEW id \in 0..MaxRounds, NEW s \in PayStates,
               Head(queue) = <<"PAY", id, s>>, call'[Event].order = id
        PROVE  Placed(call[Event].order)'
    <3>1. <<"PAY", id, s>> \in Waiting
      BY <2>2, HeadWaits DEF Typed, LaneTyped
    <3> QED
      BY <1>1, <2>2, <3>1 DEF ResultsAreOfOrders, Placed
  <2> QED
    BY <1>4, <2>1, <2>2 DEF BookStep, PayStep
<1> QED
  BY <1>2, <1>3, <1>4 DEF ResultsAreOfOrders

LEMMA NextKeepsNumbered ==
  ASSUME Typed, Numbered, [Next]_vars
  PROVE  Numbered'
  BY NextKeepsTyped, NextDoesBooks, NextKeepsIds, NextKeepsAnswers, NextKeepsResults
     DEF Numbered

-----------------------------------------------------------------------------
(***************************************************************************)
(* The number tExit holds, while it is not stale, is what the camera saw   *)
(* in the current round, and no thread is between Clearme and a new id.    *)
(* A plate that is to be checked is of the current round, and tExit is     *)
(* still empty, unless the check is disturbed.                             *)
(***************************************************************************)
Fresh == ~stale /\ iu \in Vehicles
Nobody == \A t \in Threads : call[t].at # "detect"

NumberIsSeen == Fresh => transID \in Rounds /\ iu = seen[transID] /\ Nobody

CheckIsSeen ==
  call[Event].at = "check" /\ call[Event].arg \in Vehicles
    => \/ call[Event].wiped
       \/ /\ iu = None /\ loopApresent /\ Nobody
          /\ transID \in Rounds /\ call[Event].arg = seen[transID]

\* What all kinds of steps have in common.
LEMMA StepKeeps ==
  ASSUME Typed, [Next]_vars
  PROVE  /\ Fresh' => (Fresh /\ iu' = iu) \/ Fetches
         /\ UNCHANGED <<transID, seen>> \/ \E t \in Threads : SendTransID(t)
         /\ (\A t \in Threads : call'[t].at = "detect" => call[t].at = "detect")
              \/ \E t \in Threads : Clears(t)
<1> DEFINE Common ==
             /\ Fresh' => Fresh /\ iu' = iu
             /\ UNCHANGED <<transID, seen>>
             /\ \A t \in Threads : call'[t].at = "detect" => call[t].at = "detect"
<1>0. /\ Event \in Threads /\ Timer \in Threads /\ Pms \in Threads
  BY TheThreads
<1>1. ASSUME NEW t \in Threads, OthersKept(t) \/ OthersMarked(t), call'[t].at # "detect"
      PROVE  \A u \in Threads : call'[u].at = "detect" => call[u].at = "detect"
  BY <1>1, OthersStay
<1>2. CASE Rests
  BY <1>2 DEF Rests, about, vehicle, Fresh
<1>3. ASSUME NEW t \in Threads, Moves(t) PROVE Common
  <2>1. UNCHANGED <<iu, stale, transID, seen>> /\ OthersKept(t) /\ call'[t].at # "detect"
    BY <1>3 DEF Moves, about, vehicle
  <2> QED
    BY <1>1, <2>1 DEF Fresh
<1>4. ASSUME NEW t \in Threads, Clears(t) PROVE ~Fresh' /\ UNCHANGED <<transID, seen>>
  BY <1>4, TheNumbers DEF Clears, Fresh
<1>5. ASSUME NEW t \in Threads, SaveExit(t) PROVE Common
  <2>1. UNCHANGED <<iu, stale, transID, seen>> /\ OthersKept(t) /\ call'[t].at # "detect"
    BY <1>5, SaveSays DEF MovesTo, vehicle, ids
  <2> QED
    BY <1>1, <2>1 DEF Fresh
<1>6. ASSUME NEW t \in Threads, SendTransID(t)
      PROVE  /\ Fresh' => Fresh /\ iu' = iu
             /\ \A u \in Threads : call'[u].at = "detect" => call[u].at = "detect"
  <2>1. UNCHANGED <<iu, stale>> /\ OthersMarked(t) /\ call'[t].at # "detect"
    BY <1>6, SendSays DEF vehicle
  <2> QED
    BY <1>1, <2>1 DEF Fresh
<1>7. ASSUME NEW r \in 0..MaxRounds, NEW p \in Plain, Checks(r, p) PROVE Common
  <2>1. UNCHANGED <<iu, stale, transID, seen>> /\ OthersKept(Event) /\ call'[Event].at # "detect"
    BY <1>7 DEF Checks, about, vehicle, StartsAt
  <2> QED
    BY <1>0, <1>1, <2>1 DEF Fresh
<1>8. ASSUME NEW q \in pmsAsked, LearnsEntry(q) PROVE Common
  <2>1. UNCHANGED <<iu, transID, seen>> /\ (stale => stale')
    BY <1>8 DEF LearnsEntry
  <2>2. call' = call \/ (OthersMarked(Pms) /\ call'[Pms].at # "detect")
    BY <1>8 DEF LearnsEntry, StartsAt
  <2> QED
    BY <1>0, <1>1, <2>1, <2>2 DEF Fresh
<1>9. ASSUME Fetches
      PROVE  /\ UNCHANGED <<transID, seen>>
             /\ \A u \in Threads : call'[u].at = "detect" => call[u].at = "detect"
  BY <1>0, <1>1, <1>9 DEF Fetches, MovesTo
<1>10. ASSUME OtherSteps PROVE Common
  <2>1. CASE WaitForCard
    BY <1>0, <1>1, <2>1, WaitForCardSays DEF vehicle, ids, Fresh, StaleIfWiped
  <2>2. CASE CheckCardOK
    <3>1. OthersMarked(Event) \/ OthersKept(Event)
      BY <2>2, CheckCardSays
    <3>2. /\ call'[Event].at # "detect" /\ (stale => stale')
          /\ UNCHANGED <<iu, transID, seen>>
      BY <2>2, CheckCardSays DEF MovesToSave, StaleIfWiped, ids
    <3> QED
      BY <1>0, <1>1, <3>1, <3>2 DEF Fresh
  <2>3. CASE FetchEntryinfo
    BY <1>0, <1>1, <2>3, FetchSays DEF ids, Fresh, StaleIfWiped, MovesTo
  <2>4. CASE SeasonParking
    BY <1>0, <1>1, <2>4, SeasonSays DEF ids, Fresh, StaleIfWiped, MovesToSave
  <2>5. CASE CalculateFee
    BY <1>0, <1>1, <2>5, CalculateSays DEF ids, Fresh, StaleIfWiped
  <2>6. CASE AskPms
    BY <1>0, <1>1, <2>6, AskSays DEF ids, Fresh, vehicle
  <2>7. CASE ShowFee
    BY <1>0, <1>1, <2>7, ShowSays DEF ids, Fresh, StaleIfWiped, MovesToSave
  <2>8. CASE LpnTimeout
    BY <1>0, <1>1, <2>8, NoPlateSays, TheNumbers DEF ids, Fresh, StartsAt
  <2>9. CASE ReceivedEntryRecord
    BY <1>0, <1>1, <2>9, PmsFeeSays DEF ids, Fresh, StaleIfWiped
  <2>10. CASE ShowFeeForPms
    BY <1>0, <1>1, <2>10, PmsShowSays DEF ids, Fresh, StaleIfWiped, MovesToSave
  <2> QED
    BY <1>10, <2>1, <2>2, <2>3, <2>4, <2>5, <2>6, <2>7, <2>8, <2>9, <2>10
       DEF OtherSteps
<1> QED
  BY <1>2, <1>3, <1>4, <1>5, <1>6, <1>7, <1>8, <1>9, <1>10, StepsAre

LEMMA NextKeepsNumberIsSeen ==
  ASSUME Typed, NumberIsSeen, CheckIsSeen, [Next]_vars
  PROVE  NumberIsSeen'
<1> SUFFICES ASSUME Fresh' PROVE (transID \in Rounds /\ iu = seen[transID] /\ Nobody)'
  BY DEF NumberIsSeen
<1>1. transID \in Rounds /\ iu' = seen[transID] /\ Nobody
  <2>1. CASE Fresh /\ iu' = iu
    BY <2>1 DEF NumberIsSeen
  <2>2. CASE Fetches
    <3>1. call[Event].at = "check" /\ iu' = call[Event].arg /\ ~call[Event].wiped
      BY <2>2 DEF Fetches, StaleIfWiped, Fresh
    <3> QED
      BY <3>1 DEF CheckIsSeen, Fresh
  <2> QED
    BY <2>1, <2>2, StepKeeps
<1>2. ~ \E t \in Threads : SendTransID(t)
  BY <1>1, SendSays DEF Nobody
<1>3. ~ \E t \in Threads : Clears(t)
  BY TheNumbers DEF Clears, Fresh
<1>4. UNCHANGED <<transID, seen>> /\ Nobody'
  BY <1>1, <1>2, <1>3, StepKeeps DEF Nobody
<1> QED
  BY <1>1, <1>4

\* The event thread stays where it is while others move; it is marked.
LEMMA EventIsMarked ==
  ASSUME NEW t \in Threads, t # Event, OthersMarked(t)
  PROVE  /\ call'[Event].at = call[Event].at /\ call'[Event].arg = call[Event].arg
         /\ call'[Event].fee = call[Event].fee /\ call'[Event].kind = call[Event].kind
         /\ call[Event].at \in {"check", "fetch", "season", "show", "save"}
              => call'[Event].wiped
<1>1. Event \in Threads
  BY TheThreads
<1>2. Marked(Event)
  BY <1>1 DEF OthersMarked
<1> QED
  BY <1>2 DEF Marked, InCall, InLoopACome, At

LEMMA NextKeepsCheckIsSeen ==
  ASSUME Typed, Numbered, CheckIsSeen, [Next]_vars
  PROVE  CheckIsSeen'
<1>0. /\ Event \in Threads /\ Timer \in Threads /\ Pms \in Threads
      /\ Event # Timer /\ Event # Pms
  BY TheThreads
<1> SUFFICES ASSUME call'[Event].at = "check", call'[Event].arg \in Vehicles,
                    ~call'[Event].wiped
             PROVE  (/\ iu = None /\ loopApresent /\ Nobody
                     /\ transID \in Rounds /\ call[Event].arg = seen[transID])'
  BY DEF CheckIsSeen
<1>1. ASSUME NEW t \in Threads, t # Event, OthersMarked(t) PROVE FALSE
  BY <1>1, EventIsMarked
<1>2. ASSUME UNCHANGED <<iu, transID, seen, loopApresent>>, call'[Event] = call[Event],
             \A t \in Threads : call'[t].at = "detect" => call[t].at = "detect"
      PROVE  (/\ iu = None /\ loopApresent /\ Nobody
              /\ transID \in Rounds /\ call[Event].arg = seen[transID])'
  BY <1>2 DEF CheckIsSeen, Nobody
<1>3. CASE Rests
  <2>1. call' = call /\ UNCHANGED <<iu, transID, seen>>
    BY <1>3 DEF Rests, about, vehicle
  <2>2. loopApresent' = loopApresent
    BY <1>3, <2>1 DEF Rests
  <2> QED
    BY <1>2, <2>1, <2>2
<1>4. ASSUME NEW t \in Threads, OthersKept(t), t # Event, call'[t].at # "detect",
             UNCHANGED <<iu, transID, seen, loopApresent>>
      PROVE  (/\ iu = None /\ loopApresent /\ Nobody
              /\ transID \in Rounds /\ call[Event].arg = seen[transID])'
  BY <1>0, <1>2, <1>4 DEF OthersKept
<1>5. ASSUME NEW t \in Threads, Moves(t)
      PROVE  (/\ iu = None /\ loopApresent /\ Nobody
              /\ transID \in Rounds /\ call[Event].arg = seen[transID])'
  <2>1. t # Event /\ OthersKept(t) /\ call'[t].at # "detect" /\ UNCHANGED about
        /\ loopApresent' = loopApresent
    BY <1>5 DEF Moves
  <2> QED
    BY <1>4, <2>1 DEF about, vehicle
<1>6. ASSUME NEW t \in Threads, Clears(t) \/ SendTransID(t) PROVE FALSE
  BY <1>1, <1>6, SendSays DEF Clears
<1>7. ASSUME NEW t \in Threads, SaveExit(t)
      PROVE  (/\ iu = None /\ loopApresent /\ Nobody
              /\ transID \in Rounds /\ call[Event].arg = seen[transID])'
  <2>1. t # Event /\ OthersKept(t) /\ call'[t].at # "detect"
        /\ UNCHANGED <<iu, transID, seen, loopApresent>>
    BY <1>7, SaveSays DEF MovesTo, vehicle, ids, loop
  <2> QED
    BY <1>4, <2>1
<1>8. ASSUME NEW r \in 0..MaxRounds, NEW p \in Plain, Checks(r, p)
      PROVE  (/\ iu = None /\ loopApresent /\ Nobody
              /\ transID \in Rounds /\ call[Event].arg = seen[transID])'
  <2>1. call'[Event].arg = p /\ p \in Vehicles /\ p # Card
    BY <1>8, TheNumbers DEF Checks, StartsAt
  <2>2. /\ r \in Rounds /\ transID = r /\ loopApresent /\ iu = None
        /\ <<"LPR", r, p>> \in Waiting
        /\ UNCHANGED <<iu, transID, seen, loopApresent>> /\ OthersKept(Event)
    BY <1>8, <2>1, HeadWaits DEF Checks, about, vehicle, Typed, LaneTyped
  <2>3. p = seen[r]
    BY <2>1, <2>2 DEF Numbered, AnswersAreOfTheirRounds
  <2>4. \A u \in Threads \ {Event} : ~At(u, "detect")
    BY <1>8 DEF Checks, StartsAt
  <2>5. Nobody'
    BY <2>2, <2>4 DEF Nobody, At, OthersKept
  <2> QED
    BY <2>1, <2>2, <2>3, <2>5
<1>9. ASSUME NEW q \in pmsAsked, LearnsEntry(q)
      PROVE  (/\ iu = None /\ loopApresent /\ Nobody
              /\ transID \in Rounds /\ call[Event].arg = seen[transID])'
  <2>1. call' = call /\ UNCHANGED <<iu, transID, seen, loopApresent>>
    BY <1>0, <1>1, <1>9 DEF LearnsEntry
  <2> QED
    BY <1>2, <2>1
<1>10. CASE Fetches
  BY <1>10 DEF Fetches, MovesTo
<1>11. CASE OtherSteps
  <2>1. CASE WaitForCard
    <3>1. /\ call'[Event] = call[Event] /\ OthersMarked(Event)
          /\ UNCHANGED <<iu, transID, seen, loopApresent>>
      BY <2>1, WaitForCardSays DEF vehicle, ids, loop
    <3>2. \A t \in Threads : call'[t].at = "detect" => call[t].at = "detect"
      BY <1>0, <3>1, OthersStay
    <3> QED
      BY <1>2, <3>1, <3>2
  <2>2. CASE CheckCardOK \/ FetchEntryinfo \/ SeasonParking
    BY <2>2, CheckCardSays, FetchSays, SeasonSays DEF MovesToSave, MovesTo
  <2>3. CASE CalculateFee \/ AskPms \/ ShowFee
    BY <2>3, CalculateSays, AskSays, ShowSays DEF MovesToSave
  <2>4. CASE LpnTimeout \/ ReceivedEntryRecord \/ ShowFeeForPms
    BY <1>0, <1>1, <2>4, NoPlateSays, PmsFeeSays, PmsShowSays
  <2> QED
    BY <1>11, <2>1, <2>2, <2>3, <2>4 DEF OtherSteps
<1> QED
  BY <1>3, <1>5, <1>6, <1>7, <1>8, <1>9, <1>10, <1>11, StepsAre

-----------------------------------------------------------------------------
(***************************************************************************)
(* While tExit is not stale: before a vehicle is known nothing of it is,   *)
(* and the entry record and the amount are of the vehicle it holds, or     *)
(* the flat charge, also those a call is about to write.                   *)
(***************************************************************************)
NothingYet ==
  ~stale /\ iu \in {None, NoPlate} => due = None /\ entryOf = None /\ noEntry = -1
EntryIsItsOwn == Fresh => entryOf \in {None, iu} /\ due \in {None, iu, Flat}
FeeIsItsOwn == Fresh /\ call[Event].at = "show" => call[Event].fee \in {None, iu, Flat}
ShownIsDue ==
  Fresh /\ call[Pms].at = "show" /\ ~call[Pms].wiped => due = call[Pms].fee

ItsOwn == NothingYet /\ EntryIsItsOwn /\ FeeIsItsOwn /\ ShownIsDue

\* An undisturbed call works for the number tExit holds.
LEMMA WorksForItsNumber ==
  ASSUME Typed, CallHasItsNumber, NEW t \in Threads,
         call[t].at \in {"fetch", "season", "fee", "show"}, ~call[t].wiped, ~stale
  PROVE  iu = call[t].arg /\ iu \in Plain /\ iu # None /\ iu # NoPlate
<1>1. iu = call[t].arg
  BY DEF CallHasItsNumber, HasNumber
<1>2. call[t].arg \in Plain
  BY TheThreads DEF Typed, CallsTyped
<1> QED
  BY <1>1, <1>2, TheNumbers

\* The steps that leave tExit alone.
LEMMA OwnKept ==
  ASSUME ItsOwn, UNCHANGED vehicle, stale => stale',
         NEW t \in Threads, OthersKept(t) \/ OthersMarked(t),
         call'[t] = call[t] \/ call'[t].at # "show"
  PROVE  ItsOwn'
<1>1. UNCHANGED <<iu, entryOf, noEntry, due>>
  BY DEF vehicle
<1>2. Fresh' => Fresh
  BY <1>1 DEF Fresh
<1>3. ASSUME NEW u \in Threads, call'[u].at = "show"
      PROVE  /\ call[u].at = "show" /\ call'[u].fee = call[u].fee
             /\ call[u].wiped => call'[u].wiped
  <2>1. CASE u = t
    BY <1>3, <2>1
  <2>2. CASE u # t
    BY <1>3, <2>2 DEF OthersKept, OthersMarked, Marked
  <2> QED
    BY <2>1, <2>2
<1>4. NothingYet' /\ EntryIsItsOwn'
  BY <1>1, <1>2 DEF ItsOwn, NothingYet, EntryIsItsOwn
<1>5. FeeIsItsOwn' /\ ShownIsDue'
  BY <1>1, <1>2, <1>3, TheThreads DEF ItsOwn, FeeIsItsOwn, ShownIsDue
<1> QED
  BY <1>4, <1>5 DEF ItsOwn

\* A thread that stays while another writes is marked.
LEMMA StaysMarked ==
  ASSUME NEW t \in Threads, OthersMarked(t), NEW u \in Threads, u # t
  PROVE  /\ call'[u].at = call[u].at /\ call'[u].arg = call[u].arg
         /\ call'[u].fee = call[u].fee /\ call'[u].kind = call[u].kind
         /\ call[u].at \in {"check", "fetch", "season", "fee", "show", "save"}
              => call'[u].wiped
<1>1. Marked(u)
  BY DEF OthersMarked
<1> QED
  BY <1>1 DEF Marked, InCall, InLoopACome, At

\* A call that writes tExit for its own number.
LEMMA OwnWritten ==
  ASSUME Typed, CallHasItsNumber, ItsOwn, NEW t \in {Event, Pms},
         call[t].at \in {"fetch", "season", "fee", "show"},
         OthersMarked(t), StaleIfWiped(t), iu' = iu,
         \/ call[t].wiped
         \/ Fresh => /\ entryOf' \in {None, iu} /\ due' \in {None, iu, Flat}
                     /\ call'[t].at = "show" => call'[t].fee = due'
  PROVE  ItsOwn'
<1>0. Event \in Threads /\ Pms \in Threads /\ t \in Threads /\ Event # Pms
  BY TheThreads
<1>1. ~stale' => ~stale /\ ~call[t].wiped
  BY DEF StaleIfWiped
<1>2. ~stale' => iu \in Plain /\ iu # None /\ iu # NoPlate
  BY <1>0, <1>1, WorksForItsNumber
<1>3. Fresh' => Fresh /\ ~call[t].wiped
  BY <1>1 DEF Fresh
<1>4. NothingYet' /\ EntryIsItsOwn'
  BY <1>2, <1>3 DEF NothingYet, EntryIsItsOwn
<1>5. FeeIsItsOwn'
  <2>1. CASE t = Event
    BY <1>3, <2>1 DEF FeeIsItsOwn
  <2>2. CASE t # Event
    BY <1>0, <1>3, <2>2, StaysMarked DEF ItsOwn, FeeIsItsOwn
  <2> QED
    BY <2>1, <2>2
<1>6. ShownIsDue'
  <2>1. CASE t = Pms
    BY <1>3, <2>1 DEF ShownIsDue
  <2>2. CASE t # Pms
    BY <1>0, <2>2, StaysMarked DEF ShownIsDue
  <2> QED
    BY <2>1, <2>2
<1> QED
  BY <1>4, <1>5, <1>6 DEF ItsOwn

LEMMA NextKeepsOwn ==
  ASSUME Typed, CallHasItsNumber, CheckIsSeen, ItsOwn, [Next]_vars
  PROVE  ItsOwn'
<1>0. /\ Event \in Threads /\ Timer \in Threads /\ Pms \in Threads
      /\ Event # Timer /\ Event # Pms /\ Timer # Pms
  BY TheThreads
<1>1. CASE Rests
  <2>1. UNCHANGED <<call, iu, entryOf, noEntry, due, stale>>
    BY <1>1 DEF Rests, about, vehicle
  <2> QED
    BY <2>1 DEF ItsOwn, NothingYet, EntryIsItsOwn, FeeIsItsOwn, ShownIsDue, Fresh
<1>2. ASSUME NEW t \in Threads, Moves(t) PROVE ItsOwn'
  BY <1>2, OwnKept DEF Moves, about
<1>3. ASSUME NEW t \in Threads, Clears(t) PROVE ItsOwn'
  <2>1. NothingYet' /\ ~Fresh'
    BY <1>3, TheNumbers DEF Clears, NothingYet, Fresh
  <2> QED
    BY <2>1 DEF ItsOwn, EntryIsItsOwn, FeeIsItsOwn, ShownIsDue
<1>4. ASSUME NEW t \in Threads, SaveExit(t) PROVE ItsOwn'
  BY <1>4, SaveSays, OwnKept DEF MovesTo
<1>5. ASSUME NEW t \in Threads, SendTransID(t) PROVE ItsOwn'
  BY <1>5, SendSays, OwnKept
<1>6. ASSUME NEW r \in 0..MaxRounds, NEW p \in Plain, Checks(r, p) PROVE ItsOwn'
  BY <1>0, <1>6, OwnKept DEF Checks, StartsAt, about
<1>7. ASSUME NEW q \in pmsAsked, LearnsEntry(q) PROVE ItsOwn'
  <2>1. CASE UNCHANGED <<entryOf, noEntry, call, stale>>
    <3>1. UNCHANGED <<call, iu, entryOf, noEntry, due, stale>>
      BY <1>7, <2>1 DEF LearnsEntry
    <3> QED
      BY <3>1 DEF ItsOwn, NothingYet, EntryIsItsOwn, FeeIsItsOwn, ShownIsDue, Fresh
  <2>2. CASE /\ StartsAt(Pms, "fee", q.number, "none") /\ OthersMarked(Pms)
             /\ entryOf' = q.number /\ noEntry' = 0
             /\ stale \/ q # [id |-> transID, number |-> iu] => stale'
    <3>1. UNCHANGED <<iu, due>> /\ q.number \in Plain
      BY <1>7 DEF LearnsEntry, Typed, ExitTyped
    <3>2. ~stale' => ~stale /\ q.number = iu
      BY <2>2
    <3>3. NothingYet'
      BY <3>1, <3>2, TheNumbers DEF NothingYet
    <3>4. EntryIsItsOwn'
      BY <2>2, <3>1, <3>2 DEF ItsOwn, EntryIsItsOwn, Fresh
    <3>5. FeeIsItsOwn'
      BY <1>0, <2>2, <3>1, <3>2, StaysMarked DEF ItsOwn, FeeIsItsOwn, Fresh
    <3>6. ShownIsDue'
      BY <2>2 DEF ShownIsDue, StartsAt
    <3> QED
      BY <3>3, <3>4, <3>5, <3>6 DEF ItsOwn
  <2> QED
    BY <1>7, <2>1, <2>2 DEF LearnsEntry
<1>8. CASE Fetches
  <2>1. iu' \in Plain /\ call'[Event].at = "fetch" /\ UNCHANGED <<entryOf, due>>
    BY <1>8 DEF Fetches, MovesTo, Typed, CallsTyped
  <2>2. Fresh' => ~call[Event].wiped /\ ~stale
    BY <1>8 DEF Fetches, StaleIfWiped, Fresh
  <2>3. Fresh' => iu = None
    BY <1>8, <2>1, <2>2 DEF CheckIsSeen, Fetches, Fresh
  <2>4. EntryIsItsOwn'
    BY <2>1, <2>2, <2>3 DEF ItsOwn, NothingYet, EntryIsItsOwn
  <2>5. NothingYet' /\ FeeIsItsOwn'
    BY <2>1, TheNumbers DEF NothingYet, FeeIsItsOwn
  <2>6. ShownIsDue'
    BY <1>0, <1>8, StaysMarked DEF ShownIsDue, Fetches
  <2> QED
    BY <2>4, <2>5, <2>6 DEF ItsOwn
<1>9. CASE WaitForCard
  BY <1>0, <1>9, WaitForCardSays, OwnKept DEF StaleIfWiped
<1>10. CASE CheckCardOK
  <2>1. CASE /\ MovesToSave(Event, "card") /\ OthersMarked(Event)
             /\ StaleIfWiped(Event) /\ due' = None
    <3>1. UNCHANGED <<iu, entryOf, noEntry>> /\ call'[Event].at = "save"
          /\ (Fresh' => Fresh) /\ (~stale' => ~stale)
      BY <1>10, <2>1, CheckCardSays DEF MovesToSave, StaleIfWiped, Fresh
    <3>2. NothingYet' /\ EntryIsItsOwn' /\ FeeIsItsOwn'
      BY <2>1, <3>1 DEF ItsOwn, NothingYet, EntryIsItsOwn, FeeIsItsOwn
    <3>3. ShownIsDue'
      BY <1>0, <2>1, StaysMarked DEF ShownIsDue
    <3> QED
      BY <3>2, <3>3 DEF ItsOwn
  <2>2. CASE /\ call'[Event].at = "idle" /\ OthersKept(Event) /\ UNCHANGED <<due, stale>>
    <3>1. UNCHANGED vehicle
      BY <1>10, <2>2, CheckCardSays DEF vehicle
    <3> QED
      BY <1>0, <2>2, <3>1, OwnKept
  <2> QED
    BY <1>10, <2>1, <2>2, CheckCardSays
<1>11. CASE FetchEntryinfo
  <2>1. Fresh /\ ~call[Event].wiped => iu = call[Event].arg
    BY <1>0, <1>11, FetchSays, WorksForItsNumber DEF Fresh
  <2>2. /\ call[Event].at = "fetch" /\ call'[Event].at = "season" /\ OthersMarked(Event)
        /\ StaleIfWiped(Event) /\ UNCHANGED <<iu, due>>
        /\ entryOf' = entryOf \/ entryOf' = call[Event].arg
    BY <1>11, FetchSays DEF MovesTo
  <2>3. \/ call[Event].wiped
        \/ Fresh => entryOf' \in {None, iu} /\ due' \in {None, iu, Flat}
    BY <2>1, <2>2 DEF ItsOwn, EntryIsItsOwn
  <2> QED
    BY <1>0, <2>2, <2>3, OwnWritten
<1>12. CASE SeasonParking
  <2>1. /\ call[Event].at = "season" /\ call'[Event].at = "save" /\ OthersMarked(Event)
        /\ StaleIfWiped(Event) /\ UNCHANGED <<iu, entryOf>> /\ due' = None
    BY <1>12, SeasonSays DEF MovesToSave
  <2>2. Fresh => entryOf' \in {None, iu} /\ due' \in {None, iu, Flat}
    BY <2>1 DEF ItsOwn, EntryIsItsOwn
  <2> QED
    BY <1>0, <2>1, <2>2, OwnWritten
<1>13. CASE CalculateFee
  <2>1. /\ call[Event].at = "season" /\ OthersMarked(Event) /\ StaleIfWiped(Event)
        /\ UNCHANGED <<iu, entryOf>> /\ due' \in Fees /\ call'[Event].fee = due'
    BY <1>13, CalculateSays
  <2>2. Fresh => entryOf' \in {None, iu} /\ due' \in {None, iu, Flat}
    BY <2>1 DEF ItsOwn, EntryIsItsOwn, Fees
  <2> QED
    BY <1>0, <2>1, <2>2, OwnWritten
<1>14. CASE AskPms
  BY <1>0, <1>14, AskSays, OwnKept
<1>15. CASE ShowFee
  <2>1. /\ call[Event].at = "show" /\ OthersMarked(Event) /\ StaleIfWiped(Event)
        /\ UNCHANGED <<iu, entryOf>> /\ due' = call[Event].fee
        /\ call'[Event].at # "show"
    BY <1>15, ShowSays DEF MovesToSave
  <2>2. Fresh => entryOf' \in {None, iu} /\ due' \in {None, iu, Flat}
    BY <2>1 DEF ItsOwn, EntryIsItsOwn, FeeIsItsOwn
  <2> QED
    BY <1>0, <2>1, <2>2, OwnWritten
<1>16. CASE LpnTimeout
  <2>1. /\ iu = None /\ iu' = NoPlate /\ UNCHANGED <<entryOf, noEntry, due, stale>>
    BY <1>16, NoPlateSays
  <2>2. NothingYet' /\ ~Fresh'
    BY <2>1, TheNumbers DEF ItsOwn, NothingYet, Fresh
  <2> QED
    BY <2>2 DEF ItsOwn, EntryIsItsOwn, FeeIsItsOwn, ShownIsDue
<1>17. CASE ReceivedEntryRecord
  <2>1. /\ call[Pms].at = "fee" /\ OthersMarked(Pms) /\ StaleIfWiped(Pms)
        /\ UNCHANGED <<iu, entryOf>> /\ due' \in Fees /\ call'[Pms].fee = due'
    BY <1>17, PmsFeeSays
  <2>2. Fresh => entryOf' \in {None, iu} /\ due' \in {None, iu, Flat}
    BY <2>1 DEF ItsOwn, EntryIsItsOwn, Fees
  <2> QED
    BY <1>0, <2>1, <2>2, OwnWritten
<1>18. CASE ShowFeeForPms
  <2>1. /\ call[Pms].at = "show" /\ OthersMarked(Pms) /\ StaleIfWiped(Pms)
        /\ UNCHANGED <<iu, entryOf>> /\ due' = call[Pms].fee /\ call'[Pms].at # "show"
    BY <1>18, PmsShowSays DEF MovesToSave
  <2>2. \/ call[Pms].wiped
        \/ Fresh => entryOf' \in {None, iu} /\ due' \in {None, iu, Flat}
    BY <2>1 DEF ItsOwn, EntryIsItsOwn, ShownIsDue
  <2> QED
    BY <1>0, <2>1, <2>2, OwnWritten
<1>19. CASE OtherSteps
  BY <1>9, <1>10, <1>11, <1>12, <1>13, <1>14, <1>15, <1>16, <1>17, <1>18, <1>19
     DEF OtherSteps
<1> QED
  BY <1>1, <1>2, <1>3, <1>4, <1>5, <1>6, <1>7, <1>8, <1>19, StepsAre

-----------------------------------------------------------------------------
(***************************************************************************)
(* A round asks for one payment.  Once an order was placed under the id,   *)
(* or the PMS was asked, tExit is emptied only when a new id is about to   *)
(* come or the loop is empty; a call that is going to ask finds nothing    *)
(* asked under the id; and the PMS strand and the event thread never both  *)
(* write the amount of one vehicle undisturbed.                            *)
(***************************************************************************)
Ordered(id) == \E i \in 1..Len(orders) : orders[i].id = id /\ ~orders[i].disturbed
Asked(id) == \E q \in pmsAsked : q.id = id
Away ==
  \/ call[Event].at \in {"come", "clear", "detect"}
  \/ ~loopApresent \/ call[Timer].at = "detect"

EventPays == call[Event].at \in {"fetch", "season", "show"}
PmsPays == call[Pms].at \in {"fee", "show"}

UsedIdGoesAway ==
  iu = None /\ (Ordered(transID) \/ (Asked(transID) /\ ~stale)) => Away

AsksOnce ==
  /\ EventPays /\ Fresh
       => /\ ~Ordered(transID) /\ ~Asked(transID)
          /\ PmsPays => call[Pms].wiped
          /\ call[Event].at \in {"fetch", "season"} => due = None
  /\ Fresh /\ call[Pms].at = "fee" /\ ~call[Pms].wiped => due = None
  /\ \A q \in pmsAsked : q = [id |-> transID, number |-> iu] /\ Fresh
       => due = None /\ (PmsPays => call[Pms].wiped)

LEMMA AwayStays ==
  ASSUME NEW t \in Threads, OthersKept(t) \/ OthersMarked(t),
         call[t].at \notin {"come", "clear", "detect"}, loopApresent' = loopApresent, Away
  PROVE  Away'
  BY OthersStay, TheThreads DEF Away

LEMMA UsedIdKept ==
  ASSUME UsedIdGoesAway, UNCHANGED <<transID, orders, iu>>, pmsAsked' \subseteq pmsAsked,
         stale => stale', Away => Away'
  PROVE  UsedIdGoesAway'
  BY DEF UsedIdGoesAway, Ordered, Asked

\* An order that is placed undisturbed is of the call that works for its number.
LEMMA NewlyOrdered ==
  ASSUME Typed, NEW amount, Requests(amount), NEW id, Ordered(id)'
  PROVE  Ordered(id) \/ (id = transID /\ ~call[Event].wiped /\ ~stale)
<1>1. /\ Len(orders) \in Nat /\ Len(orders') = Len(orders) + 1
      /\ \A i \in 1..Len(orders) : orders'[i] = orders[i]
      /\ orders'[Len(orders) + 1].id = transID
      /\ call[Event].wiped \/ stale => orders'[Len(orders) + 1].disturbed
  BY DEF Requests, Typed, BooksTyped
<1>2. PICK i \in 1..Len(orders') : orders'[i].id = id /\ ~orders'[i].disturbed
  BY DEF Ordered
<1>3. CASE i \in 1..Len(orders)
  BY <1>1, <1>2, <1>3 DEF Ordered
<1>4. CASE i = Len(orders) + 1
  BY <1>1, <1>2, <1>4
<1> QED
  BY <1>1, <1>3, <1>4

LEMMA NextKeepsUsedId ==
  ASSUME Typed, CallHasItsNumber, Numbered, NothingYet, UsedIdGoesAway, [Next]_vars
  PROVE  UsedIdGoesAway'
<1>0. /\ Event \in Threads /\ Timer \in Threads /\ Pms \in Threads
      /\ Event # Timer /\ Event # Pms /\ Timer # Pms
  BY TheThreads
<1>1. CASE Rests
  <2>1. /\ UNCHANGED <<call, transID, orders, iu, pmsAsked, stale>>
        /\ loopApresent' = loopApresent \/ loopApresent' = FALSE
    BY <1>1 DEF Rests, about, vehicle
  <2>2. Away => Away'
    BY <2>1 DEF Away
  <2> QED
    BY <2>1, <2>2, UsedIdKept
<1>2. ASSUME NEW t \in Threads, Moves(t) PROVE UsedIdGoesAway'
  <2>1. UNCHANGED <<transID, orders, iu, pmsAsked, stale>> /\ OthersKept(t)
    BY <1>2 DEF Moves, about, vehicle
  <2>2. Away => Away'
    <3>1. CASE t = Event
      <4>1. call'[Timer].at = call[Timer].at
        BY <1>0, <2>1, <3>1 DEF OthersKept
      <4> QED
        BY <1>2, <3>1, <4>1 DEF Moves, Away
    <3>2. CASE t # Event
      <4>1. call'[Event].at = call[Event].at /\ loopApresent' = loopApresent
        BY <1>0, <1>2, <2>1, <3>2 DEF OthersKept, Moves
      <4>2. call[Timer].at = "detect" => call'[Timer].at = "detect"
        BY <1>0, <1>2, <2>1 DEF OthersKept, Moves
      <4> QED
        BY <4>1, <4>2 DEF Away
    <3> QED
      BY <3>1, <3>2
  <2> QED
    BY <2>1, <2>2, UsedIdKept
<1>3. ASSUME NEW t \in Threads, Clears(t) PROVE UsedIdGoesAway'
  <2>1. Away'
    BY <1>3, TheThreads DEF Clears, Away
  <2> QED
    BY <2>1 DEF UsedIdGoesAway
<1>4. ASSUME NEW t \in Threads, SaveExit(t) PROVE UsedIdGoesAway'
  <2>1. /\ UNCHANGED <<transID, orders, iu, pmsAsked, stale, loopApresent>>
        /\ OthersKept(t) /\ call[t].at = "save"
    BY <1>4, SaveSays DEF vehicle, ids, loop
  <2> QED
    BY <2>1, AwayStays, UsedIdKept
<1>5. ASSUME NEW t \in Threads, SendTransID(t) PROVE UsedIdGoesAway'
  <2>1. /\ transID' = round + 1 /\ round \in Nat /\ UNCHANGED <<orders, pmsAsked>>
    BY <1>5, SendSays DEF books
  <2>2. ~Ordered(transID)'
    <3>1. \A i \in 1..Len(orders) : orders[i].id # round + 1
      <4>1. ASSUME NEW i \in 1..Len(orders) PROVE orders[i].id # round + 1
        <5>1. orders[i] \in Orders /\ orders[i].id <= round
          BY DEF Typed, BooksTyped, Numbered, IdsAreGivenOut
        <5> QED
          BY <2>1, <5>1 DEF Orders
      <4> QED
        BY <4>1
    <3> QED
      BY <2>1, <3>1 DEF Ordered
  <2>3. ~Asked(transID)'
    <3>1. \A q \in pmsAsked : q.id \in Nat /\ q.id <= round
      BY DEF Typed, ExitTyped, Numbered, IdsAreGivenOut
    <3> QED
      BY <2>1, <3>1 DEF Asked
  <2> QED
    BY <2>2, <2>3 DEF UsedIdGoesAway
<1>6. ASSUME NEW r \in 0..MaxRounds, NEW p \in Plain, Checks(r, p) PROVE UsedIdGoesAway'
  <2>1. /\ UNCHANGED <<transID, orders, iu, pmsAsked, stale, loopApresent>>
        /\ OthersKept(Event) /\ call[Event].at = "idle"
    BY <1>6 DEF Checks, about, vehicle
  <2> QED
    BY <1>0, <2>1, AwayStays, UsedIdKept
<1>7. ASSUME NEW q \in pmsAsked, LearnsEntry(q) PROVE UsedIdGoesAway'
  <2>1. /\ UNCHANGED <<transID, orders, iu, loopApresent>> /\ (stale => stale')
        /\ pmsAsked' \subseteq pmsAsked /\ call[Pms].at = "idle"
        /\ call' = call \/ OthersMarked(Pms)
    BY <1>7 DEF LearnsEntry
  <2>2. Away => Away'
    <3>1. CASE call' = call
      BY <2>1, <3>1 DEF Away
    <3> QED
      BY <1>0, <2>1, <3>1, AwayStays
  <2> QED
    BY <2>1, <2>2, UsedIdKept
<1>8. CASE Fetches
  <2>1. iu' # None
    BY <1>8, TheNumbers DEF Fetches, Typed, CallsTyped
  <2> QED
    BY <2>1 DEF UsedIdGoesAway
<1>9. CASE WaitForCard
  <2>1. /\ UNCHANGED <<transID, orders, iu, pmsAsked, loopApresent>> /\ (stale => stale')
        /\ OthersMarked(Event) /\ call[Event].at = "check"
    BY <1>9, WaitForCardSays DEF vehicle, ids, loop, books, StaleIfWiped
  <2> QED
    BY <1>0, <2>1, AwayStays, UsedIdKept
<1>10. CASE CheckCardOK
  <2>1. /\ UNCHANGED <<transID, iu, pmsAsked, loopApresent>> /\ (stale => stale')
        /\ OthersMarked(Event) \/ OthersKept(Event)
        /\ call[Event].at = "check"
        /\ orders' = orders \/ (due # None /\ Requests(due))
    BY <1>10, CheckCardSays DEF ids, loop, StaleIfWiped
  <2>2. Away => Away'
    BY <1>0, <2>1, AwayStays
  <2>3. CASE orders' = orders
    BY <2>1, <2>2, <2>3, UsedIdKept
  <2>4. CASE due # None /\ Requests(due)
    <3>1. iu = None /\ Ordered(transID)' => Ordered(transID)
      BY <2>1, <2>4, NewlyOrdered DEF NothingYet
    <3>2. Asked(transID)' = Asked(transID)
      BY <2>1 DEF Asked
    <3> QED
      BY <2>1, <2>2, <3>1, <3>2 DEF UsedIdGoesAway
  <2> QED
    BY <2>1, <2>3, <2>4
<1>11. CASE FetchEntryinfo \/ SeasonParking \/ CalculateFee
  <2>1. /\ UNCHANGED <<transID, orders, iu, pmsAsked, loopApresent>> /\ (stale => stale')
        /\ OthersMarked(Event) /\ call[Event].at \in {"fetch", "season"}
    BY <1>11, FetchSays, SeasonSays, CalculateSays DEF ids, loop, books, StaleIfWiped
  <2> QED
    BY <1>0, <2>1, AwayStays, UsedIdKept
<1>12. CASE AskPms
  <2>1. /\ UNCHANGED <<transID, orders, iu, stale, noEntry, loopApresent>>
        /\ OthersKept(Event) /\ call[Event].at = "season" /\ noEntry # -1
    BY <1>12, AskSays DEF ids, loop, vehicle
  <2>2. Away => Away'
    BY <1>0, <2>1, AwayStays
  <2>3. ~(iu = None /\ ~stale)
    BY <2>1 DEF NothingYet
  <2>4. Ordered(transID)' = Ordered(transID)
    BY <2>1 DEF Ordered
  <2> QED
    BY <2>1, <2>2, <2>3, <2>4 DEF UsedIdGoesAway
<1>13. CASE ShowFee
  <2>1. /\ UNCHANGED <<transID, iu, pmsAsked, loopApresent>> /\ (stale => stale')
        /\ OthersMarked(Event) /\ call[Event].at = "show"
        /\ orders' = orders \/ Requests(call[Event].fee)
    BY <1>13, ShowSays DEF ids, loop, StaleIfWiped
  <2>2. Away => Away'
    BY <1>0, <2>1, AwayStays
  <2>3. CASE orders' = orders
    BY <2>1, <2>2, <2>3, UsedIdKept
  <2>4. CASE Requests(call[Event].fee)
    <3>1. iu = None => call[Event].wiped \/ stale
      BY <1>0, <2>1, WorksForItsNumber
    <3>2. iu = None /\ Ordered(transID)' => Ordered(transID)
      BY <2>1, <2>4, <3>1, NewlyOrdered
    <3>3. Asked(transID)' = Asked(transID)
      BY <2>1 DEF Asked
    <3> QED
      BY <2>1, <2>2, <3>2, <3>3 DEF UsedIdGoesAway
  <2> QED
    BY <2>1, <2>3, <2>4
<1>14. CASE LpnTimeout
  BY <1>14, NoPlateSays, TheNumbers DEF UsedIdGoesAway
<1>15. CASE ReceivedEntryRecord \/ ShowFeeForPms
  <2>1. /\ UNCHANGED <<transID, orders, iu, pmsAsked, loopApresent>> /\ (stale => stale')
        /\ OthersMarked(Pms) /\ call[Pms].at \in {"fee", "show"}
    BY <1>15, PmsFeeSays, PmsShowSays DEF ids, loop, books, StaleIfWiped
  <2> QED
    BY <1>0, <2>1, AwayStays, UsedIdKept
<1>16. CASE OtherSteps
  BY <1>9, <1>10, <1>11, <1>12, <1>13, <1>14, <1>15, <1>16 DEF OtherSteps
<1> QED
  BY <1>1, <1>2, <1>3, <1>4, <1>5, <1>6, <1>7, <1>8, <1>16, StepsAre

-----------------------------------------------------------------------------
(* A call that pays and did not begin in this step went on, and is marked. *)
LEMMA PaysStill ==
  ASSUME NEW t \in Threads, OthersKept(t) \/ OthersMarked(t),
         call'[t] = call[t] \/ call'[t].at \notin {"fetch", "season", "fee", "show"},
         NEW u \in Threads, call'[u].at \in {"fetch", "season", "fee", "show"}
  PROVE  call[u].at = call'[u].at /\ (call[u].wiped => call'[u].wiped)
<1>1. CASE u = t
  BY <1>1
<1>2. CASE u # t
  BY <1>2 DEF OthersKept, OthersMarked, Marked
<1> QED
  BY <1>1, <1>2

LEMMA OnceKept ==
  ASSUME AsksOnce, UNCHANGED <<transID, iu, due>>, pmsAsked' \subseteq pmsAsked,
         stale => stale', orders' = orders \/ ~EventPays',
         NEW t \in Threads, OthersKept(t) \/ OthersMarked(t),
         call'[t] = call[t] \/ call'[t].at \notin {"fetch", "season", "fee", "show"}
  PROVE  AsksOnce'
<1>0. Event \in Threads /\ Pms \in Threads
  BY TheThreads
<1>1. (Fresh' => Fresh) /\ (Asked(transID)' => Asked(transID))
  BY DEF Fresh, Asked
<1>2. EventPays' => /\ EventPays /\ call[Event].at = call'[Event].at
                    /\ orders' = orders
  BY <1>0, PaysStill DEF EventPays
<1>3. PmsPays' => /\ PmsPays /\ call[Pms].at = call'[Pms].at
                  /\ call[Pms].wiped => call'[Pms].wiped
  BY <1>0, PaysStill DEF PmsPays
<1>4. orders' = orders => Ordered(transID)' = Ordered(transID)
  BY DEF Ordered
<1>5. (EventPays /\ Fresh
        => /\ ~Ordered(transID) /\ ~Asked(transID)
           /\ PmsPays => call[Pms].wiped
           /\ call[Event].at \in {"fetch", "season"} => due = None)'
  BY <1>1, <1>2, <1>3, <1>4 DEF AsksOnce
<1>6. (Fresh /\ call[Pms].at = "fee" /\ ~call[Pms].wiped => due = None)'
  BY <1>1, <1>3 DEF AsksOnce, PmsPays
<1>7. (\A q \in pmsAsked : q = [id |-> transID, number |-> iu] /\ Fresh
        => due = None /\ (PmsPays => call[Pms].wiped))'
  BY <1>1, <1>3 DEF AsksOnce
<1> QED
  BY <1>5, <1>6, <1>7 DEF AsksOnce

\* The event thread writes what a call of its own pays.
LEMMA OnceWritten ==
  ASSUME AsksOnce, EventPays, OthersMarked(Event), UNCHANGED <<transID, iu, pmsAsked>>,
         stale => stale',
         EventPays' => /\ orders' = orders
                       /\ call'[Event].at = "season" => due' = due /\ call[Event].at = "fetch"
                       /\ call'[Event].at # "fetch"
  PROVE  AsksOnce'
<1>0. Event \in Threads /\ Pms \in Threads /\ Event # Pms
  BY TheThreads
<1>1. PmsPays' => call'[Pms].wiped
  BY <1>0, StaysMarked DEF PmsPays
<1>2. (Fresh' => Fresh) /\ Asked(transID)' = Asked(transID)
  BY DEF Fresh, Asked
<1>3. orders' = orders => Ordered(transID)' = Ordered(transID)
  BY DEF Ordered
<1>4. Fresh => ~Ordered(transID) /\ ~Asked(transID)
  BY DEF AsksOnce
<1>5. Fresh' /\ EventPays' /\ call'[Event].at \in {"fetch", "season"} => due' = None
  BY <1>2 DEF AsksOnce
<1>6. \A q \in pmsAsked' : q = [id |-> transID', number |-> iu'] => Asked(transID)
  BY DEF Asked
<1>7. Fresh' /\ call'[Pms].at = "fee" => call'[Pms].wiped
  BY <1>1 DEF PmsPays
<1> QED
  BY <1>1, <1>2, <1>3, <1>4, <1>5, <1>6, <1>7 DEF AsksOnce

\* The PMS strand writes what its call pays: if nobody disturbed it, no call of
\* the event thread is about to pay too.
LEMMA OnceAnswered ==
  ASSUME AsksOnce, call[Pms].at \in {"fee", "show"}, call'[Pms].at # "fee",
         UNCHANGED <<transID, iu, pmsAsked>>, OthersMarked(Pms), StaleIfWiped(Pms)
  PROVE  AsksOnce'
<1>0. Event \in Threads /\ Pms \in Threads /\ Event # Pms
  BY TheThreads
<1>1. Fresh' => Fresh /\ ~call[Pms].wiped
  BY DEF Fresh, StaleIfWiped
<1>2. Fresh' => ~EventPays
  BY <1>1 DEF AsksOnce, PmsPays
<1>3. Fresh' => ~EventPays'
  BY <1>0, <1>2, StaysMarked DEF EventPays
<1>4. Fresh' => \A q \in pmsAsked : q # [id |-> transID, number |-> iu]
  BY <1>1 DEF AsksOnce, PmsPays
<1> QED
  BY <1>3, <1>4 DEF AsksOnce

LEMMA NextKeepsAsksOnce ==
  ASSUME Typed, NumberIsSeen, CheckIsSeen, NothingYet, UsedIdGoesAway, AsksOnce,
         [Next]_vars
  PROVE  AsksOnce'
<1>0. /\ Event \in Threads /\ Timer \in Threads /\ Pms \in Threads
      /\ Event # Timer /\ Event # Pms /\ Timer # Pms
  BY TheThreads
<1>a. ~Fresh' => AsksOnce'
  BY DEF AsksOnce
<1>1. CASE Rests
  <2>1. UNCHANGED <<call, transID, orders, iu, due, pmsAsked, stale>>
    BY <1>1 DEF Rests, about, vehicle
  <2> QED
    BY <1>0, <2>1, OnceKept DEF OthersKept
<1>2. ASSUME NEW t \in Threads, Moves(t) PROVE AsksOnce'
  <2>1. UNCHANGED <<transID, orders, iu, due, pmsAsked, stale>>
    BY <1>2 DEF Moves, about, vehicle
  <2> QED
    BY <1>2, <2>1, OnceKept DEF Moves
<1>3. ASSUME NEW t \in Threads, Clears(t) PROVE AsksOnce'
  BY <1>a, <1>3, TheNumbers DEF Clears, Fresh
<1>4. ASSUME NEW t \in Threads, SaveExit(t) PROVE AsksOnce'
  <2>1. /\ UNCHANGED <<transID, orders, iu, due, pmsAsked, stale>>
        /\ OthersKept(t) /\ call'[t].at \in {"open", "saved", "failed"}
    BY <1>4, SaveSays DEF vehicle, ids, MovesTo
  <2> QED
    BY <2>1, OnceKept
<1>5. ASSUME NEW t \in Threads, SendTransID(t) PROVE AsksOnce'
  <2>1. UNCHANGED <<iu, stale>> /\ call[t].at = "detect"
    BY <1>5, SendSays DEF vehicle
  <2> QED
    BY <1>a, <2>1 DEF NumberIsSeen, Nobody, Fresh
<1>6. ASSUME NEW r \in 0..MaxRounds, NEW p \in Plain, Checks(r, p) PROVE AsksOnce'
  <2>1. /\ UNCHANGED <<transID, orders, iu, due, pmsAsked, stale>>
        /\ OthersKept(Event) /\ call'[Event].at = "check"
    BY <1>6 DEF Checks, about, vehicle, StartsAt
  <2> QED
    BY <1>0, <2>1, OnceKept
<1>7. ASSUME NEW q \in pmsAsked, LearnsEntry(q) PROVE AsksOnce'
  <2>1. CASE UNCHANGED <<entryOf, noEntry, call, stale>>
    <3>1. UNCHANGED <<call, transID, orders, iu, due, stale>> /\ pmsAsked' \subseteq pmsAsked
      BY <1>7, <2>1 DEF LearnsEntry
    <3> QED
      BY <1>0, <3>1, OnceKept DEF OthersKept
  <2>2. CASE /\ StartsAt(Pms, "fee", q.number, "none") /\ OthersMarked(Pms)
             /\ entryOf' = q.number /\ noEntry' = 0
             /\ stale \/ q # [id |-> transID, number |-> iu] => stale'
    <3> SUFFICES ASSUME Fresh' PROVE AsksOnce'
      BY <1>a
    <3>1. /\ UNCHANGED <<transID, orders, iu, due>> /\ pmsAsked' = pmsAsked \ {q}
          /\ q = [id |-> transID, number |-> iu] /\ Fresh
      BY <1>7, <2>2 DEF LearnsEntry, Fresh
    <3>2. due = None /\ ~EventPays
      BY <3>1 DEF AsksOnce, Asked
    <3>3. ~EventPays'
      BY <1>0, <2>2, <3>2, StaysMarked DEF EventPays
    <3>4. \A p \in pmsAsked' : p # [id |-> transID', number |-> iu']
      BY <3>1
    <3> QED
      BY <3>1, <3>2, <3>3, <3>4 DEF AsksOnce
  <2> QED
    BY <1>7, <2>1, <2>2 DEF LearnsEntry
<1>8. CASE Fetches
  <2> SUFFICES ASSUME Fresh' PROVE AsksOnce'
    BY <1>a
  <2>1. /\ call[Event].at = "check" /\ OthersMarked(Event) /\ iu' = call[Event].arg
        /\ UNCHANGED <<transID, orders, pmsAsked, due>>
        /\ ~stale /\ ~call[Event].wiped /\ call[Event].arg \in Vehicles
    BY <1>8 DEF Fetches, StaleIfWiped, Fresh
  <2>2. iu = None /\ loopApresent /\ Nobody
    BY <2>1 DEF CheckIsSeen
  <2>3. ~Away
    BY <1>0, <2>1, <2>2 DEF Away, Nobody
  <2>4. ~Ordered(transID) /\ ~Asked(transID)
    BY <2>1, <2>2, <2>3 DEF UsedIdGoesAway
  <2>5. ~Ordered(transID)' /\ ~Asked(transID)'
    BY <2>1, <2>4 DEF Ordered, Asked
  <2>6. due' = None
    BY <2>1, <2>2 DEF NothingYet
  <2>7. PmsPays' => call'[Pms].wiped
    BY <1>0, <2>1, StaysMarked DEF PmsPays
  <2> QED
    BY <2>5, <2>6, <2>7 DEF AsksOnce
<1>9. CASE WaitForCard
  <2>1. /\ UNCHANGED <<transID, orders, iu, due, pmsAsked>> /\ (stale => stale')
        /\ OthersMarked(Event) /\ call'[Event] = call[Event]
    BY <1>9, WaitForCardSays DEF vehicle, ids, books, StaleIfWiped
  <2> QED
    BY <1>0, <2>1, OnceKept
<1>10. CASE CheckCardOK
  <2>0. UNCHANGED <<transID, iu, pmsAsked>>
    BY <1>10, CheckCardSays DEF ids
  <2>1. CASE /\ MovesToSave(Event, "card") /\ OthersMarked(Event)
             /\ StaleIfWiped(Event) /\ due' = None
    <3>1. call'[Event].at = "save" /\ (Fresh' => Fresh)
      BY <2>0, <2>1 DEF MovesToSave, StaleIfWiped, Fresh
    <3>2. PmsPays' => call'[Pms].wiped
      BY <1>0, <2>1, StaysMarked DEF PmsPays
    <3> QED
      BY <2>1, <3>1, <3>2 DEF AsksOnce, EventPays
  <2>2. CASE /\ call'[Event].at = "idle" /\ OthersKept(Event) /\ UNCHANGED <<due, stale>>
    <3>1. ~EventPays'
      BY <2>2 DEF EventPays
    <3> QED
      BY <1>0, <2>0, <2>2, <3>1, OnceKept
  <2> QED
    BY <1>10, <2>1, <2>2, CheckCardSays
<1>11. CASE FetchEntryinfo
  <2>1. /\ UNCHANGED <<transID, iu, orders, pmsAsked, due>> /\ (stale => stale')
        /\ OthersMarked(Event) /\ call[Event].at = "fetch" /\ call'[Event].at = "season"
    BY <1>11, FetchSays DEF ids, books, StaleIfWiped, MovesTo
  <2> QED
    BY <2>1, OnceWritten DEF EventPays
<1>12. CASE SeasonParking
  <2>1. /\ UNCHANGED <<transID, iu, orders, pmsAsked>> /\ (stale => stale')
        /\ OthersMarked(Event) /\ call[Event].at = "season" /\ call'[Event].at = "save"
    BY <1>12, SeasonSays DEF ids, books, StaleIfWiped, MovesToSave
  <2> QED
    BY <2>1, OnceWritten DEF EventPays
<1>13. CASE CalculateFee
  <2>1. /\ UNCHANGED <<transID, iu, orders, pmsAsked>> /\ (stale => stale')
        /\ OthersMarked(Event) /\ call[Event].at = "season" /\ call'[Event].at = "show"
    BY <1>13, CalculateSays DEF ids, books, StaleIfWiped
  <2> QED
    BY <2>1, OnceWritten DEF EventPays
<1>14. CASE AskPms
  <2>1. /\ UNCHANGED <<transID, iu, orders, due, stale>> /\ OthersKept(Event)
        /\ call[Event].at = "season" /\ call'[Event].at = "idle"
    BY <1>14, AskSays DEF ids, vehicle
  <2>2. ~EventPays' /\ (Fresh' => Fresh) /\ call'[Pms] = call[Pms]
    BY <1>0, <2>1 DEF EventPays, Fresh, OthersKept
  <2>3. Fresh => due = None /\ (PmsPays => call[Pms].wiped)
    BY <2>1 DEF AsksOnce, EventPays
  <2> QED
    BY <2>1, <2>2, <2>3 DEF AsksOnce, PmsPays
<1>15. CASE ShowFee
  <2>1. /\ UNCHANGED <<transID, iu, pmsAsked>> /\ (stale => stale')
        /\ OthersMarked(Event) /\ call[Event].at = "show"
        /\ call'[Event].at \in {"idle", "save"}
    BY <1>15, ShowSays DEF ids, StaleIfWiped, MovesToSave
  <2>2. ~EventPays' /\ EventPays
    BY <2>1 DEF EventPays
  <2> QED
    BY <2>1, <2>2, OnceWritten
<1>16. CASE LpnTimeout
  BY <1>a, <1>16, NoPlateSays, TheNumbers DEF Fresh
<1>17. CASE ReceivedEntryRecord
  BY <1>17, PmsFeeSays, OnceAnswered DEF ids, books
<1>18. CASE ShowFeeForPms
  BY <1>18, PmsShowSays, OnceAnswered DEF ids, books, MovesToSave
<1>19. CASE OtherSteps
  BY <1>9, <1>10, <1>11, <1>12, <1>13, <1>14, <1>15, <1>16, <1>17, <1>18, <1>19
     DEF OtherSteps
<1> QED
  BY <1>1, <1>2, <1>3, <1>4, <1>5, <1>6, <1>7, <1>8, <1>19, StepsAre

-----------------------------------------------------------------------------
(***************************************************************************)
(* As long as a round has an order and no row, tExit holds the amount of   *)
(* an order of the round, unless a card is about to close it.              *)
(***************************************************************************)
NoRow(id) == \A i \in 1..Len(records) : records[i].round # id
OrderOf(id, amount) ==
  \E i \in 1..Len(orders) : orders[i].id = id /\ orders[i].amount = amount
CardCloses == call[Event].at = "save" /\ call[Event].kind = "card"

OrderIsDue ==
  Fresh /\ Ordered(transID) /\ NoRow(transID)
    => CardCloses \/ (due \in {iu, Flat} /\ OrderOf(transID, due))

\* The rows stay, and new ones are written by SaveExit.
LEMMA RowsStay ==
  ASSUME Typed, [Next]_vars
  PROVE  /\ Len(records) \in Nat
         /\ \/ records' = records
            \/ \E t \in Threads : /\ SaveExit(t) /\ Writes(t)
                                  /\ iu # None /\ call[t].at = "save"
                                  /\ UNCHANGED <<orders, transID, seen>>
         /\ \A id : NoRow(id)' => NoRow(id)
<1>1. Len(records) \in Nat
  BY DEF Typed, BooksTyped
<1>2. \/ records' = records
      \/ \E t \in Threads : /\ SaveExit(t) /\ Writes(t)
                            /\ iu # None /\ call[t].at = "save"
                            /\ UNCHANGED <<orders, transID, seen>>
  <2>1. CASE Rests
    BY <2>1 DEF Rests, about
  <2>2. ASSUME NEW t \in Threads, Moves(t) \/ Clears(t) PROVE records' = records
    BY <2>2 DEF Moves, Clears, about
  <2>3. ASSUME NEW t \in Threads, SaveExit(t)
        PROVE  \/ records' = records
               \/ /\ Writes(t) /\ iu # None /\ call[t].at = "save"
                  /\ UNCHANGED <<orders, transID, seen>>
    BY <2>3, SaveSays DEF ids
  <2>4. ASSUME NEW t \in Threads, SendTransID(t) PROVE records' = records
    BY <2>4, SendSays DEF books
  <2>5. ASSUME NEW r \in 0..MaxRounds, NEW p \in Plain, Checks(r, p)
        PROVE  records' = records
    BY <2>5 DEF Checks, about
  <2>6. ASSUME NEW q \in pmsAsked, LearnsEntry(q) PROVE records' = records
    BY <2>6 DEF LearnsEntry
  <2>7. CASE Fetches
    BY <2>7 DEF Fetches
  <2>8. CASE OtherSteps
    BY <2>8, WaitForCardSays, CheckCardSays, FetchSays, SeasonSays, CalculateSays,
       AskSays, ShowSays, NoPlateSays, PmsFeeSays, PmsShowSays DEF OtherSteps, books
  <2> QED
    BY <2>1, <2>2, <2>3, <2>4, <2>5, <2>6, <2>7, <2>8, StepsAre
<1>3. Len(records') \in Nat /\ Len(records) <= Len(records')
      /\ \A i \in 1..Len(records) : records'[i] = records[i]
  BY <1>1, <1>2 DEF Writes
<1>4. ASSUME NEW id, NoRow(id)' PROVE NoRow(id)
  BY <1>1, <1>3, <1>4 DEF NoRow
<1> QED
  BY <1>1, <1>2, <1>4

LEMMA DueKept ==
  ASSUME OrderIsDue, \A id : NoRow(id)' => NoRow(id), UNCHANGED <<transID, orders>>,
         Fresh' => Fresh /\ iu' = iu /\ due' = due,
         CardCloses => CardCloses'
  PROVE  OrderIsDue'
<1>1. /\ Ordered(transID)' => Ordered(transID)
      /\ NoRow(transID)' => NoRow(transID)
  BY DEF Ordered
<1>2. ASSUME NEW amount, OrderOf(transID, amount) PROVE OrderOf(transID, amount)'
  BY <1>2 DEF OrderOf
<1> QED
  BY <1>1, <1>2 DEF OrderIsDue, OrderOf

\* What is asked for is due.
LEMMA DueOrdered ==
  ASSUME Typed, NEW amount, Requests(amount), amount \in {iu', Flat}, due' = amount,
         transID' = transID
  PROVE  OrderIsDue'
<1>1. /\ Len(orders) \in Nat /\ Len(orders') = Len(orders) + 1
      /\ orders'[Len(orders) + 1].id = transID
      /\ orders'[Len(orders) + 1].amount = amount
  BY DEF Requests, Typed, BooksTyped
<1>2. Len(orders) + 1 \in 1..Len(orders')
  BY <1>1
<1>3. OrderOf(transID, due)'
  BY <1>1, <1>2 DEF OrderOf
<1> QED
  BY <1>3 DEF OrderIsDue

LEMMA NextKeepsDue ==
  ASSUME Typed, CallHasItsNumber, NumberIsSeen, ItsOwn, AsksOnce, AsksOnce', OrderIsDue,
         [Next]_vars
  PROVE  OrderIsDue'
<1>0. /\ Event \in Threads /\ Timer \in Threads /\ Pms \in Threads
      /\ Event # Timer /\ Event # Pms /\ Timer # Pms
  BY TheThreads
<1>a. ~Fresh' \/ ~Ordered(transID)' => OrderIsDue'
  BY DEF OrderIsDue
<1>b. \A id : NoRow(id)' => NoRow(id)
  BY RowsStay
<1>c. EventPays' => OrderIsDue'
  BY <1>a DEF AsksOnce
<1>d. EventPays /\ UNCHANGED <<transID, orders>> /\ (Fresh' => Fresh) => OrderIsDue'
  <2>1. UNCHANGED <<transID, orders>> => Ordered(transID)' = Ordered(transID)
    BY DEF Ordered
  <2> QED
    BY <1>a, <2>1 DEF AsksOnce
<1>1. CASE Rests
  <2>1. UNCHANGED <<call, transID, orders, iu, due, stale>>
    BY <1>1 DEF Rests, about, vehicle
  <2> QED
    BY <1>b, <2>1, DueKept DEF Fresh, CardCloses
<1>2. ASSUME NEW t \in Threads, Moves(t) PROVE OrderIsDue'
  <2>1. /\ UNCHANGED <<transID, orders, iu, due, stale>> /\ OthersKept(t)
        /\ call[t].at # "save"
    BY <1>2 DEF Moves, about, vehicle
  <2>2. CardCloses => CardCloses'
    BY <2>1, EventStays DEF CardCloses
  <2> QED
    BY <1>b, <2>1, <2>2, DueKept DEF Fresh
<1>3. ASSUME NEW t \in Threads, Clears(t) PROVE OrderIsDue'
  BY <1>a, <1>3, TheNumbers DEF Clears, Fresh
<1>4. ASSUME NEW t \in Threads, SaveExit(t) PROVE OrderIsDue'
  <2>1. /\ UNCHANGED <<transID, orders, iu, due, stale>> /\ OthersKept(t)
    BY <1>4, SaveSays DEF vehicle, ids
  <2>2. CASE t = Event
    <3>1. CASE iu = None
      BY <1>a, <2>1, <3>1, TheNumbers DEF Fresh
    <3>2. CASE Writes(Event)
      <4>1. Len(records) \in Nat
        BY DEF Typed, BooksTyped
      <4>2. ~NoRow(transID)'
        BY <2>1, <3>2, <4>1 DEF Writes, NoRow
      <4> QED
        BY <4>2 DEF OrderIsDue
    <3> QED
      BY <1>4, <2>2, <3>1, <3>2, SaveSays
  <2>3. CASE t # Event
    <3>1. CardCloses => CardCloses'
      BY <2>1, <2>3, EventStays DEF CardCloses
    <3> QED
      BY <1>b, <2>1, <3>1, DueKept DEF Fresh
  <2> QED
    BY <2>2, <2>3
<1>5. ASSUME NEW t \in Threads, SendTransID(t) PROVE OrderIsDue'
  <2>1. UNCHANGED <<iu, stale>> /\ call[t].at = "detect"
    BY <1>5, SendSays DEF vehicle
  <2> QED
    BY <1>a, <2>1 DEF NumberIsSeen, Nobody, Fresh
<1>6. ASSUME NEW r \in 0..MaxRounds, NEW p \in Plain, Checks(r, p) PROVE OrderIsDue'
  <2>1. UNCHANGED <<transID, orders, iu, due, stale>> /\ call[Event].at = "idle"
    BY <1>6 DEF Checks, about, vehicle
  <2> QED
    BY <1>b, <2>1, DueKept DEF Fresh, CardCloses
<1>7. ASSUME NEW q \in pmsAsked, LearnsEntry(q) PROVE OrderIsDue'
  <2>1. /\ UNCHANGED <<transID, orders, iu, due>> /\ (stale => stale')
        /\ call' = call \/ OthersMarked(Pms)
    BY <1>7 DEF LearnsEntry
  <2>2. CardCloses => CardCloses'
    BY <1>0, <2>1, EventStays DEF CardCloses
  <2> QED
    BY <1>b, <2>1, <2>2, DueKept DEF Fresh
<1>8. CASE Fetches
  <2>1. EventPays'
    BY <1>8 DEF Fetches, MovesTo, EventPays
  <2> QED
    BY <1>c, <2>1
<1>9. CASE WaitForCard
  <2>1. UNCHANGED <<transID, orders, iu, due>> /\ (stale => stale')
        /\ call'[Event] = call[Event]
    BY <1>9, WaitForCardSays DEF vehicle, ids, books, StaleIfWiped
  <2> QED
    BY <1>b, <2>1, DueKept DEF Fresh, CardCloses
<1>10. CASE CheckCardOK
  <2>0. UNCHANGED <<transID, iu>> /\ call[Event].at = "check"
    BY <1>10, CheckCardSays DEF ids
  <2>1. CASE MovesToSave(Event, "card")
    BY <2>1 DEF MovesToSave, OrderIsDue, CardCloses
  <2>2. CASE UNCHANGED <<due, stale, orders, owed>>
    BY <1>b, <2>0, <2>2, DueKept DEF Fresh, CardCloses
  <2>3. CASE due # None /\ Requests(due) /\ UNCHANGED <<due, stale>>
    <3> SUFFICES ASSUME Fresh' PROVE OrderIsDue'
      BY <1>a
    <3>1. Fresh
      BY <2>0, <2>3 DEF Fresh
    <3>2. due \in {iu, Flat}
      BY <2>3, <3>1 DEF ItsOwn, EntryIsItsOwn
    <3> QED
      BY <2>0, <2>3, <3>2, DueOrdered
  <2> QED
    BY <1>10, <2>1, <2>2, <2>3, CheckCardSays
<1>11. CASE FetchEntryinfo
  <2>1. EventPays'
    BY <1>11, FetchSays DEF MovesTo, EventPays
  <2> QED
    BY <1>c, <2>1
<1>12. CASE SeasonParking
  <2>1. /\ UNCHANGED <<transID, orders, iu>> /\ (stale => stale')
        /\ call[Event].at = "season"
    BY <1>12, SeasonSays DEF ids, books, StaleIfWiped
  <2> QED
    BY <1>d, <2>1 DEF EventPays, Fresh
<1>13. CASE CalculateFee
  <2>1. EventPays'
    BY <1>13, CalculateSays DEF EventPays
  <2> QED
    BY <1>c, <2>1
<1>14. CASE AskPms
  <2>1. /\ UNCHANGED <<transID, orders, iu, due, stale>> /\ call[Event].at = "season"
    BY <1>14, AskSays DEF ids, vehicle
  <2> QED
    BY <1>d, <2>1 DEF EventPays, Fresh
<1>15. CASE ShowFee
  <2>1. /\ UNCHANGED <<transID, iu>> /\ (stale => stale') /\ due' = call[Event].fee
        /\ call[Event].at = "show"
    BY <1>15, ShowSays DEF ids, StaleIfWiped
  <2>2. CASE orders' = orders
    BY <1>d, <2>1, <2>2 DEF EventPays, Fresh
  <2>3. CASE call[Event].fee # None /\ Requests(call[Event].fee)
    <3> SUFFICES ASSUME Fresh' PROVE OrderIsDue'
      BY <1>a
    <3>1. Fresh
      BY <2>1 DEF Fresh
    <3>2. call[Event].fee \in {iu, Flat}
      BY <2>1, <2>3, <3>1 DEF ItsOwn, FeeIsItsOwn
    <3> QED
      BY <2>1, <2>3, <3>2, DueOrdered
  <2> QED
    BY <1>15, <2>2, <2>3, ShowSays
<1>16. CASE LpnTimeout
  BY <1>a, <1>16, NoPlateSays, TheNumbers DEF Fresh
<1>17. CASE ReceivedEntryRecord
  <2> SUFFICES ASSUME Fresh' PROVE OrderIsDue'
    BY <1>a
  <2>1. /\ UNCHANGED <<transID, orders, iu>> /\ OthersMarked(Pms)
        /\ ~stale /\ ~call[Pms].wiped /\ call[Pms].at = "fee"
    BY <1>17, PmsFeeSays DEF ids, books, StaleIfWiped, Fresh
  <2>2. Fresh /\ due = None
    BY <2>1 DEF Fresh, AsksOnce
  <2>3. due \notin {iu, Flat}
    BY <2>2, TheNumbers DEF Fresh
  <2>4. Ordered(transID)' => Ordered(transID)
    BY <2>1 DEF Ordered
  <2>5. NoRow(transID)' => NoRow(transID)
    BY <1>b, <2>1
  <2>6. CardCloses => CardCloses'
    BY <1>0, <2>1, EventStays DEF CardCloses
  <2> QED
    BY <2>2, <2>3, <2>4, <2>5, <2>6 DEF OrderIsDue
<1>18. CASE ShowFeeForPms
  <2>1. /\ UNCHANGED <<transID, orders, iu>> /\ OthersMarked(Pms) /\ StaleIfWiped(Pms)
        /\ call[Pms].at = "show" /\ due' = call[Pms].fee
    BY <1>18, PmsShowSays DEF ids, books
  <2>2. Fresh' => Fresh /\ due' = due
    BY <2>1 DEF ItsOwn, ShownIsDue, Fresh, StaleIfWiped
  <2>3. CardCloses => CardCloses'
    BY <1>0, <2>1, EventStays DEF CardCloses
  <2> QED
    BY <1>b, <2>1, <2>2, <2>3, DueKept
<1>19. CASE OtherSteps
  BY <1>9, <1>10, <1>11, <1>12, <1>13, <1>14, <1>15, <1>16, <1>17, <1>18, <1>19
     DEF OtherSteps
<1> QED
  BY <1>1, <1>2, <1>3, <1>4, <1>5, <1>6, <1>7, <1>8, <1>19, StepsAre

-----------------------------------------------------------------------------
(***************************************************************************)
(* The rows of payments.  A row that PaymentIsOfItsVehicle speaks of is    *)
(* right, and stays so: rows and orders are never changed, and what the    *)
(* camera saw in a round is set when its id is given out.                  *)
(***************************************************************************)
PaysItsRound(i) ==
  /\ records[i].kind = "paid" /\ records[i].order = records[i].round
  /\ records[i].number \in Vehicles /\ ~Disturbed(records[i])
  /\ \A j \in 1..(i - 1) : records[j].round # records[i].round

IsRight(rec) ==
  /\ rec.round \in Rounds /\ rec.number = seen[rec.round]
  /\ rec.amount \in {rec.number, Flat}
  /\ OrderOf(rec.order, rec.amount)

PaymentsAreRight == \A i \in 1..Len(records) : PaysItsRound(i) => IsRight(records[i])

\* Nothing that was written or ordered changes any more.
LEMMA BooksGrow ==
  ASSUME Typed, Numbered, [Next]_vars
  PROVE  /\ \A id, amount : OrderOf(id, amount) => OrderOf(id, amount)'
         /\ \A rec : Disturbed(rec) => Disturbed(rec)'
         /\ \A r \in Rounds : r <= round => seen'[r] = seen[r]
<1>1. BookStep
  BY NextDoesBooks
<1>2. /\ Len(orders) \in Nat /\ Len(orders') \in Nat /\ Len(orders) <= Len(orders')
      /\ \A i \in 1..Len(orders) : orders'[i] = orders[i]
  BY <1>1, OrdersStay DEF BookStep
<1>3. DOMAIN orders = 1..Len(orders) /\ DOMAIN orders' = 1..Len(orders')
  BY NextKeepsTyped DEF Typed, BooksTyped
<1>4. ASSUME NEW id, NEW amount, OrderOf(id, amount) PROVE OrderOf(id, amount)'
  BY <1>2, <1>4 DEF OrderOf
<1>5. ASSUME NEW rec, Disturbed(rec) PROVE Disturbed(rec)'
  <2>1. CASE rec.disturbed
    BY <2>1 DEF Disturbed
  <2>2. CASE \E i \in DOMAIN orders : orders[i].id = rec.order /\ orders[i].disturbed
    <3>1. PICK i \in 1..Len(orders) : orders[i].id = rec.order /\ orders[i].disturbed
      BY <1>3, <2>2
    <3>2. i \in DOMAIN orders' /\ orders'[i] = orders[i]
      BY <1>2, <1>3
    <3> QED
      BY <3>1, <3>2 DEF Disturbed
  <2> QED
    BY <1>5, <2>1, <2>2 DEF Disturbed
<1>6. ASSUME NEW r \in Rounds, r <= round PROVE seen'[r] = seen[r]
  <2>1. CASE UNCHANGED seen
    BY <2>1
  <2>2. ASSUME NEW t \in Threads, SendTransID(t) PROVE seen'[r] = seen[r]
    <3>1. seen' = [seen EXCEPT ![round + 1] = onA]
      BY <2>2 DEF SendTransID
    <3>2. r # round + 1
      BY <1>6 DEF Typed, LaneTyped, Rounds
    <3> QED
      BY <3>1, <3>2 DEF Typed, LaneTyped
  <2> QED
    BY <1>1, <2>1, <2>2 DEF BookStep, IdStep
<1> QED
  BY <1>4, <1>5, <1>6

\* The row of an undisturbed payment of the current round.
LEMMA NewRowIsRight ==
  ASSUME Typed, Numbered, NumberIsSeen, OrderIsDue, NEW t \in Threads, Writes(t),
         call[t].at = "save", UNCHANGED <<orders, transID, seen>>,
         NEW rec, rec = records'[Len(records) + 1],
         rec.kind = "paid", rec.order = rec.round, rec.number \in Vehicles,
         ~Disturbed(rec)', NoRow(rec.round)
  PROVE  IsRight(rec)'
<1>1. /\ rec.round = transID /\ rec.number = iu
      /\ rec.kind = call[t].kind /\ rec.amount = due
      /\ rec.order = call[t].order
      /\ call[t].wiped \/ stale => rec.disturbed
  BY DEF Writes
<1>2. ~rec.disturbed /\ \A i \in DOMAIN orders : orders[i].id = rec.order => ~orders[i].disturbed
  BY DEF Disturbed
<1>3. Fresh
  BY <1>1, <1>2 DEF Fresh
<1>4. t = Event
  BY <1>1, TheThreads DEF Typed, CallsTyped
<1>5. Placed(transID)
  BY <1>1, <1>4 DEF Numbered, ResultsAreOfOrders, Pays
<1>6. Ordered(transID)
  <2>1. PICK i \in 1..Len(orders) : orders[i].id = transID
    BY <1>5 DEF Placed
  <2>2. i \in DOMAIN orders
    BY DEF Typed, BooksTyped
  <2> QED
    BY <1>1, <1>2, <2>1, <2>2 DEF Ordered
<1>7. ~CardCloses
  BY <1>1, <1>4 DEF CardCloses
<1>8. due \in {iu, Flat} /\ OrderOf(transID, due)
  BY <1>1, <1>3, <1>6, <1>7 DEF OrderIsDue
<1>9. transID \in Rounds /\ iu = seen[transID]
  BY <1>3 DEF NumberIsSeen
<1> QED
  BY <1>1, <1>8, <1>9 DEF IsRight, OrderOf

LEMMA NextKeepsPayments ==
  ASSUME Typed, Numbered, NumberIsSeen, OrderIsDue, PaymentsAreRight, [Next]_vars
  PROVE  PaymentsAreRight'
<1>1. /\ Len(records) \in Nat
      /\ \/ records' = records
         \/ \E t \in Threads : /\ Writes(t) /\ call[t].at = "save"
                               /\ UNCHANGED <<orders, transID, seen>>
  BY RowsStay
<1>2. /\ \A i \in 1..Len(records) : records'[i] = records[i]
      /\ \/ Len(records') = Len(records)
         \/ /\ Len(records') = Len(records) + 1
            /\ \E t \in Threads : /\ Writes(t) /\ call[t].at = "save"
                                  /\ UNCHANGED <<orders, transID, seen>>
  BY <1>1 DEF Writes
<1> SUFFICES ASSUME NEW i \in 1..Len(records'), PaysItsRound(i)'
             PROVE  IsRight(records[i])'
  BY DEF PaymentsAreRight
<1>3. PICK rec : rec = records'[i]
  OBVIOUS
<1>4. /\ rec.kind = "paid" /\ rec.order = rec.round /\ rec.number \in Vehicles
      /\ ~Disturbed(rec)' /\ \A j \in 1..(i - 1) : records'[j].round # rec.round
  BY <1>3 DEF PaysItsRound, Disturbed
<1>5. CASE i \in 1..Len(records)
  <2>1. rec = records[i] /\ ~Disturbed(rec)
    BY <1>2, <1>3, <1>4, <1>5, BooksGrow
  <2>2. PaysItsRound(i)
    <3>1. \A j \in 1..(i - 1) : j \in 1..Len(records)
      BY <1>1, <1>5
    <3> QED
      BY <1>2, <1>4, <2>1, <3>1 DEF PaysItsRound
  <2>3. /\ rec.round \in Rounds /\ rec.number = seen[rec.round]
        /\ rec.amount \in {rec.number, Flat} /\ OrderOf(rec.order, rec.amount)
    BY <1>5, <2>1, <2>2 DEF PaymentsAreRight, IsRight
  <2>4. rec.round <= round
    BY <1>5, <2>1 DEF Numbered, IdsAreGivenOut
  <2>5. OrderOf(rec.order, rec.amount)' /\ seen'[rec.round] = seen[rec.round]
    BY <2>3, <2>4, BooksGrow
  <2> QED
    BY <1>3, <2>3, <2>5 DEF IsRight, OrderOf
<1>6. CASE i \notin 1..Len(records)
  <2>1. i = Len(records) + 1
    BY <1>1, <1>2, <1>6
  <2>2. PICK t \in Threads : /\ Writes(t) /\ call[t].at = "save"
                             /\ UNCHANGED <<orders, transID, seen>>
    BY <1>2, <1>6
  <2>3. NoRow(rec.round)
    BY <1>1, <1>2, <1>4, <2>1 DEF NoRow
  <2>4. IsRight(rec)'
    BY <1>3, <1>4, <2>1, <2>2, <2>3, NewRowIsRight
  <2> QED
    BY <1>3, <2>4 DEF IsRight, OrderOf
<1> QED
  BY <1>5, <1>6

-----------------------------------------------------------------------------
Settled ==
  /\ CallHasItsNumber /\ Numbered /\ NumberIsSeen /\ CheckIsSeen /\ ItsOwn
  /\ UsedIdGoesAway /\ AsksOnce /\ OrderIsDue /\ PaymentsAreRight

LEMMA InitSettled == Init => Settled
<1> SUFFICES ASSUME Init PROVE Settled
  OBVIOUS
<1>0. /\ Event \in Threads /\ Pms \in Threads /\ \A t \in Threads : call[t] = Idle
      /\ Idle.at = "idle"
  BY IdleIsACall, TheThreads DEF Init
<1>1. /\ \A t \in Threads : call[t].at = "idle"
      /\ orders = <<>> /\ records = <<>> /\ queue = <<>> /\ pmsAsked = {} /\ Len(orders) = 0
      /\ Len(records) = 0 /\ Len(queue) = 0
      /\ transID = 0 /\ round = 0 /\ iu = None /\ due = None /\ entryOf = None /\ noEntry = -1
      /\ \A r \in Rounds : asked[r] = 0
      /\ \A id \in 0..MaxRounds : owed[id] = 0
  BY <1>0 DEF Init
<1>2. ~Fresh
  BY <1>1, TheNumbers DEF Fresh
<1>3. CallHasItsNumber
  BY <1>1 DEF CallHasItsNumber, HasNumber
<1>4. Numbered
  BY <1>0, <1>1 DEF Numbered, IdsAreGivenOut, AnswersAreOfTheirRounds, ResultsAreOfOrders,
     Waiting, Pays
<1>5. NumberIsSeen /\ CheckIsSeen
  BY <1>0, <1>1, <1>2 DEF NumberIsSeen, CheckIsSeen
<1>6. ItsOwn
  BY <1>1, <1>2 DEF ItsOwn, NothingYet, EntryIsItsOwn, FeeIsItsOwn, ShownIsDue
<1>7. UsedIdGoesAway
  BY <1>1 DEF UsedIdGoesAway, Ordered, Asked
<1>8. AsksOnce /\ OrderIsDue /\ PaymentsAreRight
  BY <1>1, <1>2 DEF AsksOnce, OrderIsDue, PaymentsAreRight
<1> QED
  BY <1>3, <1>4, <1>5, <1>6, <1>7, <1>8 DEF Settled

LEMMA NextKeepsSettled ==
  ASSUME Typed, Settled, [Next]_vars
  PROVE  Settled'
<1> USE DEF Settled
<1>1. CallHasItsNumber' /\ Numbered'
  BY NextKeepsNumber, NextKeepsNumbered
<1>2. NumberIsSeen' /\ CheckIsSeen'
  BY NextKeepsNumberIsSeen, NextKeepsCheckIsSeen
<1>3. ItsOwn'
  BY NextKeepsOwn
<1>4. UsedIdGoesAway' /\ AsksOnce'
  BY NextKeepsUsedId, NextKeepsAsksOnce DEF ItsOwn
<1>5. OrderIsDue' /\ PaymentsAreRight'
  BY <1>4, NextKeepsDue, NextKeepsPayments
<1> QED
  BY <1>1, <1>2, <1>3, <1>4, <1>5

LEMMA SettledPays == Typed /\ Settled => PaymentIsOfItsVehicle
<1> SUFFICES ASSUME Typed, Settled, NEW i \in DOMAIN records,
                    records[i].kind = "paid", records[i].order = records[i].round,
                    records[i].number \in Vehicles, ~Disturbed(records[i]),
                    \A j \in 1..(i - 1) : records[j].round # records[i].round
             PROVE  /\ records[i].number = seen[records[i].round]
                    /\ records[i].amount \in {records[i].number, Flat}
                    /\ \E j \in DOMAIN orders : /\ orders[j].id = records[i].order
                                                /\ orders[j].amount = records[i].amount
  BY DEF PaymentIsOfItsVehicle
<1>1. DOMAIN records = 1..Len(records) /\ DOMAIN orders = 1..Len(orders)
  BY DEF Typed, BooksTyped
<1>2. IsRight(records[i])
  BY <1>1 DEF Settled, PaymentsAreRight, PaysItsRound
<1> QED
  BY <1>1, <1>2 DEF IsRight, OrderOf

(***************************************************************************)
(* For any vehicles and bounds: when an undisturbed payment of its own     *)
(* round is the first to close the round, the row is of the vehicle the    *)
(* camera saw, and the amount is that of its own stay, or the flat one, as *)
(* requested under that order.                                             *)
(***************************************************************************)
THEOREM PaymentsAreOfTheirVehicles == SafeSpec => []PaymentIsOfItsVehicle
  BY InitTyped, NextKeepsTyped, InitSettled, NextKeepsSettled, SettledPays, PTL
     DEF SafeSpec

-----------------------------------------------------------------------------
(***************************************************************************)
(* One vehicle alone.  Without disturbances no other vehicle comes, nobody *)
(* taps a card, and the strands of the timer and the PMS begin nothing     *)
(* that the vehicle did not give them to do.                               *)
(***************************************************************************)
Alone == disturbances = 0

\* A step that only one thread makes, outside the lane.
OutsideTheLane == <<road, onA, onC, loopApresent>>
HasToDo(t) ==
  \/ call[t].at # "idle"
  \/ t = Timer /\ (armed \/ ticks > 0)
  \/ t = Pms /\ pmsAsked # {}

\* Where the event thread looks at a number.
Looks == call[Event].at \in {"check", "fetch", "season", "show"}

Acts(t) ==
  /\ UNCHANGED OutsideTheLane
  /\ queue' = queue \/ queue' = Append(queue, <<"BARRIER_ON">>)
  /\ HasToDo(t) /\ (OthersKept(t) \/ OthersMarked(t))
  /\ call[t].at = "idle" => t # Event
  /\ t = Event /\ call'[t].at = "come" => call[t].at = "cGone" /\ loopApresent
  /\ call'[Event].at = "cGone" => call[Event].at = "cGone"
  /\ Looks' => Looks /\ call'[Event].arg = call[Event].arg
  /\ \/ pmsAsked' \subseteq pmsAsked
     \/ Looks /\ pmsAsked' = pmsAsked \cup {[id |-> transID, number |-> call[Event].arg]}

\* An event is taken.
Takes ==
  \/ LoopAOn \/ LoopAOff \/ LoopCOff \/ BarrierStatusOn \/ CardReceived
  \/ \E r \in Rounds, p \in Vehicles \cup {None} : ReceivedLPR(r, p)
  \/ \E id \in 0..MaxRounds, s \in {"ok", "insufficient"} : PayResult(id, s)

\* What the threads do outside the lane, one call after the other.
LEMMA EventActs ==
  ASSUME Typed,
         \/ LoopCGone \/ WaitForCard \/ SameCardAgain \/ CheckCardOK \/ SameAsLast
         \/ StartPBSExit \/ TurnedAway \/ FetchEntryinfo \/ SeasonParking
         \/ CalculateFee \/ AskPms \/ ShowFee
  PROVE  Acts(Event)
<1>0. Event \in Threads /\ Timer \in Threads /\ Pms \in Threads
  BY TheThreads
<1>a. UNCHANGED callOnly => UNCHANGED OutsideTheLane /\ queue' = queue
  BY DEF callOnly, world, OutsideTheLane
<1>b. ASSUME UNCHANGED callOnly, OthersKept(Event) \/ OthersMarked(Event), Looks,
             call'[Event].at \notin {"come", "cGone"},
             Looks' => call'[Event].arg = call[Event].arg,
             \/ pmsAsked' = pmsAsked
             \/ pmsAsked' = pmsAsked \cup {[id |-> transID, number |-> call[Event].arg]}
      PROVE  Acts(Event)
  BY <1>a, <1>b DEF Acts, HasToDo, Looks
<1>1. CASE LoopCGone
  <2>1. PICK next \in {"come", "idle"} :
          Clearme(Event, next) /\ (next = "come" => loopApresent)
    BY <1>1 DEF LoopCGone
  <2>2. /\ MovesTo(Event, next) /\ OthersMarked(Event) /\ call[Event].at = "cGone"
        /\ UNCHANGED <<queue, pmsAsked, loopApresent>>
    BY <1>0, <1>1, <2>1, ClearmeSays DEF LoopCGone, At, Places, books, loop
  <2>3. UNCHANGED OutsideTheLane
    BY <2>1, <2>2 DEF Clearme, world, OutsideTheLane
  <2> QED
    BY <2>1, <2>2, <2>3 DEF Acts, HasToDo, MovesTo, Looks
<1>2. CASE WaitForCard
  BY <1>b, <1>2, WaitForCardSays DEF WaitForCard, Looks, books
<1>3. CASE SameCardAgain \/ TurnedAway
  <2>1. call[Event].at \in {"check", "fetch"} /\ UNCHANGED callOnly
    BY <1>3 DEF SameCardAgain, TurnedAway, At
  <2> QED
    BY <1>b, <1>3, <2>1, EndsSays DEF Looks, books
<1>4. CASE CheckCardOK
  <2>1. UNCHANGED callOnly
    BY <1>4 DEF CheckCardOK
  <2> QED
    BY <1>b, <1>4, <2>1, CheckCardSays DEF Looks, MovesToSave
<1>5. CASE SameAsLast
  <2>1. UNCHANGED callOnly
    BY <1>5 DEF SameAsLast
  <2> QED
    BY <1>b, <1>5, <2>1, SameSays DEF Looks, books
<1>6. CASE StartPBSExit
  <2>1. UNCHANGED callOnly
    BY <1>6 DEF StartPBSExit
  <2> QED
    BY <1>b, <1>6, <2>1, StartSays DEF Looks, MovesTo, books
<1>7. CASE FetchEntryinfo
  <2>1. UNCHANGED callOnly
    BY <1>7 DEF FetchEntryinfo
  <2> QED
    BY <1>b, <1>7, <2>1, FetchSays DEF Looks, MovesTo, books
<1>8. CASE SeasonParking
  <2>1. UNCHANGED callOnly
    BY <1>8 DEF SeasonParking
  <2> QED
    BY <1>b, <1>8, <2>1, SeasonSays DEF Looks, MovesToSave, books
<1>9. CASE CalculateFee
  <2>1. UNCHANGED callOnly
    BY <1>9 DEF CalculateFee
  <2> QED
    BY <1>b, <1>9, <2>1, CalculateSays DEF Looks, books
<1>10. CASE AskPms
  <2>1. UNCHANGED callOnly
    BY <1>10 DEF AskPms
  <2> QED
    BY <1>b, <1>10, <2>1, AskSays DEF Looks
<1>11. CASE ShowFee
  <2>1. UNCHANGED callOnly
    BY <1>11 DEF ShowFee
  <2> QED
    BY <1>b, <1>11, <2>1, ShowSays DEF Looks, MovesToSave
<1> QED
  BY <1>1, <1>2, <1>3, <1>4, <1>5, <1>6, <1>7, <1>8, <1>9, <1>10, <1>11

\* Another thread than the event thread.
LEMMA StrandActs ==
  ASSUME Typed, NEW t \in Threads, t # Event, HasToDo(t),
         OthersKept(t) \/ OthersMarked(t),
         UNCHANGED OutsideTheLane, queue' = queue, pmsAsked' \subseteq pmsAsked
  PROVE  Acts(t)
<1>1. /\ call'[Event].at = call[Event].at
      /\ Looks' => Looks /\ call'[Event].arg = call[Event].arg
  BY EventStays DEF Looks
<1> QED
  BY <1>1 DEF Acts

\* The vehicle, the camera and the service, undisturbed.
Comes(v) ==
  /\ road = Vehicles /\ v \in Vehicles /\ road' = Vehicles \ {v}
  /\ queue' = Append(queue, <<"A_ON">>) /\ onC' = onC

Follows(e) ==
  /\ e \in Events /\ e # <<"A_ON">> /\ e # <<"CARD">>
  /\ queue' = Append(queue, e) /\ road' = road /\ (onA' # None => onA # None)
  /\ onC' = onC \/ onC' = None \/ e = <<"A_OFF">>
  /\ e = <<"C_OFF">> => onC # None
  /\ \/ onA # None \/ onC # None
     \/ \E r \in Rounds : asked[r] > 0
     \/ \E id \in 0..MaxRounds : owed[id] > 0

Passes ==
  /\ (\E v \in Vehicles : Comes(v)) \/ (\E e \in Events : Follows(e))
  /\ UNCHANGED <<call, loop, round, orders, pmsAsked>>

LEMMA Undisturbed ==
  ASSUME disturbances \in Nat, NEW is \in BOOLEAN, Disturbance(is), disturbances' = 0
  PROVE  ~is /\ disturbances = 0
<1>1. CASE is
  BY <1>1 DEF Disturbance
<1>2. CASE ~is
  BY <1>2 DEF Disturbance
<1> QED
  BY <1>1, <1>2

LEMMA WorldPasses ==
  ASSUME Typed, World, Alone'
  PROVE  Alone /\ Passes
<1>0. /\ disturbances \in Nat /\ disturbances' = 0
      /\ \A r \in Rounds : asked[r] \in Nat /\ seen[r] \in Vehicles \cup {None}
      /\ MaxAnswers \in Nat /\ MaxResults \in Nat
      /\ \A id \in 0..MaxRounds : owed[id] \in Nat
  BY DEF Alone, Typed, LaneTyped
<1>1. UNCHANGED <<call, loop, round, orders, pmsAsked>>
  BY WorldSays
<1>2. ASSUME NEW v \in Vehicles, Arrive(v) PROVE Alone /\ Comes(v)
  <2>1. ~(road # Vehicles) /\ Alone
    BY <1>0, <1>2, Undisturbed DEF Arrive, Alone
  <2> QED
    BY <1>2, <2>1 DEF Arrive, Happens, Comes
<1>3. ASSUME DriveOn \/ Reverse PROVE Alone /\ Follows(<<"A_OFF">>)
  BY <1>0, <1>3, EventsOfTheLane DEF DriveOn, Reverse, Happens, Follows, Alone
<1>4. ASSUME LeaveC PROVE Alone /\ Follows(<<"C_OFF">>)
  BY <1>0, <1>4, EventsOfTheLane DEF LeaveC, Happens, Follows, Alone
<1>5. ASSUME OperatorRaisesArm \/ CardIsTapped PROVE FALSE
  BY <1>0, <1>5, Undisturbed DEF OperatorRaisesArm, CardIsTapped
<1>6. ASSUME NEW r \in Rounds, LprAnswers(r) PROVE Alone /\ Follows(<<"LPR", r, seen[r]>>)
  <2>1. (asked[r] < MaxAnswers) \in BOOLEAN
    OBVIOUS
  <2>2. Alone
    BY <1>0, <1>6, <2>1, Undisturbed DEF LprAnswers, Alone
  <2>3. <<"LPR", r, seen[r]>> \in Events
    BY <1>0, EventsOfTheLane
  <2>4. <<"LPR", r, seen[r]>> \notin {<<"A_ON">>, <<"CARD">>, <<"C_OFF">>}
    BY NamesDiffer
  <2> QED
    BY <1>6, <2>2, <2>3, <2>4 DEF LprAnswers, Happens, Follows, world
<1>7. ASSUME NEW id \in 0..MaxRounds, NEW s \in {"ok", "insufficient"},
             ServiceAnswers(id, s)
      PROVE  Alone /\ Follows(<<"PAY", id, s>>)
  <2>1. (owed[id] < MaxResults) \in BOOLEAN
    OBVIOUS
  <2>2. Alone
    BY <1>0, <1>7, <2>1, Undisturbed DEF ServiceAnswers, Alone
  <2>3. <<"PAY", id, s>> \in Events
    BY EventsOfTheLane
  <2>4. <<"PAY", id, s>> \notin {<<"A_ON">>, <<"CARD">>, <<"C_OFF">>}
    BY NamesDiffer
  <2> QED
    BY <1>7, <2>2, <2>3, <2>4 DEF ServiceAnswers, Happens, Follows, world
<1>8. /\ \A v \in Vehicles : Comes(v) => Passes
      /\ \A e \in Events : Follows(e) => Passes
  BY <1>1 DEF Passes
<1>9. ASSUME NEW e, Follows(e) PROVE Passes
  BY <1>8, <1>9 DEF Follows
<1> QED
  BY <1>2, <1>3, <1>4, <1>5, <1>6, <1>7, <1>8, <1>9 DEF World

LEMMA AloneSteps ==
  ASSUME Typed, [Next]_vars, Alone'
  PROVE  /\ Alone
         /\ Passes \/ Takes \/ (\E t \in Threads : Acts(t)) \/ UNCHANGED vars
<1>0. /\ Event \in Threads /\ Timer \in Threads /\ Pms \in Threads
      /\ Event # Timer /\ Event # Pms /\ Timer # Pms
      /\ disturbances \in Nat /\ ticks \in 0..1 /\ disturbances' = 0
  BY TheThreads DEF Alone, Typed, LaneTyped
<1>a. ASSUME disturbances' = disturbances PROVE Alone
  BY <1>0, <1>a DEF Alone
<1>1. CASE World
  BY <1>1, WorldPasses
<1>2. CASE UNCHANGED vars
  BY <1>a, <1>2 DEF vars
<1>3. ASSUME NEW t \in Threads, Step(t)
      PROVE  Alone /\ Acts(t)
  <2>0. disturbances' = disturbances /\ UNCHANGED <<road, onA, onC>>
    BY <1>3 DEF Step, LoopACome, ClearForRound, Clearme, SendTransID, SaveExit, SetSaved,
       Openbarrier, callOnly, world
  <2>a. ASSUME UNCHANGED <<loopApresent, pmsAsked>>, call[t].at # "idle",
               queue' = queue \/ queue' = Append(queue, <<"BARRIER_ON">>),
               OthersKept(t) \/ OthersMarked(t),
               call'[t].at \notin {"come", "cGone", "check", "fetch", "season", "show"}
                 \/ t # Event
        PROVE  Alone /\ Acts(t)
    <3>1. Alone /\ UNCHANGED OutsideTheLane /\ HasToDo(t)
      BY <1>a, <2>0, <2>a DEF OutsideTheLane, HasToDo
    <3>2. CASE t = Event
      BY <2>a, <3>1, <3>2 DEF Acts, Looks
    <3>3. CASE t # Event
      BY <2>a, <3>1, <3>3, EventStays DEF Acts, Looks
    <3> QED
      BY <3>2, <3>3
  <2>b. ASSUME NEW place \in Places, MovesTo(t, place),
               place \notin {"come", "cGone", "check", "fetch", "season", "show"}
        PROVE  call'[t].at \notin {"come", "cGone", "check", "fetch", "season", "show"}
    BY <2>b DEF MovesTo
  <2>1. CASE LoopACome(t)
    <3>1. /\ call[t].at # "idle" /\ MovesTo(t, "clear") /\ OthersKept(t)
          /\ UNCHANGED <<loopApresent, pmsAsked, queue>>
      BY <2>1, LoopAComeSays DEF books
    <3> QED
      BY <2>a, <2>b, <3>1 DEF Places
  <2>2. CASE ClearForRound(t)
    <3>1. Clearme(t, "detect") /\ "detect" \in Places /\ call[t].at = "clear"
      BY <2>2 DEF ClearForRound, Places, At
    <3>2. /\ MovesTo(t, "detect") /\ OthersMarked(t)
          /\ UNCHANGED <<loopApresent, pmsAsked, queue>>
      BY <3>1, ClearmeSays DEF books, loop
    <3> QED
      BY <2>a, <2>b, <3>1, <3>2
  <2>3. CASE SendTransID(t)
    <3>1. /\ call[t].at # "idle" /\ call'[t].at = "idle" /\ OthersMarked(t)
          /\ UNCHANGED <<loopApresent, pmsAsked, queue>>
      BY <2>3, SendSays DEF books, loop
    <3> QED
      BY <2>a, <3>1
  <2>4. CASE SaveExit(t)
    <3>1. /\ call[t].at # "idle" /\ call'[t].at \in {"open", "saved", "failed"} /\ OthersKept(t)
          /\ UNCHANGED <<loopApresent, pmsAsked, queue>>
      BY <2>4, SaveSays DEF MovesTo, loop
    <3> QED
      BY <2>a, <3>1
  <2>5. CASE SetSaved(t)
    <3>1. /\ call[t].at # "idle" /\ MovesTo(t, "open") /\ OthersKept(t)
          /\ UNCHANGED <<loopApresent, pmsAsked, queue>>
      BY <2>5, SetSavedSays DEF loop
    <3> QED
      BY <2>a, <2>b, <3>1 DEF Places
  <2>6. CASE Openbarrier(t)
    <3>1. /\ call[t].at # "idle" /\ call'[t].at = "idle" /\ OthersKept(t)
          /\ UNCHANGED <<loopApresent, pmsAsked>>
          /\ queue' = queue \/ queue' = Append(queue, <<"BARRIER_ON">>)
      BY <2>6, OpenSays DEF books
    <3> QED
      BY <2>a, <3>1
  <2> QED
    BY <1>3, <2>1, <2>2, <2>3, <2>4, <2>5, <2>6 DEF Step
<1>4. CASE Takes
  <2>1. \E e : Take(e)
    BY <1>4 DEF Takes, LoopAOn, LoopAOff, LoopCOff, BarrierStatusOn, CardReceived,
       ReceivedLPR, PayResult
  <2>2. disturbances' = disturbances
    BY <2>1 DEF Take
  <2> QED
    BY <1>a, <1>4, <2>2
<1>5. ASSUME \/ LoopCGone \/ WaitForCard \/ SameCardAgain \/ CheckCardOK \/ SameAsLast
             \/ StartPBSExit \/ TurnedAway \/ FetchEntryinfo \/ SeasonParking
             \/ CalculateFee \/ AskPms \/ ShowFee
      PROVE  Alone /\ Acts(Event)
  <2>1. disturbances' = disturbances
    BY <1>5 DEF LoopCGone, Clearme, WaitForCard, SameCardAgain, CheckCardOK, SameAsLast,
       StartPBSExit, TurnedAway, FetchEntryinfo, SeasonParking, CalculateFee, AskPms,
       ShowFee, callOnly
  <2> QED
    BY <1>a, <1>5, <2>1, EventActs
<1>6. CASE EventThread
  BY <1>0, <1>4, <1>5, <1>6 DEF EventThread, Takes
<1>7. ASSUME TimerStrand PROVE Alone /\ Acts(Timer)
  <2>1. UNCHANGED timerOnly
    BY <1>7 DEF TimerStrand, TimerExpires, OperationTimeout, LpnTimeout, WaitAnotherSecond
  <2>2. disturbances' = disturbances /\ UNCHANGED <<OutsideTheLane, queue, pmsAsked>>
    BY <2>1 DEF timerOnly, world, OutsideTheLane
  <2>3. HasToDo(Timer) /\ (OthersKept(Timer) \/ OthersMarked(Timer))
    BY <1>0, <1>7, HandlerSays, TimeoutSays, NoPlateSays
       DEF TimerStrand, HasToDo, OthersKept
  <2> QED
    BY <1>0, <1>a, <2>2, <2>3, StrandActs
<1>8. CASE CmdOpenBarrier
  BY <1>0, <1>8, Undisturbed DEF CmdOpenBarrier
<1>9. ASSUME NEW q \in pmsAsked, CmdTimeForNoEntry(q) PROVE Alone /\ Acts(Pms)
  <2>1. disturbances' = disturbances /\ UNCHANGED <<OutsideTheLane, queue>>
    BY <1>9 DEF CmdTimeForNoEntry, world, OutsideTheLane
  <2>2. HasToDo(Pms) /\ pmsAsked' \subseteq pmsAsked
    BY <1>9, EntryTimeSays DEF HasToDo
  <2>3. OthersKept(Pms) \/ OthersMarked(Pms)
    BY <1>9, EntryTimeSays DEF OthersKept
  <2> QED
    BY <1>0, <1>a, <2>1, <2>2, <2>3, StrandActs
<1>10. ASSUME ReceivedEntryRecord \/ ShowFeeForPms PROVE Alone /\ Acts(Pms)
  <2>1. UNCHANGED callOnly
    BY <1>10 DEF ReceivedEntryRecord, ShowFeeForPms
  <2>2. disturbances' = disturbances /\ UNCHANGED <<OutsideTheLane, queue>>
    BY <2>1 DEF callOnly, world, OutsideTheLane
  <2>3. /\ HasToDo(Pms) /\ OthersMarked(Pms) /\ pmsAsked' = pmsAsked
    BY <1>10, PmsFeeSays, PmsShowSays DEF HasToDo, books
  <2> QED
    BY <1>0, <1>a, <2>2, <2>3, StrandActs
<1>11. CASE PmsStrand
  BY <1>0, <1>8, <1>9, <1>10, <1>11 DEF PmsStrand
<1> QED
  BY <1>0, <1>1, <1>2, <1>3, <1>6, <1>7, <1>11 DEF Next

(***************************************************************************)
(* The one vehicle comes before anything else happens, and it is off loop  *)
(* A, as far as the event thread can know, before it is off loop C: the    *)
(* Clearme of loop C never begins a second round for it.                   *)
(***************************************************************************)
Coming == road = Vehicles \/ <<"A_ON">> \in Waiting
Untouched ==
  /\ round = 0 /\ orders = <<>> /\ pmsAsked = {} /\ ~armed /\ ticks = 0
  /\ call[Timer].at = "idle" /\ call[Pms].at = "idle"
  /\ call[Event].at \in {"idle", "come"}

ComesOnce ==
  /\ road = Vehicles => queue = <<>> /\ onA = None /\ onC = None
  /\ Coming => call[Event].at = "idle"
  /\ Coming \/ call[Event].at = "come" => Untouched
  /\ \A k \in 1..Len(queue) : queue[k] = <<"A_ON">> => k = 1

\* Whoever is on loop A by then leaves it with one of the next n events.
LeftBefore(n) ==
  loopApresent \/ (queue # <<>> /\ queue[1] = <<"A_ON">>)
    => \E j \in 1..n : queue[j] = <<"A_OFF">>

LeavesAfterwards ==
  /\ \A k \in 1..Len(queue) : queue[k] = <<"C_OFF">> => LeftBefore(k - 1)
  /\ onC # None => LeftBefore(Len(queue))
  /\ call[Event].at = "cGone" => ~loopApresent

NoCards ==
  /\ <<"CARD">> \notin Waiting
  /\ Looks => call[Event].arg \in Vehicles
  /\ \A q \in pmsAsked : q.number \in Vehicles

OneVehicle == ComesOnce /\ LeavesAfterwards /\ NoCards

\* What the event thread does with the event it takes.
LEMMA TakesSays ==
  ASSUME Typed, Takes
  PROVE  /\ call[Event].at = "idle" /\ TakesFrom(queue)
         /\ UNCHANGED <<road, onC, round, orders, pmsAsked, ticks>>
         /\ armed' = armed \/ armed' = FALSE
         /\ call'[Timer] = call[Timer] /\ call'[Pms] = call[Pms]
         /\ \/ /\ Head(queue) = <<"A_ON">> /\ loopApresent' = TRUE
               /\ call'[Event].at = "come"
            \/ /\ Head(queue) = <<"A_OFF">> /\ loopApresent' = FALSE
               /\ call'[Event].at = "idle"
            \/ /\ Head(queue) = <<"C_OFF">> /\ loopApresent' = loopApresent
               /\ call'[Event].at = "cGone"
            \/ /\ Head(queue) \notin {<<"A_ON">>, <<"A_OFF">>, <<"C_OFF">>}
               /\ loopApresent' = loopApresent
               /\ call'[Event].at \in {"idle", "check", "save"}
               /\ Looks' => call'[Event].arg \in Vehicles \/ Head(queue) = <<"CARD">>
<1> DEFINE Goal == /\ call[Event].at = "idle" /\ TakesFrom(queue)
                   /\ UNCHANGED <<road, onC, round, orders, pmsAsked, ticks>>
                   /\ armed' = armed \/ armed' = FALSE
                   /\ call'[Timer] = call[Timer] /\ call'[Pms] = call[Pms]
           Other == /\ loopApresent' = loopApresent
                    /\ call'[Event].at \in {"idle", "check", "save"}
                    /\ Looks' => call'[Event].arg \in Vehicles \/ Head(queue) = <<"CARD">>
<1>0. Timer \in Threads /\ Pms \in Threads /\ Timer # Event /\ Pms # Event
  BY TheThreads
<1>1. ASSUME NEW e, Take(e), UNCHANGED ticks, armed' = armed \/ armed' = FALSE,
             call' = call \/ OthersKept(Event)
      PROVE  Goal /\ Head(queue) = e
  BY <1>0, <1>1, TakeSays DEF Take, world, OthersKept
<1>2. CASE LoopAOn
  BY <1>1, <1>2, LoopSays DEF MovesTo
<1>3. CASE LoopAOff
  BY <1>1, <1>3, LoopSays
<1>4. CASE LoopCOff
  BY <1>1, <1>4, LoopSays DEF MovesTo, loop
<1>5. ASSUME BarrierStatusOn
      PROVE  Goal /\ Other /\ Head(queue) \notin {<<"A_ON">>, <<"A_OFF">>, <<"C_OFF">>}
  <2>1. /\ Goal /\ Head(queue) = <<"BARRIER_ON">>
        /\ Head(queue) \notin {<<"A_ON">>, <<"A_OFF">>, <<"C_OFF">>}
    BY <1>1, <1>5, BarrierSays DEF loop
  <2>2. Other
    BY <1>5, <2>1, BarrierSays DEF loop, StartsAt, Looks
  <2> QED
    BY <2>1, <2>2
<1>6. ASSUME CardReceived
      PROVE  Goal /\ Other /\ Head(queue) \notin {<<"A_ON">>, <<"A_OFF">>, <<"C_OFF">>}
  <2>1. /\ Goal /\ Head(queue) = <<"CARD">>
        /\ Head(queue) \notin {<<"A_ON">>, <<"A_OFF">>, <<"C_OFF">>}
    BY <1>1, <1>6, CardSays DEF loop
  <2>2. Other
    BY <1>6, <2>1, CardSays DEF loop, StartsAt
  <2> QED
    BY <2>1, <2>2
<1>7. ASSUME NEW r \in Rounds, NEW p \in Vehicles \cup {None}, ReceivedLPR(r, p)
      PROVE  Goal /\ Other /\ Head(queue) \notin {<<"A_ON">>, <<"A_OFF">>, <<"C_OFF">>}
  <2>1. Goal /\ Head(queue) = <<"LPR", r, p>>
    BY <1>1, <1>7, LPRSays DEF loop
  <2>2. Other
    BY <1>7, <2>1, LPRSays DEF loop, StartsAt, Looks
  <2> QED
    BY <2>1, <2>2, NamesDiffer
<1>8. ASSUME NEW id \in 0..MaxRounds, NEW s \in {"ok", "insufficient"}, PayResult(id, s)
      PROVE  Goal /\ Other /\ Head(queue) \notin {<<"A_ON">>, <<"A_OFF">>, <<"C_OFF">>}
  <2>1. Goal /\ Head(queue) = <<"PAY", id, s>>
    BY <1>1, <1>8, PaySays DEF loop
  <2>2. Other
    BY <1>8, <2>1, PaySays DEF loop, StartsAt, Looks
  <2> QED
    BY <2>1, <2>2, NamesDiffer
<1>9. CASE ~ (LoopAOn \/ LoopAOff \/ LoopCOff)
  <2>1. Goal /\ Other /\ Head(queue) \notin {<<"A_ON">>, <<"A_OFF">>, <<"C_OFF">>}
    BY <1>5, <1>6, <1>7, <1>8, <1>9 DEF Takes
  <2> QED
    BY <2>1
<1> QED
  BY <1>2, <1>3, <1>4, <1>9

LEMMA TailSays ==
  ASSUME Typed, TakesFrom(queue)
  PROVE  /\ Len(queue) \in Nat /\ Len(queue') \in Nat /\ Len(queue) = Len(queue') + 1
         /\ Head(queue) = queue[1] /\ queue # <<>>
         /\ \A k \in 1..Len(queue') : queue'[k] = queue[k + 1] /\ k + 1 \in 1..Len(queue)
         /\ queue' # <<>> => Len(queue') > 0
  BY DEF TakesFrom, Typed, LaneTyped

LEMMA AppendSays ==
  ASSUME Typed, NEW e \in Events, queue' = Append(queue, e)
  PROVE  /\ Len(queue) \in Nat /\ Len(queue') = Len(queue) + 1
         /\ queue'[Len(queue) + 1] = e
         /\ \A k \in 1..Len(queue) : queue'[k] = queue[k]
         /\ queue = <<>> => Len(queue) = 0
         /\ queue # <<>> => Len(queue) > 0
         /\ queue' # <<>>
<1>1. queue \in Seq(Events)
  BY DEF Typed, LaneTyped
<1>2. /\ Len(queue) \in Nat /\ Len(queue') = Len(queue) + 1
      /\ queue'[Len(queue) + 1] = e
      /\ \A k \in 1..Len(queue) : queue'[k] = queue[k]
  BY <1>1
<1>3. (queue = <<>> => Len(queue) = 0) /\ (queue # <<>> => Len(queue) > 0)
  BY <1>1
<1>4. queue' # <<>>
  BY <1>2
<1> QED
  BY <1>2, <1>3, <1>4

\* Nobody has anything to do before the vehicle comes.
LEMMA NothingToDo ==
  ASSUME Untouched, NEW t \in Threads, HasToDo(t)
  PROVE  t = Event /\ call[Event].at = "come"
  BY TheThreads DEF Untouched, HasToDo

LEMMA OneVehicleActs ==
  ASSUME Typed, OneVehicle, NEW t \in Threads, Acts(t)
  PROVE  OneVehicle'
<1> USE DEF OneVehicle
<1>0. /\ UNCHANGED <<road, onA, onC, loopApresent>> /\ Event \in Threads
      /\ <<"BARRIER_ON">> \in Events
  BY TheThreads, EventsOfTheLane DEF Acts, OutsideTheLane
<1>1. \A w \in Waiting' : w \in Waiting \/ w = <<"BARRIER_ON">>
  <2>1. CASE queue' = queue
    BY <2>1 DEF Waiting
  <2>2. CASE queue' = Append(queue, <<"BARRIER_ON">>)
    BY <1>0, <2>2, AppendWaits DEF Typed, LaneTyped
  <2> QED
    BY <2>1, <2>2 DEF Acts
<1>2. ~Coming
  <2>1. ASSUME Coming PROVE FALSE
    <3>1. call[Event].at = "idle" /\ Untouched
      BY <2>1 DEF ComesOnce
    <3> QED
      BY <3>1, NothingToDo DEF Acts
  <2> QED
    BY <2>1
<1>3. ~Coming'
  BY <1>0, <1>1, <1>2 DEF Coming
<1>4. call'[Event].at # "come"
  <2>1. ASSUME call'[Event].at = "come" PROVE FALSE
    <3>1. CASE t = Event
      BY <2>1, <3>1 DEF Acts, LeavesAfterwards
    <3>2. CASE t # Event
      <4>1. call[Event].at = "come"
        BY <2>1, <3>2, EventStays DEF Acts
      <4> QED
        BY <3>2, <4>1, NothingToDo DEF ComesOnce, Acts
    <3> QED
      BY <3>1, <3>2
  <2> QED
    BY <2>1
<1>5. ComesOnce'
  <2>1. \A k \in 1..Len(queue') : queue'[k] # <<"A_ON">>
    BY <1>3 DEF Coming, Waiting
  <2> QED
    BY <1>3, <1>4, <2>1 DEF ComesOnce, Coming
<1>6. LeavesAfterwards'
  <2>1. call'[Event].at = "cGone" => ~loopApresent'
    BY <1>0 DEF Acts, LeavesAfterwards
  <2>2. CASE queue' = queue
    BY <1>0, <2>1, <2>2 DEF LeavesAfterwards, LeftBefore
  <2>3. CASE queue' = Append(queue, <<"BARRIER_ON">>)
    <3>1. /\ Len(queue) \in Nat /\ Len(queue') = Len(queue) + 1
          /\ queue'[Len(queue) + 1] = <<"BARRIER_ON">>
          /\ \A k \in 1..Len(queue) : queue'[k] = queue[k]
          /\ queue = <<>> => Len(queue) = 0
          /\ queue # <<>> => Len(queue) > 0
      BY <1>0, <2>3, AppendSays
    <3>2. \A n \in 0..Len(queue), m \in Nat : LeftBefore(n) /\ n <= m => LeftBefore(m)'
      BY <1>0, <3>1 DEF LeftBefore
    <3>3. ASSUME NEW k \in 1..Len(queue'), queue'[k] = <<"C_OFF">> PROVE LeftBefore(k - 1)'
      <4>1. k \in 1..Len(queue)
        BY <3>1, <3>3
      <4>2. LeftBefore(k - 1) /\ k - 1 \in 0..Len(queue)
        BY <3>1, <3>3, <4>1 DEF LeavesAfterwards
      <4> QED
        BY <3>2, <4>2
    <3>4. ASSUME onC' # None PROVE LeftBefore(Len(queue))'
      <4>1. PICK m \in Nat : m = Len(queue')
        BY <3>1
      <4>2. LeftBefore(m)'
        BY <1>0, <3>1, <3>2, <3>4, <4>1 DEF LeavesAfterwards
      <4> QED
        BY <4>1, <4>2 DEF LeftBefore
    <3> QED
      BY <2>1, <3>3, <3>4 DEF LeavesAfterwards
  <2> QED
    BY <2>2, <2>3 DEF Acts
<1>7. NoCards'
  <2>1. <<"CARD">> \notin Waiting'
    BY <1>1 DEF NoCards
  <2>2. Looks' => call'[Event].arg \in Vehicles
    BY DEF Acts, NoCards
  <2>3. \A q \in pmsAsked' : q.number \in Vehicles
    BY DEF Acts, NoCards
  <2> QED
    BY <2>1, <2>2, <2>3 DEF NoCards, Looks
<1> QED
  BY <1>5, <1>6, <1>7

LEMMA OneVehicleTakes ==
  ASSUME Typed, OneVehicle, Takes
  PROVE  OneVehicle'
<1> USE DEF OneVehicle
<1>a. /\ call[Event].at = "idle" /\ UNCHANGED <<road, onC, pmsAsked>>
      /\ TakesFrom(queue)
  BY TakesSays
<1>0. /\ call[Event].at = "idle" /\ UNCHANGED <<road, onC, pmsAsked>>
      /\ Len(queue) \in Nat /\ Len(queue') \in Nat /\ Len(queue) = Len(queue') + 1
      /\ Head(queue) = queue[1] /\ queue # <<>>
      /\ \A k \in 1..Len(queue') : queue'[k] = queue[k + 1] /\ k + 1 \in 1..Len(queue)
      /\ queue' # <<>> => Len(queue') > 0
  BY <1>a, TailSays
<1>1. /\ 1 \in 1..Len(queue) /\ Head(queue) \in Waiting /\ Waiting' \subseteq Waiting
  <2>1. 1 \in 1..Len(queue)
    BY <1>0
  <2>2. Head(queue) \in Waiting
    BY <1>0, <2>1 DEF Waiting
  <2>3. Waiting' \subseteq Waiting
    BY <1>0 DEF Waiting
  <2> QED
    BY <2>1, <2>2, <2>3
<1>2. road' # Vehicles /\ \A k \in 1..Len(queue') : queue'[k] # <<"A_ON">>
  BY <1>0 DEF ComesOnce
<1>3. ~Coming'
  BY <1>2 DEF Coming, Waiting
<1>4. ComesOnce'
  <2>1. CASE call'[Event].at # "come"
    BY <1>2, <1>3, <2>1 DEF ComesOnce
  <2>2. CASE call'[Event].at = "come"
    <3>1. Head(queue) = <<"A_ON">>
      BY <2>2, TakesSays
    <3>2. Untouched
      BY <1>1, <3>1 DEF ComesOnce, Coming
    <3>a. /\ UNCHANGED <<round, orders, pmsAsked, ticks>>
          /\ armed' = armed \/ armed' = FALSE
          /\ call'[Timer] = call[Timer] /\ call'[Pms] = call[Pms]
      BY TakesSays
    <3>b. ~armed'
      BY <3>2, <3>a DEF Untouched
    <3>3. Untouched'
      BY <2>2, <3>2, <3>a, <3>b DEF Untouched
    <3> QED
      BY <1>2, <1>3, <3>3 DEF ComesOnce
  <2> QED
    BY <2>1, <2>2
\* If somebody is on the loop afterwards, the event was not the one that ends it.
<1>5. \/ ~loopApresent' /\ \A k \in 1..Len(queue') : queue'[k] # <<"A_ON">>
      \/ /\ loopApresent \/ queue[1] = <<"A_ON">>
         /\ queue[1] # <<"A_OFF">>
  <2>1. loopApresent' => loopApresent \/ queue[1] = <<"A_ON">>
    BY <1>0, TakesSays
  <2>2. ASSUME queue[1] = <<"A_OFF">> PROVE ~loopApresent'
    <3>1. Head(queue) = <<"A_OFF">> /\ Head(queue) # <<"A_ON">> /\ Head(queue) # <<"C_OFF">>
      BY <1>0, <2>2
    <3> QED
      BY <3>1, TakesSays
  <2> QED
    BY <1>2, <2>1, <2>2
<1>6. ASSUME NEW n \in 0..Len(queue'), LeftBefore(n + 1) PROVE LeftBefore(n)'
  <2>1. CASE ~loopApresent' /\ \A k \in 1..Len(queue') : queue'[k] # <<"A_ON">>
    <3>1. queue' # <<>> => queue'[1] # <<"A_ON">>
      BY <1>0, <2>1
    <3> QED
      BY <2>1, <3>1 DEF LeftBefore
  <2>2. CASE /\ loopApresent \/ queue[1] = <<"A_ON">>
             /\ queue[1] # <<"A_OFF">>
    <3>1. PICK j \in 1..(n + 1) : queue[j] = <<"A_OFF">>
      BY <1>0, <1>6, <2>2 DEF LeftBefore
    <3>2. j - 1 \in 1..n /\ j - 1 \in 1..Len(queue') /\ (j - 1) + 1 = j
      BY <1>0, <2>2, <3>1
    <3>3. queue'[j - 1] = <<"A_OFF">>
      BY <1>0, <3>1, <3>2
    <3> QED
      BY <3>2, <3>3 DEF LeftBefore
  <2> QED
    BY <1>5, <2>1, <2>2
<1>7. LeavesAfterwards'
  <2>1. ASSUME NEW k \in 1..Len(queue'), queue'[k] = <<"C_OFF">> PROVE LeftBefore(k - 1)'
    <3>1. queue[k + 1] = <<"C_OFF">> /\ k + 1 \in 1..Len(queue)
      BY <1>0, <2>1
    <3>2. LeftBefore((k + 1) - 1) /\ (k + 1) - 1 = (k - 1) + 1 /\ k - 1 \in 0..Len(queue')
      BY <1>0, <3>1 DEF LeavesAfterwards
    <3> QED
      BY <1>6, <3>2
  <2>2. ASSUME onC' # None PROVE LeftBefore(Len(queue))'
    <3>1. PICK m \in 0..Len(queue') : m = Len(queue')
      BY <1>0
    <3>2. LeftBefore(m + 1)
      BY <1>0, <2>2, <3>1 DEF LeavesAfterwards
    <3>3. LeftBefore(m)'
      BY <1>6, <3>2
    <3> QED
      BY <3>1, <3>3 DEF LeftBefore
  <2>3. ASSUME call'[Event].at = "cGone" PROVE ~loopApresent'
    <3>1. queue[1] = <<"C_OFF">> /\ loopApresent' = loopApresent
      BY <1>0, <2>3, TakesSays
    <3>2. LeftBefore(1 - 1)
      BY <1>1, <3>1 DEF LeavesAfterwards
    <3> QED
      BY <3>1, <3>2 DEF LeftBefore
  <2> QED
    BY <2>1, <2>2, <2>3 DEF LeavesAfterwards
<1>8. NoCards'
  <2>1. Head(queue) # <<"CARD">>
    BY <1>1 DEF NoCards
  <2>2. Looks' => call'[Event].arg \in Vehicles
    BY <2>1, TakesSays DEF Looks
  <2> QED
    BY <1>0, <1>1, <2>2 DEF NoCards, Looks
<1> QED
  BY <1>4, <1>7, <1>8

LEMMA OneVehiclePasses ==
  ASSUME Typed, Numbered, OneVehicle, Passes
  PROVE  OneVehicle'
<1> USE DEF OneVehicle
<1>0. /\ UNCHANGED <<call, loopApresent, armed, ticks, round, orders, pmsAsked>>
      /\ <<"A_ON">> \in Events
  BY EventsOfTheLane DEF Passes, loop
<1>1. (Untouched => Untouched') /\ (Looks' => Looks)
  BY <1>0 DEF Untouched, Looks
<1>2. ASSUME NEW v \in Vehicles, Comes(v) PROVE OneVehicle'
  <2>1. /\ road = Vehicles /\ queue = <<>> /\ onC = None /\ Coming
        /\ road' # Vehicles /\ onC' = None /\ queue' = Append(queue, <<"A_ON">>)
    BY <1>2 DEF Comes, ComesOnce, Coming
  <2>2. /\ Len(queue') = 1 /\ queue'[1] = <<"A_ON">>
        /\ \A k \in 1..Len(queue') : k = 1
    BY <1>0, <2>1, AppendSays
  <2>3. Untouched' /\ call'[Event].at = "idle"
    BY <1>0, <1>1, <2>1 DEF ComesOnce
  <2>4. ComesOnce'
    BY <2>1, <2>2, <2>3 DEF ComesOnce
  <2>5. LeavesAfterwards'
    <3>1. \A k \in 1..Len(queue') : queue'[k] # <<"C_OFF">>
      BY <2>2
    <3> QED
      BY <2>1, <2>3, <3>1 DEF LeavesAfterwards
  <2>6. NoCards'
    <3>1. <<"CARD">> \notin Waiting'
      BY <2>2 DEF Waiting
    <3> QED
      BY <1>0, <1>1, <3>1 DEF NoCards
  <2> QED
    BY <2>4, <2>5, <2>6
<1>3. ASSUME NEW e \in Events, Follows(e) PROVE OneVehicle'
  <2>1. /\ e # <<"A_ON">> /\ e # <<"CARD">> /\ queue' = Append(queue, e) /\ road' = road
        /\ onC' = onC \/ onC' = None \/ e = <<"A_OFF">>
        /\ e = <<"C_OFF">> => onC # None
    BY <1>3 DEF Follows
  <2>2. /\ Len(queue) \in Nat /\ Len(queue') = Len(queue) + 1
        /\ queue'[Len(queue) + 1] = e
        /\ \A k \in 1..Len(queue) : queue'[k] = queue[k]
        /\ queue = <<>> => Len(queue) = 0
        /\ queue # <<>> => Len(queue) > 0
        /\ queue' # <<>>
    BY <2>1, AppendSays
  <2>3. \A w \in Waiting' : w \in Waiting \/ w = e
    BY <2>1, AppendWaits DEF Typed, LaneTyped
  <2>4. road # Vehicles
    <3>1. ASSUME road = Vehicles PROVE FALSE
      <4>1. onA = None /\ onC = None /\ round = 0 /\ orders = <<>>
        BY <3>1 DEF ComesOnce, Coming, Untouched
      <4>2. CASE \E r \in Rounds : asked[r] > 0
        BY <4>1, <4>2 DEF Numbered, IdsAreGivenOut, Rounds
      <4>3. CASE \E id \in 0..MaxRounds : owed[id] > 0
        BY <4>1, <4>3 DEF Numbered, ResultsAreOfOrders, Placed
      <4> QED
        BY <1>3, <4>1, <4>2, <4>3 DEF Follows
    <3> QED
      BY <3>1
  <2>5. (Coming' => Coming) /\ road' # Vehicles
    BY <2>1, <2>3, <2>4 DEF Coming
  <2>6. ASSUME NEW k \in 1..Len(queue'), queue'[k] = <<"A_ON">> PROVE k = 1
    <3>1. k # Len(queue) + 1
      BY <2>1, <2>2, <2>6
    <3>2. k \in 1..Len(queue)
      BY <2>2, <3>1
    <3>3. queue[k] = <<"A_ON">>
      BY <2>2, <2>6, <3>2
    <3> QED
      BY <3>2, <3>3 DEF ComesOnce
  <2>7. ComesOnce'
    <3>1. /\ Coming' => call'[Event].at = "idle"
          /\ Coming' \/ call'[Event].at = "come" => Untouched'
      BY <1>0, <1>1, <2>5 DEF ComesOnce
    <3> QED
      BY <2>5, <2>6, <3>1 DEF ComesOnce
  <2>8. ASSUME NEW n \in 0..Len(queue), NEW m \in Nat, LeftBefore(n), n <= m
        PROVE  LeftBefore(m)'
    BY <1>0, <2>1, <2>2, <2>8 DEF LeftBefore
  <2>9. LeavesAfterwards'
    <3>1. ASSUME NEW k \in 1..Len(queue'), queue'[k] = <<"C_OFF">> PROVE LeftBefore(k - 1)'
      <4>1. CASE k \in 1..Len(queue)
        <5>1. LeftBefore(k - 1) /\ k - 1 \in 0..Len(queue)
          BY <2>2, <3>1, <4>1 DEF LeavesAfterwards
        <5> QED
          BY <2>8, <5>1
      <4>2. CASE k = Len(queue) + 1
        <5>1. PICK n \in 0..Len(queue) : n = Len(queue)
          BY <2>2
        <5>2. e = <<"C_OFF">>
          BY <2>2, <3>1, <4>2
        <5>3. k - 1 = n
          BY <2>2, <4>2, <5>1
        <5>4. LeftBefore(n)
          BY <2>1, <5>1, <5>2 DEF LeavesAfterwards
        <5>5. LeftBefore(n)'
          BY <2>2, <2>8, <5>1, <5>4
        <5> QED
          BY <5>3, <5>5
      <4> QED
        BY <2>2, <4>1, <4>2
    <3>2. ASSUME onC' # None PROVE LeftBefore(Len(queue))'
      <4>1. CASE onC # None
        <5>1. PICK n \in 0..Len(queue) : n = Len(queue)
          BY <2>2
        <5>2. LeftBefore(n) /\ Len(queue') = n + 1
          BY <2>2, <4>1, <5>1 DEF LeavesAfterwards
        <5>3. LeftBefore(n + 1)'
          BY <2>2, <2>8, <5>1, <5>2
        <5> QED
          BY <5>2, <5>3 DEF LeftBefore
      <4>2. CASE e = <<"A_OFF">>
        <5>1. Len(queue') \in 1..Len(queue') /\ queue'[Len(queue')] = <<"A_OFF">>
          BY <2>2, <4>2
        <5> QED
          BY <5>1 DEF LeftBefore
      <4> QED
        BY <2>1, <3>2, <4>1, <4>2
    <3>3. call'[Event].at = "cGone" => ~loopApresent'
      BY <1>0 DEF LeavesAfterwards
    <3> QED
      BY <3>1, <3>2, <3>3 DEF LeavesAfterwards
  <2>10. NoCards'
    <3>1. <<"CARD">> \notin Waiting'
      BY <2>1, <2>3 DEF NoCards
    <3> QED
      BY <1>0, <1>1, <3>1 DEF NoCards
  <2> QED
    BY <2>7, <2>9, <2>10
<1> QED
  BY <1>2, <1>3 DEF Passes

LEMMA NextKeepsOneVehicle ==
  ASSUME Typed, Numbered, Alone => OneVehicle, [Next]_vars
  PROVE  (Alone => OneVehicle)'
<1> SUFFICES ASSUME Alone' PROVE OneVehicle'
  OBVIOUS
<1>1. /\ OneVehicle
      /\ Passes \/ Takes \/ (\E t \in Threads : Acts(t)) \/ UNCHANGED vars
  BY AloneSteps
<1>2. CASE UNCHANGED vars
  <2>1. UNCHANGED <<road, onA, onC, queue, round, orders, pmsAsked, armed, ticks, call,
                    loopApresent>>
    BY <1>2 DEF vars, world, payment, timer
  <2> QED
    BY <1>1, <2>1 DEF OneVehicle, ComesOnce, LeavesAfterwards, NoCards, Coming, Untouched,
       LeftBefore, Looks, Waiting
<1> QED
  BY <1>1, <1>2, OneVehicleActs, OneVehicleTakes, OneVehiclePasses

-----------------------------------------------------------------------------
(***************************************************************************)
(* More that holds whatever the disturbances.  A call of the event thread  *)
(* that pays for the vehicle tExit holds has not been disturbed; and once  *)
(* a round is closed, tExit is emptied only when a new id is about to come *)
(* or the loop is empty.                                                   *)
(***************************************************************************)
Counts(rec) == ~rec.disturbed /\ rec.kind \notin {"manual", "paid"}
Closed(id) == \E i \in 1..Len(records) : records[i].round = id /\ Counts(records[i])

WorkIsClean == EventPays /\ Fresh => ~call[Event].wiped
ClosedGoesAway == iu = None /\ Closed(transID) => Away

\* A timer cancelled under one of its handlers stays so.
LEMMA StrayStays ==
  ASSUME Typed, [Next]_vars, stray
  PROVE  stray'
<1>1. ASSUME NEW t \in Threads, Step(t) PROVE stray'
  <2>1. CASE LoopACome(t) \/ SendTransID(t) \/ SaveExit(t) \/ SetSaved(t) \/ Openbarrier(t)
    BY <2>1, LoopAComeSays, SendSays, SaveSays, SetSavedSays, OpenSays
  <2>2. CASE ClearForRound(t)
    BY <2>2 DEF ClearForRound, Clearme
  <2> QED
    BY <1>1, <2>1, <2>2 DEF Step
<1>2. CASE LoopAOn \/ LoopAOff \/ LoopCOff
  BY <1>2, LoopSays
<1>3. CASE LoopCGone
  BY <1>3 DEF LoopCGone, Clearme
<1>4. CASE BarrierStatusOn \/ CardReceived
  BY <1>4, BarrierSays, CardSays
<1>5. ASSUME NEW r \in Rounds, NEW p \in Vehicles \cup {None}, ReceivedLPR(r, p) PROVE stray'
  BY <1>5, LPRSays
<1>6. ASSUME NEW id \in 0..MaxRounds, NEW s \in {"ok", "insufficient"}, PayResult(id, s)
      PROVE  stray'
  BY <1>6, PaySays
<1>7. CASE SameCardAgain \/ TurnedAway \/ SameAsLast \/ StartPBSExit
  BY <1>7, EndsSays, SameSays, StartSays
<1>8. CASE OtherSteps
  BY <1>8, WaitForCardSays, CheckCardSays, FetchSays, SeasonSays, CalculateSays, AskSays,
     ShowSays, NoPlateSays, PmsFeeSays, PmsShowSays DEF OtherSteps
<1>9. CASE EventThread
  BY <1>2, <1>3, <1>4, <1>5, <1>6, <1>7, <1>8, <1>9 DEF EventThread, OtherSteps
<1>10. CASE TimerStrand
  BY <1>8, <1>10, HandlerSays, TimeoutSays DEF TimerStrand, OtherSteps
<1>11. CASE PmsStrand
  BY <1>8, <1>11, OpenCmdSays, EntryTimeSays DEF PmsStrand, OtherSteps
<1>12. CASE World
  BY <1>12, WorldSays
<1>13. CASE UNCHANGED vars
  BY <1>13 DEF vars, history
<1> QED
  BY <1>1, <1>9, <1>10, <1>11, <1>12, <1>13 DEF Next

LEMMA NextKeepsWorkClean ==
  ASSUME Typed, NumberIsSeen, AsksOnce, WorkIsClean, [Next]_vars
  PROVE  WorkIsClean'
<1>0. /\ Event \in Threads /\ Timer \in Threads /\ Pms \in Threads
      /\ Event # Timer /\ Event # Pms /\ Timer # Pms
  BY TheThreads
<1> SUFFICES ASSUME EventPays', Fresh' PROVE ~call'[Event].wiped
  BY DEF WorkIsClean
<1>a. ASSUME NEW t \in Threads, t # Event, OthersKept(t), UNCHANGED <<iu, stale>>
      PROVE  ~call'[Event].wiped
  <2>1. call'[Event] = call[Event]
    BY <1>0, <1>a DEF OthersKept
  <2> QED
    BY <1>a, <2>1 DEF WorkIsClean, EventPays, Fresh
<1>b. ASSUME call' = call, UNCHANGED <<iu, stale>> PROVE ~call'[Event].wiped
  BY <1>b DEF WorkIsClean, EventPays, Fresh
<1>c. ASSUME OthersMarked(Pms), ~stale, iu' = iu PROVE EventPays /\ Fresh
  BY <1>0, <1>c, EventIsMarked DEF EventPays, Fresh
<1>1. CASE Rests
  BY <1>b, <1>1 DEF Rests, about, vehicle
<1>2. ASSUME NEW t \in Threads, Moves(t) PROVE ~call'[Event].wiped
  <2>1. t # Event /\ OthersKept(t) /\ UNCHANGED <<iu, stale>>
    BY <1>2 DEF Moves, about, vehicle, EventPays
  <2> QED
    BY <1>a, <2>1
<1>3. ASSUME NEW t \in Threads, Clears(t) PROVE FALSE
  BY <1>3, TheNumbers DEF Clears, Fresh
<1>4. ASSUME NEW t \in Threads, SaveExit(t) PROVE ~call'[Event].wiped
  <2>1. t # Event /\ OthersKept(t) /\ UNCHANGED <<iu, stale>>
    BY <1>4, SaveSays DEF MovesTo, vehicle, EventPays
  <2> QED
    BY <1>a, <2>1
<1>5. ASSUME NEW t \in Threads, SendTransID(t) PROVE FALSE
  <2>1. UNCHANGED <<iu, stale>> /\ call[t].at = "detect"
    BY <1>5, SendSays DEF vehicle
  <2> QED
    BY <2>1 DEF NumberIsSeen, Nobody, Fresh
<1>6. ASSUME NEW r \in 0..MaxRounds, NEW p \in Plain, Checks(r, p) PROVE FALSE
  BY <1>6 DEF Checks, StartsAt, EventPays
<1>7. ASSUME NEW q \in pmsAsked, LearnsEntry(q) PROVE ~call'[Event].wiped
  <2>1. CASE UNCHANGED <<entryOf, noEntry, call, stale>>
    BY <1>b, <1>7, <2>1 DEF LearnsEntry
  <2>2. CASE /\ StartsAt(Pms, "fee", q.number, "none") /\ OthersMarked(Pms)
             /\ entryOf' = q.number /\ noEntry' = 0
             /\ stale \/ q # [id |-> transID, number |-> iu] => stale'
    <3>1. ~stale /\ q = [id |-> transID, number |-> iu] /\ iu' = iu
      BY <1>7, <2>2 DEF LearnsEntry, Fresh
    <3>2. Asked(transID)
      BY <3>1 DEF Asked
    <3> QED
      BY <1>c, <2>2, <3>1, <3>2 DEF AsksOnce
  <2> QED
    BY <1>7, <2>1, <2>2 DEF LearnsEntry
<1>8. CASE Fetches
  BY <1>8 DEF Fetches, MovesTo, StaleIfWiped, Fresh
<1>9. CASE WaitForCard \/ CheckCardOK \/ SeasonParking \/ AskPms \/ ShowFee
  BY <1>9, WaitForCardSays, CheckCardSays, SeasonSays, AskSays, ShowSays
     DEF MovesToSave, EventPays
<1>10. CASE FetchEntryinfo \/ CalculateFee
  BY <1>10, FetchSays, CalculateSays DEF MovesTo, StaleIfWiped, Fresh
<1>11. CASE LpnTimeout
  BY <1>11, NoPlateSays, TheNumbers DEF Fresh
<1>12. CASE ReceivedEntryRecord \/ ShowFeeForPms
  <2>1. OthersMarked(Pms) /\ StaleIfWiped(Pms) /\ iu' = iu /\ call[Pms].at \in {"fee", "show"}
    BY <1>12, PmsFeeSays, PmsShowSays
  <2>2. ~stale /\ ~call[Pms].wiped
    BY <2>1 DEF StaleIfWiped, Fresh
  <2> QED
    BY <1>c, <2>1, <2>2 DEF AsksOnce, PmsPays
<1>13. CASE OtherSteps
  BY <1>9, <1>10, <1>11, <1>12, <1>13 DEF OtherSteps
<1> QED
  BY <1>1, <1>2, <1>3, <1>4, <1>5, <1>6, <1>7, <1>8, <1>13, StepsAre

\* tExit is emptied when an id is about to come or the loop is empty, and then
\* either that goes on or the id comes.
LEMMA EmptyStaysAway ==
  ASSUME Typed, [Next]_vars, iu' = None
  PROVE  \/ Away'
         \/ \E t \in Threads : SendTransID(t)
         \/ iu = None /\ transID' = transID /\ (Away => Away')
<1>0. /\ Event \in Threads /\ Timer \in Threads /\ Pms \in Threads
      /\ Event # Timer /\ Event # Pms /\ Timer # Pms
  BY TheThreads
<1>a. ASSUME NEW t \in Threads, OthersKept(t) \/ OthersMarked(t),
             call[t].at \notin {"come", "clear", "detect"},
             UNCHANGED <<iu, transID, loopApresent>>
      PROVE  iu = None /\ transID' = transID /\ (Away => Away')
  BY <1>a, AwayStays
<1>1. CASE Rests
  <2>1. /\ UNCHANGED <<call, transID, iu>>
        /\ loopApresent' = loopApresent \/ loopApresent' = FALSE
    BY <1>1 DEF Rests, about, vehicle
  <2> QED
    BY <2>1 DEF Away
<1>2. ASSUME NEW t \in Threads, Moves(t)
      PROVE  iu = None /\ transID' = transID /\ (Away => Away')
  <2>1. UNCHANGED <<transID, iu>> /\ OthersKept(t)
    BY <1>2 DEF Moves, about, vehicle
  <2>2. CASE t = Event
    <3>1. call'[Timer].at = call[Timer].at
      BY <1>0, <2>1, <2>2 DEF OthersKept
    <3> QED
      BY <1>2, <2>1, <2>2, <3>1 DEF Moves, Away
  <2>3. CASE t # Event
    <3>1. call'[Event].at = call[Event].at /\ loopApresent' = loopApresent
      BY <1>0, <1>2, <2>1, <2>3 DEF OthersKept, Moves
    <3>2. call[Timer].at = "detect" => call'[Timer].at = "detect"
      BY <1>0, <1>2, <2>1 DEF OthersKept, Moves
    <3> QED
      BY <2>1, <3>1, <3>2 DEF Away
  <2> QED
    BY <2>2, <2>3
<1>3. ASSUME NEW t \in Threads, Clears(t) PROVE Away'
  BY <1>3, TheThreads DEF Clears, Away
<1>4. ASSUME NEW t \in Threads, SaveExit(t)
      PROVE  iu = None /\ transID' = transID /\ (Away => Away')
  <2>1. /\ UNCHANGED <<iu, transID, loopApresent>> /\ OthersKept(t) /\ call[t].at = "save"
    BY <1>4, SaveSays DEF vehicle, ids, loop
  <2> QED
    BY <1>a, <2>1
<1>5. ASSUME NEW r \in 0..MaxRounds, NEW p \in Plain, Checks(r, p)
      PROVE  iu = None /\ transID' = transID /\ (Away => Away')
  <2>1. /\ UNCHANGED <<iu, transID, loopApresent>> /\ OthersKept(Event)
        /\ call[Event].at = "idle"
    BY <1>5 DEF Checks, about, vehicle
  <2> QED
    BY <1>0, <1>a, <2>1
<1>6. ASSUME NEW q \in pmsAsked, LearnsEntry(q)
      PROVE  iu = None /\ transID' = transID /\ (Away => Away')
  <2>1. /\ UNCHANGED <<iu, transID, loopApresent>> /\ call[Pms].at = "idle"
        /\ call' = call \/ OthersMarked(Pms)
    BY <1>6 DEF LearnsEntry
  <2> QED
    BY <1>0, <1>a, <2>1 DEF OthersKept
<1>7. CASE Fetches \/ LpnTimeout
  <2>1. CASE Fetches
    BY <2>1, TheNumbers DEF Fetches, Typed, CallsTyped
  <2>2. CASE LpnTimeout
    BY <2>2, NoPlateSays, TheNumbers
  <2> QED
    BY <1>7, <2>1, <2>2
<1>8. ASSUME \/ WaitForCard \/ CheckCardOK \/ FetchEntryinfo \/ SeasonParking
             \/ CalculateFee \/ AskPms \/ ShowFee
      PROVE  iu = None /\ transID' = transID /\ (Away => Away')
  <2>1. /\ UNCHANGED <<iu, transID, loopApresent>>
        /\ OthersKept(Event) \/ OthersMarked(Event)
        /\ call[Event].at \in {"check", "fetch", "season", "show"}
    BY <1>8, WaitForCardSays, CheckCardSays, FetchSays, SeasonSays, CalculateSays, AskSays,
       ShowSays DEF vehicle, ids, loop
  <2> QED
    BY <1>0, <1>a, <2>1
<1>9. ASSUME ReceivedEntryRecord \/ ShowFeeForPms
      PROVE  iu = None /\ transID' = transID /\ (Away => Away')
  <2>1. /\ UNCHANGED <<iu, transID, loopApresent>> /\ OthersMarked(Pms)
        /\ call[Pms].at \in {"fee", "show"}
    BY <1>9, PmsFeeSays, PmsShowSays DEF ids, loop
  <2> QED
    BY <1>0, <1>a, <2>1
<1>10. CASE OtherSteps
  BY <1>7, <1>8, <1>9, <1>10 DEF OtherSteps
<1> QED
  BY <1>1, <1>2, <1>3, <1>4, <1>5, <1>6, <1>7, <1>10, StepsAre

\* No row has an id that is only given out now.
LEMMA NothingOfTheNewRound ==
  ASSUME Typed, Numbered, NEW t \in Threads, SendTransID(t)
  PROVE  /\ ~Closed(transID)' /\ ~Ordered(transID)'
         /\ \A q \in pmsAsked' : q.id # transID'
<1>1. /\ transID' = round + 1 /\ round \in Nat /\ UNCHANGED <<records, orders, pmsAsked>>
  BY SendSays DEF books
<1>2. ASSUME NEW i \in 1..Len(records) PROVE records[i].round # round + 1
  <2>1. records[i] \in Rows /\ records[i].round <= round
    BY DEF Typed, BooksTyped, Numbered, IdsAreGivenOut
  <2> QED
    BY <1>1, <2>1 DEF Rows
<1>3. ASSUME NEW i \in 1..Len(orders) PROVE orders[i].id # round + 1
  <2>1. orders[i] \in Orders /\ orders[i].id <= round
    BY DEF Typed, BooksTyped, Numbered, IdsAreGivenOut
  <2> QED
    BY <1>1, <2>1 DEF Orders
<1>4. ASSUME NEW q \in pmsAsked PROVE q.id # round + 1
  <2>1. q.id \in Nat /\ q.id <= round
    BY DEF Typed, ExitTyped, Numbered, IdsAreGivenOut
  <2> QED
    BY <1>1, <2>1
<1> QED
  BY <1>1, <1>2, <1>3, <1>4 DEF Closed, Ordered

LEMMA NextKeepsClosedAway ==
  ASSUME Typed, Numbered, ClosedGoesAway, [Next]_vars
  PROVE  ClosedGoesAway'
<1> SUFFICES ASSUME iu' = None, Closed(transID)' PROVE Away'
  BY DEF ClosedGoesAway
<1>1. ASSUME NEW t \in Threads, SendTransID(t) PROVE FALSE
  BY <1>1, NothingOfTheNewRound
<1>2. ASSUME iu = None, transID' = transID, Away => Away' PROVE Away'
  <2>1. records' = records
    BY <1>2, RowsStay
  <2>2. Closed(transID)
    BY <1>2, <2>1 DEF Closed
  <2> QED
    BY <1>2, <2>2 DEF ClosedGoesAway
<1> QED
  BY <1>1, <1>2, EmptyStaysAway

-----------------------------------------------------------------------------
(***************************************************************************)
(* Who can still close the round of one vehicle alone.  A call that was    *)
(* not disturbed, the question the PMS was asked, an order, a row: at most *)
(* one of them has a claim to it, and one passes it on to the next.        *)
(***************************************************************************)
Clean(t) == ~call[t].wiped /\ ~stale /\ (t = Timer => ~stray)
Works(t) == call[t].at \in {"check", "fetch", "season", "fee", "show"}
Closes(t) == call[t].at = "save" /\ call[t].kind \notin {"manual", "paid"}
Holds(t) == Clean(t) /\ (Works(t) \/ Closes(t))
IsAsked == ~stale /\ [id |-> transID, number |-> iu] \in pmsAsked

Names == Threads \cup {"asked", "ordered", "closed"}
Claim(c) ==
  \/ c \in Threads /\ Holds(c)
  \/ c = "asked" /\ IsAsked
  \/ c = "ordered" /\ Ordered(transID)
  \/ c = "closed" /\ Closed(transID)

OneClaim == \A a, b \in Names : Claim(a) /\ Claim(b) => a = b

LEMMA TheNames ==
  /\ "asked" \notin Threads /\ "ordered" \notin Threads /\ "closed" \notin Threads
  /\ \A t \in Threads : t \in Names
  BY DEF Threads, Event, Timer, Pms, Names

\* What each claim is, before the step and after it.
LEMMA ClaimsAre ==
  /\ \A t \in Threads : (Claim(t) <=> Holds(t)) /\ (Claim(t)' <=> Holds(t)')
  /\ (Claim("asked") <=> IsAsked) /\ (Claim("asked")' <=> IsAsked')
  /\ Claim("ordered") <=> Ordered(transID)
  /\ Claim("ordered")' <=> Ordered(transID)'
  /\ Claim("closed") <=> Closed(transID)
  /\ Claim("closed")' <=> Closed(transID)'
  BY TheNames DEF Claim

\* a passes its claim to b; the others have none that they did not have.
LEMMA ClaimPasses ==
  ASSUME OneClaim, NEW a \in Names, NEW b \in Names,
         \A c \in Names : c # b /\ Claim(c)' => Claim(c) /\ c # a,
         Claim(b)' => Claim(b) \/ Claim(a)
  PROVE  OneClaim'
<1> SUFFICES ASSUME NEW c \in Names, NEW d \in Names, Claim(c)', Claim(d)' PROVE c = d
  BY DEF OneClaim
<1>1. CASE c # b /\ d # b
  BY <1>1 DEF OneClaim
<1>2. CASE c = b /\ d # b
  BY <1>2 DEF OneClaim
<1>3. CASE c # b /\ d = b
  BY <1>3 DEF OneClaim
<1> QED
  BY <1>1, <1>2, <1>3

\* Nobody but b has one.
LEMMA OnlyClaim ==
  ASSUME NEW b \in Names, \A c \in Names : c # b => ~Claim(c)'
  PROVE  OneClaim'
  BY DEF OneClaim

\* The calls of the others, and those another thread has its hands in.
LEMMA OthersHold ==
  ASSUME NEW t \in Threads, NEW u \in Threads, u # t, stale => stale', stray => stray',
         OthersKept(t) \/ OthersMarked(t), Holds(u)'
  PROVE  Holds(u) /\ ~OthersMarked(t)
<1>1. ~OthersMarked(t)
  BY StaysMarked DEF Holds, Clean, Works, Closes
<1>2. call'[u] = call[u]
  BY <1>1 DEF OthersKept
<1>3. Clean(u)
  BY <1>2 DEF Holds, Clean
<1> QED
  BY <1>1, <1>2, <1>3 DEF Holds, Works, Closes

LEMMA MarkedHoldNothing ==
  ASSUME NEW t \in Threads, NEW u \in Threads, u # t, OthersMarked(t)
  PROVE  ~Holds(u)'
  BY StaysMarked DEF Holds, Clean, Works, Closes

\* A call that goes on holds what it held.
LEMMA GoesOnHolding ==
  ASSUME NEW t \in Threads, Works(t), call'[t].wiped = call[t].wiped,
         stale => stale', stray => stray', Holds(t)'
  PROVE  Holds(t)
  BY DEF Holds, Clean

\* What is asked, ordered and closed when the vehicle and its id stay.
LEMMA BooksClaim ==
  ASSUME UNCHANGED <<transID, iu>>, stale => stale'
  PROVE  /\ pmsAsked' \subseteq pmsAsked => (IsAsked' => IsAsked)
         /\ orders' = orders => (Ordered(transID)' => Ordered(transID))
         /\ records' = records => (Closed(transID)' => Closed(transID))
  BY DEF IsAsked, Ordered, Closed

LEMMA ClaimsShrink ==
  ASSUME OneClaim, NEW t \in Threads, OthersKept(t) \/ OthersMarked(t),
         stale => stale', stray => stray', Holds(t)' => Holds(t),
         IsAsked' => IsAsked, Ordered(transID)' => Ordered(transID),
         Closed(transID)' => Closed(transID)
  PROVE  OneClaim'
<1>1. \A u \in Threads : Holds(u)' => Holds(u)
  BY OthersHold
<1>2. \A c \in Names : Claim(c)' => Claim(c)
  BY <1>1, ClaimsAre DEF Names
<1> QED
  BY <1>2 DEF OneClaim

\* The event thread gives its claim away.
LEMMA EventGives ==
  ASSUME OneClaim, NEW b \in {"asked", "ordered"},
         OthersKept(Event) \/ OthersMarked(Event), ~Holds(Event)',
         stale => stale', stray => stray',
         IsAsked' => IsAsked \/ (b = "asked" /\ Holds(Event)),
         Ordered(transID)' => Ordered(transID) \/ (b = "ordered" /\ Holds(Event)),
         Closed(transID)' => Closed(transID)
  PROVE  OneClaim'
<1>0. Event \in Threads /\ Event \in Names /\ b \in Names /\ b # Event
  BY TheThreads, TheNames DEF Names
<1>1. \A u \in Threads : Holds(u)' => Holds(u) /\ u # Event
  BY <1>0, OthersHold
<1>2. \A c \in Names : c # b /\ Claim(c)' => Claim(c) /\ c # Event
  BY <1>0, <1>1, ClaimsAre, TheNames DEF Names
<1>3. Claim(b)' => Claim(b) \/ Claim(Event)
  BY <1>0, ClaimsAre
<1> QED
  BY <1>0, <1>2, <1>3, ClaimPasses

\* A row that counts is of a call that had the claim.
LEMMA NewlyClosed ==
  ASSUME Typed, NEW t \in Threads, Writes(t), call[t].at = "save", NEW id, Closed(id)'
  PROVE  Closed(id) \/ (id = transID /\ Holds(t))
<1>1. /\ Len(records) \in Nat /\ Len(records') = Len(records) + 1
      /\ \A i \in 1..Len(records) : records'[i] = records[i]
      /\ records'[Len(records) + 1].round = transID
      /\ records'[Len(records) + 1].kind = call[t].kind
      /\ call[t].wiped \/ stale \/ (t = Timer /\ stray)
           => records'[Len(records) + 1].disturbed
  BY DEF Writes, Typed, BooksTyped
<1>2. PICK i \in 1..Len(records') : records'[i].round = id /\ Counts(records'[i])
  BY DEF Closed
<1>3. CASE i \in 1..Len(records)
  BY <1>1, <1>2, <1>3 DEF Closed
<1>4. CASE i = Len(records) + 1
  <2>1. id = transID /\ ~records'[Len(records) + 1].disturbed
        /\ call[t].kind \notin {"manual", "paid"}
    BY <1>1, <1>2, <1>4 DEF Counts
  <2> QED
    BY <1>1, <2>1 DEF Holds, Clean, Closes
<1> QED
  BY <1>1, <1>3, <1>4

\* Who can hold a claim while tExit is empty.
LEMMA EmptyIsHeld ==
  ASSUME Typed, CallHasItsNumber, UsedIdGoesAway, ClosedGoesAway, iu = None
  PROVE  /\ ~Holds(Timer) /\ ~Holds(Pms) /\ ~IsAsked
         /\ Ordered(transID) \/ Closed(transID) => Away
<1>0. Timer \in Threads /\ Pms \in Threads
  BY TheThreads
<1>1. ~Holds(Timer)
  <2>1. call[Timer].at = "save" => call[Timer].kind = "noplate"
    BY DEF Typed, CallsTyped
  <2>2. call[Timer].at \notin {"check", "fetch", "season", "fee", "show"}
    BY DEF Typed, CallsTyped
  <2> QED
    BY <1>0, <2>1, <2>2 DEF Holds, Clean, Works, Closes, CallHasItsNumber, HasNumber
<1>2. ~Holds(Pms)
  <2>1. call[Pms].at = "save" => call[Pms].kind \in {"manual", "free"}
    BY DEF Typed, CallsTyped
  <2>2. call[Pms].at \notin {"check", "fetch", "season"}
    BY DEF Typed, CallsTyped
  <2> QED
    BY <1>0, <2>1, <2>2 DEF Holds, Clean, Works, Closes, CallHasItsNumber, HasNumber
<1>3. ~IsAsked
  BY TheNumbers DEF IsAsked, Typed, ExitTyped
<1> QED
  BY <1>1, <1>2, <1>3 DEF UsedIdGoesAway, ClosedGoesAway

\* The plate of the current round is checked: if nothing disturbed that, nobody
\* else has a claim.
LEMMA CheckIsOnlyClaim ==
  ASSUME Typed, CallHasItsNumber, UsedIdGoesAway, ClosedGoesAway, OneClaim, NoCards',
         [Next]_vars, NEW r \in 0..MaxRounds, NEW p \in Plain, Checks(r, p)
  PROVE  OneClaim'
<1>0. /\ Event \in Threads /\ Timer \in Threads /\ Pms \in Threads
      /\ Event # Timer /\ Event # Pms /\ Timer # Pms
      /\ stray => stray'
  BY TheThreads, StrayStays
<1>1. UNCHANGED <<transID, iu, orders, pmsAsked, records, stale>> /\ OthersKept(Event)
  BY DEF Checks, about, vehicle
<1>2. /\ IsAsked' => IsAsked
      /\ Ordered(transID)' => Ordered(transID)
      /\ Closed(transID)' => Closed(transID)
  BY <1>1, BooksClaim
<1>3. CASE ~Holds(Event)'
  BY <1>0, <1>1, <1>2, <1>3, ClaimsShrink
<1>4. CASE Holds(Event)'
  <2>1. call'[Event].at = "check" /\ call'[Event].arg = p
    BY DEF Checks, StartsAt
  <2>2. p # Card
    BY <2>1, TheNumbers DEF NoCards, Looks
  <2>3. iu = None /\ loopApresent /\ call[Event].at = "idle"
    BY <2>2 DEF Checks
  <2>4. call[Timer].at # "detect"
    BY <1>0, <1>4 DEF Checks, StartsAt, At, Holds, Clean
  <2>5. ~Away
    BY <2>3, <2>4 DEF Away
  <2>6. ~Holds(Timer) /\ ~Holds(Pms) /\ ~IsAsked /\ ~Ordered(transID) /\ ~Closed(transID)
    BY <2>3, <2>5, EmptyIsHeld
  <2>7. ~Holds(Timer)' /\ ~Holds(Pms)'
    BY <1>0, <1>1, <2>6, OthersHold
  <2>8. \A c \in Names : c # Event => ~Claim(c)'
    BY <1>2, <2>6, <2>7, ClaimsAre, TheThreads DEF Names
  <2> QED
    BY <1>0, <2>8, TheNames, OnlyClaim
<1> QED
  BY <1>3, <1>4

\* Nobody could read the plate: tExit was empty until now.
LEMMA NoPlateIsOnlyClaim ==
  ASSUME Typed, CallHasItsNumber, TimerHasVehicle, UsedIdGoesAway, ClosedGoesAway,
         OneClaim, ComesOnce, LpnTimeout
  PROVE  OneClaim'
<1>0. /\ Event \in Threads /\ Timer \in Threads /\ Pms \in Threads
      /\ Event # Timer /\ Event # Pms /\ Timer # Pms
  BY TheThreads
<1>1. /\ UNCHANGED <<transID, orders, pmsAsked, records, stale, stray>>
      /\ OthersMarked(Timer) /\ iu = None /\ iu' = NoPlate
      /\ ticks > 0 /\ call[Timer].at = "idle"
  BY NoPlateSays DEF books, ids
<1>2. ~IsAsked'
  BY <1>1, TheNumbers DEF IsAsked, Typed, ExitTyped
<1>3. ~Holds(Event)' /\ ~Holds(Pms)'
  BY <1>0, <1>1, MarkedHoldNothing
<1>4. /\ Ordered(transID)' => Ordered(transID)
      /\ Closed(transID)' => Closed(transID)
  BY <1>1 DEF Ordered, Closed
<1>5. CASE ~Holds(Timer)'
  BY <1>0, <1>1, <1>2, <1>4, <1>5, ClaimsShrink
<1>6. CASE Holds(Timer)'
  <2>1. ~stray
    BY <1>1, <1>6 DEF Holds, Clean
  <2>2. loopApresent
    BY <1>1, <2>1 DEF TimerHasVehicle
  <2>3. call[Event].at \notin {"clear", "detect"}
    BY <1>0 DEF LpnTimeout, LongAgo
  <2>4. call[Event].at # "come"
    BY <1>1 DEF ComesOnce, Untouched
  <2>5. ~Away
    BY <1>1, <2>2, <2>3, <2>4 DEF Away
  <2>6. ~Ordered(transID) /\ ~Closed(transID)
    BY <1>1, <2>5, EmptyIsHeld
  <2>7. \A c \in Names : c # Timer => ~Claim(c)'
    BY <1>2, <1>3, <1>4, <2>6, ClaimsAre, TheThreads DEF Names
  <2> QED
    BY <1>0, <2>7, TheNames, OnlyClaim
<1> QED
  BY <1>5, <1>6

LEMMA ClaimsStayOne ==
  ASSUME Typed, Settled, TimerHasVehicle, WorkIsClean, ClosedGoesAway, OneVehicle,
         OneVehicle', OneClaim, [Next]_vars
  PROVE  OneClaim'
<1> USE DEF Settled
<1>0. /\ Event \in Threads /\ Timer \in Threads /\ Pms \in Threads
      /\ Event # Timer /\ Event # Pms /\ Timer # Pms
      /\ stray => stray'
  BY TheThreads, StrayStays
<1>1. CASE Rests
  <2>1. UNCHANGED <<call, transID, iu, orders, pmsAsked, records, stale>>
    BY <1>1 DEF Rests, about, vehicle
  <2>2. OthersKept(Event) /\ (Holds(Event)' => Holds(Event))
    BY <1>0, <2>1 DEF OthersKept, Holds, Clean, Works, Closes
  <2> QED
    BY <1>0, <2>1, <2>2, BooksClaim, ClaimsShrink
<1>2. ASSUME NEW t \in Threads, Moves(t) PROVE OneClaim'
  <2>1. UNCHANGED <<transID, iu, orders, pmsAsked, records, stale>> /\ OthersKept(t)
    BY <1>2 DEF Moves, about, vehicle
  <2>2. ~Holds(t)'
    BY <1>2 DEF Moves, Holds, Works, Closes
  <2> QED
    BY <1>0, <2>1, <2>2, BooksClaim, ClaimsShrink
<1>3. ASSUME NEW t \in Threads, Clears(t) PROVE OneClaim'
  <2>1. /\ UNCHANGED <<transID, orders, pmsAsked, records>> /\ OthersMarked(t) /\ iu' = None
        /\ call'[t].at \in {"detect", "come", "idle"}
    BY <1>3 DEF Clears
  <2>2. \A u \in Threads : ~Holds(u)'
    BY <2>1, MarkedHoldNothing DEF Holds, Works, Closes
  <2>3. ~IsAsked'
    BY <2>1, TheNumbers DEF IsAsked, Typed, ExitTyped
  <2>4. /\ Ordered(transID)' => Ordered(transID)
        /\ Closed(transID)' => Closed(transID)
    BY <2>1 DEF Ordered, Closed
  <2>5. \A c \in Names : Claim(c)' => Claim(c)
    BY <2>2, <2>3, <2>4, ClaimsAre DEF Names
  <2> QED
    BY <2>5 DEF OneClaim
<1>4. ASSUME NEW t \in Threads, SaveExit(t) PROVE OneClaim'
  <2>1. /\ UNCHANGED <<transID, iu, orders, pmsAsked, stale>> /\ OthersKept(t)
        /\ call[t].at = "save" /\ call'[t].at \in {"open", "saved", "failed"}
        /\ records' = records \/ Writes(t)
    BY <1>4, SaveSays DEF vehicle, ids, MovesTo
  <2>2. ~Holds(t)' /\ (IsAsked' => IsAsked) /\ (Ordered(transID)' => Ordered(transID))
    BY <2>1, BooksClaim DEF Holds, Works, Closes
  <2>3. CASE records' = records
    BY <1>0, <2>1, <2>2, <2>3, BooksClaim, ClaimsShrink
  <2>4. CASE Writes(t)
    <3>1. Closed(transID)' => Closed(transID) \/ Holds(t)
      <4>1. ASSUME NEW id, id = transID, Closed(id)' PROVE Closed(id) \/ Holds(t)
        BY <2>1, <2>4, <4>1, NewlyClosed
      <4>2. Closed(transID)' => \E id : id = transID /\ Closed(id)'
        BY <2>1 DEF Closed
      <4> QED
        BY <4>1, <4>2
    <3>2. \A u \in Threads : Holds(u)' => Holds(u) /\ u # t
      BY <1>0, <2>1, <2>2, OthersHold
    <3>3. \A c \in Names : c # "closed" /\ Claim(c)' => Claim(c) /\ c # t
      BY <2>2, <3>2, ClaimsAre, TheNames DEF Names
    <3>4. Claim("closed")' => Claim("closed") \/ Claim(t)
      BY <3>1, ClaimsAre
    <3>5. "closed" \in Names /\ t \in Names
      BY TheNames DEF Names
    <3> QED
      BY <3>3, <3>4, <3>5, ClaimPasses
  <2> QED
    BY <2>1, <2>3, <2>4
<1>5. ASSUME NEW t \in Threads, SendTransID(t) PROVE OneClaim'
  <2>1. OthersMarked(t) /\ call'[t].at = "idle"
    BY <1>5, SendSays
  <2>2. \A u \in Threads : ~Holds(u)'
    BY <2>1, MarkedHoldNothing DEF Holds, Works, Closes
  <2>3. ~IsAsked' /\ ~Ordered(transID)' /\ ~Closed(transID)'
    BY <1>5, NothingOfTheNewRound DEF IsAsked
  <2>4. \A c \in Names : ~Claim(c)'
    BY <2>2, <2>3, ClaimsAre DEF Names
  <2> QED
    BY <2>4 DEF OneClaim
<1>6. ASSUME NEW r \in 0..MaxRounds, NEW p \in Plain, Checks(r, p) PROVE OneClaim'
  BY <1>0, <1>6, CheckIsOnlyClaim DEF OneVehicle
<1>7. ASSUME NEW q \in pmsAsked, LearnsEntry(q) PROVE OneClaim'
  <2>1. UNCHANGED <<transID, iu, orders, records>> /\ pmsAsked' = pmsAsked \ {q}
    BY <1>7 DEF LearnsEntry
  <2>2. CASE UNCHANGED <<entryOf, noEntry, call, stale>>
    <3>1. OthersKept(Event) /\ (Holds(Event)' => Holds(Event))
      BY <1>0, <2>2 DEF OthersKept, Holds, Clean, Works, Closes
    <3> QED
      BY <1>0, <2>1, <2>2, <3>1, BooksClaim, ClaimsShrink
  <2>3. CASE /\ StartsAt(Pms, "fee", q.number, "none") /\ OthersMarked(Pms)
             /\ entryOf' = q.number /\ noEntry' = 0
             /\ stale \/ q # [id |-> transID, number |-> iu] => stale'
    <3>1. \A u \in Threads : u # Pms => ~Holds(u)'
      BY <1>0, <2>3, MarkedHoldNothing
    <3>2. ~IsAsked'
      BY <2>1, <2>3 DEF IsAsked
    <3>3. Holds(Pms)' => IsAsked
      BY <2>3 DEF IsAsked, Holds, Clean
    <3>4. /\ Ordered(transID)' => Ordered(transID)
          /\ Closed(transID)' => Closed(transID)
      BY <2>1 DEF Ordered, Closed
    <3>5. \A c \in Names : c # Pms /\ Claim(c)' => Claim(c) /\ c # "asked"
      BY <3>1, <3>2, <3>4, ClaimsAre DEF Names
    <3>6. Claim(Pms)' => Claim(Pms) \/ Claim("asked")
      BY <1>0, <3>3, ClaimsAre
    <3>7. Pms \in Names /\ "asked" \in Names
      BY <1>0, TheNames DEF Names
    <3> QED
      BY <3>5, <3>6, <3>7, ClaimPasses
  <2> QED
    BY <1>7, <2>2, <2>3 DEF LearnsEntry
<1>8. CASE Fetches
  <2>1. /\ UNCHANGED <<transID, orders, pmsAsked, records>> /\ OthersMarked(Event)
        /\ call[Event].at = "check" /\ call'[Event].wiped = call[Event].wiped
        /\ (stale => stale') /\ (call[Event].wiped => stale') /\ iu' = call[Event].arg
    BY <1>8 DEF Fetches, MovesTo, StaleIfWiped
  <2>2. Holds(Event)' => Holds(Event)
    BY <1>0, <2>1, GoesOnHolding DEF Works
  <2>3. ASSUME IsAsked' PROVE FALSE
    <3>1. ~stale /\ ~call[Event].wiped /\ call[Event].arg \in Vehicles
      BY <2>1, <2>3 DEF IsAsked, OneVehicle, NoCards, Looks
    <3>2. iu = None /\ loopApresent /\ Nobody
      BY <2>1, <3>1 DEF CheckIsSeen
    <3>3. ~Away
      BY <1>0, <2>1, <3>2 DEF Away, Nobody
    <3>4. Asked(transID)
      <4>1. PICK q \in pmsAsked : q = [id |-> transID, number |-> iu']
        BY <2>1, <2>3 DEF IsAsked
      <4> QED
        BY <4>1 DEF Asked
    <3> QED
      BY <3>1, <3>2, <3>3, <3>4 DEF UsedIdGoesAway
  <2>4. /\ Ordered(transID)' => Ordered(transID)
        /\ Closed(transID)' => Closed(transID)
    BY <2>1 DEF Ordered, Closed
  <2> QED
    BY <1>0, <2>1, <2>2, <2>3, <2>4, ClaimsShrink
<1>9. ASSUME NEW t \in Threads, Works(t), OthersKept(t) \/ OthersMarked(t),
             UNCHANGED <<transID, iu, orders, pmsAsked, records>>, stale => stale',
             call'[t].wiped = call[t].wiped \/ ~Holds(t)'
      PROVE  OneClaim'
  BY <1>0, <1>9, BooksClaim, GoesOnHolding, ClaimsShrink
<1>10. CASE WaitForCard
  <2>1. /\ UNCHANGED <<transID, iu, orders, pmsAsked, records>> /\ (stale => stale')
        /\ OthersMarked(Event) /\ call[Event].at = "check" /\ call'[Event] = call[Event]
    BY <1>10, WaitForCardSays DEF vehicle, ids, books, StaleIfWiped
  <2> QED
    BY <1>0, <1>9, <2>1 DEF Works
<1>11. CASE FetchEntryinfo \/ SeasonParking \/ CalculateFee
  <2>1. /\ UNCHANGED <<transID, iu, orders, pmsAsked, records>> /\ (stale => stale')
        /\ OthersMarked(Event) /\ call[Event].at \in {"fetch", "season"}
        /\ call'[Event].wiped = call[Event].wiped
    BY <1>11, FetchSays, SeasonSays, CalculateSays
       DEF ids, books, StaleIfWiped, MovesTo, MovesToSave
  <2> QED
    BY <1>0, <1>9, <2>1 DEF Works
<1>12. CASE ReceivedEntryRecord \/ ShowFeeForPms
  <2>1. /\ UNCHANGED <<transID, iu, orders, pmsAsked, records>> /\ (stale => stale')
        /\ OthersMarked(Pms) /\ call[Pms].at \in {"fee", "show"}
        /\ call'[Pms].wiped = call[Pms].wiped \/ call'[Pms].at = "idle"
    BY <1>12, PmsFeeSays, PmsShowSays DEF ids, books, StaleIfWiped, MovesToSave
  <2>2. call'[Pms].at = "idle" => ~Holds(Pms)'
    BY DEF Holds, Works, Closes
  <2> QED
    BY <1>0, <1>9, <2>1, <2>2 DEF Works
\* An order is placed under the id.
<1>13. ASSUME NEW amount, Requests(amount), call[Event].at \in {"check", "show"},
              call'[Event].at = "idle", OthersKept(Event) \/ OthersMarked(Event),
              UNCHANGED <<transID, iu, pmsAsked, records>>, stale => stale'
       PROVE  OneClaim'
  <2>1. ~Holds(Event)'
    BY <1>13 DEF Holds, Works, Closes
  <2>2. Ordered(transID)' => Ordered(transID) \/ Holds(Event)
    <3>1. Ordered(transID)' => Ordered(transID) \/ (~call[Event].wiped /\ ~stale)
      <4>1. ASSUME NEW id, id = transID, Ordered(id)'
            PROVE  Ordered(id) \/ (~call[Event].wiped /\ ~stale)
        BY <1>13, <4>1, NewlyOrdered
      <4>2. Ordered(transID)' => \E id : id = transID /\ Ordered(id)'
        BY <1>13 DEF Ordered
      <4> QED
        BY <4>1, <4>2
    <3> QED
      BY <1>0, <1>13, <3>1 DEF Holds, Clean, Works
  <2> QED
    BY <1>0, <1>13, <2>1, <2>2, BooksClaim, EventGives
<1>14. CASE CheckCardOK
  <2>1. /\ UNCHANGED <<transID, iu, pmsAsked, records>> /\ call[Event].at = "check"
    BY <1>14, CheckCardSays DEF ids
  <2>2. CASE /\ MovesToSave(Event, "card") /\ OthersMarked(Event)
             /\ StaleIfWiped(Event) /\ due' = None /\ UNCHANGED <<orders, owed>>
    BY <1>0, <1>9, <2>1, <2>2 DEF Works, MovesToSave, StaleIfWiped
  <2>3. CASE /\ call'[Event].at = "idle" /\ OthersKept(Event) /\ UNCHANGED <<due, stale>>
             /\ UNCHANGED <<orders, owed>>
    <3>1. ~Holds(Event)'
      BY <2>3 DEF Holds, Works, Closes
    <3> QED
      BY <1>0, <1>9, <2>1, <2>3, <3>1 DEF Works
  <2>4. CASE /\ call'[Event].at = "idle" /\ OthersKept(Event) /\ UNCHANGED <<due, stale>>
             /\ due # None /\ Requests(due)
    BY <1>13, <2>1, <2>4
  <2> QED
    BY <1>14, <2>2, <2>3, <2>4, CheckCardSays
<1>15. CASE ShowFee
  <2>1. /\ UNCHANGED <<transID, iu, pmsAsked, records>> /\ call[Event].at = "show"
        /\ OthersMarked(Event) /\ (stale => stale')
    BY <1>15, ShowSays DEF ids, StaleIfWiped
  <2>2. CASE MovesToSave(Event, "free") /\ orders' = orders
    BY <1>0, <1>9, <2>1, <2>2 DEF Works, MovesToSave
  <2>3. CASE Requests(call[Event].fee) /\ call'[Event].at = "idle"
    BY <1>13, <2>1, <2>3
  <2> QED
    BY <1>15, <2>2, <2>3, ShowSays
\* The PMS is asked under the id.
<1>16. CASE AskPms
  <2>1. /\ UNCHANGED <<transID, iu, orders, records, stale>> /\ OthersKept(Event)
        /\ call[Event].at = "season" /\ call'[Event].at = "idle"
        /\ pmsAsked' = pmsAsked \cup {[id |-> transID, number |-> call[Event].arg]}
    BY <1>16, AskSays DEF ids, vehicle
  <2>2. ~Holds(Event)'
    BY <2>1 DEF Holds, Works, Closes
  <2>3. ASSUME IsAsked' PROVE IsAsked \/ Holds(Event)
    <3>1. CASE [id |-> transID, number |-> iu] \in pmsAsked
      BY <2>1, <2>3, <3>1 DEF IsAsked
    <3>2. CASE [id |-> transID, number |-> iu] = [id |-> transID, number |-> call[Event].arg]
      <4>1. iu = call[Event].arg
        BY <3>2
      <4>2. Fresh
        BY <2>1, <2>3, <4>1 DEF Fresh, IsAsked, OneVehicle, NoCards, Looks
      <4>3. ~call[Event].wiped /\ ~stale
        BY <2>1, <4>2 DEF WorkIsClean, EventPays, Fresh
      <4> QED
        BY <1>0, <2>1, <4>3 DEF Holds, Clean, Works
    <3> QED
      BY <2>1, <2>3, <3>1, <3>2 DEF IsAsked
  <2> QED
    BY <1>0, <2>1, <2>2, <2>3, BooksClaim, EventGives
<1>17. CASE OtherSteps
  <2>1. CASE LpnTimeout
    BY <2>1, NoPlateIsOnlyClaim DEF OneVehicle
  <2> QED
    BY <1>10, <1>11, <1>12, <1>14, <1>15, <1>16, <1>17, <2>1 DEF OtherSteps
<1> QED
  BY <1>1, <1>2, <1>3, <1>4, <1>5, <1>6, <1>7, <1>8, <1>17, StepsAre

LEMMA NextKeepsOneClaim ==
  ASSUME Typed, Settled, TimerHasVehicle, WorkIsClean, ClosedGoesAway,
         Alone => OneVehicle, Alone => OneClaim, [Next]_vars
  PROVE  (Alone => OneClaim)'
<1> SUFFICES ASSUME Alone' PROVE OneClaim'
  OBVIOUS
<1>1. Alone
  BY AloneSteps
<1>2. OneVehicle'
  BY NextKeepsOneVehicle DEF Settled
<1> QED
  BY <1>1, <1>2, ClaimsStayOne

-----------------------------------------------------------------------------
(***************************************************************************)
(* The books of one vehicle alone: the rows that count are of different    *)
(* rounds, no round is closed and asks for a payment undisturbed, and a    *)
(* payment is asked for once.  Orders come from rounds, never from the     *)
(* empty id.                                                               *)
(***************************************************************************)
ClosedByOne ==
  \A i, j \in 1..Len(records) :
    i # j /\ Counts(records[i]) /\ Counts(records[j])
      => records[i].round # records[j].round
OnlyOnce ==
  /\ ClosedByOne
  /\ \A id \in 0..MaxRounds : ~(Ordered(id) /\ Closed(id))
  /\ AskedOnce /\ ~Ordered(0)

\* A payment that is written down had an order.
PaidHaveOrders ==
  \A i \in 1..Len(records) : records[i].kind = "paid" => Placed(records[i].order)

\* Orders are placed by the event thread, and no row is written meanwhile.
LEMMA OrdersAre ==
  ASSUME Typed, [Next]_vars
  PROVE  \/ orders' = orders
         \/ /\ call[Event].at \in {"check", "show"} /\ records' = records
            /\ \E amount : Requests(amount)
<1>1. CASE Rests
  BY <1>1 DEF Rests, about
<1>2. ASSUME NEW t \in Threads, Moves(t) \/ Clears(t) PROVE orders' = orders
  BY <1>2 DEF Moves, Clears, about
<1>3. ASSUME NEW t \in Threads, SaveExit(t) PROVE orders' = orders
  BY <1>3, SaveSays
<1>4. ASSUME NEW t \in Threads, SendTransID(t) PROVE orders' = orders
  BY <1>4, SendSays DEF books
<1>5. ASSUME NEW r \in 0..MaxRounds, NEW p \in Plain, Checks(r, p) PROVE orders' = orders
  BY <1>5 DEF Checks, about
<1>6. ASSUME NEW q \in pmsAsked, LearnsEntry(q) PROVE orders' = orders
  BY <1>6 DEF LearnsEntry
<1>7. CASE Fetches
  BY <1>7 DEF Fetches
<1>8. CASE CheckCardOK
  BY <1>8, CheckCardSays
<1>9. CASE ShowFee
  BY <1>9, ShowSays
<1>10. CASE OtherSteps
  BY <1>8, <1>9, <1>10, WaitForCardSays, FetchSays, SeasonSays, CalculateSays,
     AskSays, NoPlateSays, PmsFeeSays, PmsShowSays DEF OtherSteps, books
<1> QED
  BY <1>1, <1>2, <1>3, <1>4, <1>5, <1>6, <1>7, <1>10, StepsAre

\* Who has the claim to a round finds it neither ordered nor closed.
LEMMA HolderIsFirst ==
  ASSUME OneClaim, NEW t \in Threads, Holds(t)
  PROVE  ~Ordered(transID) /\ ~Closed(transID)
<1>1. /\ t \in Names /\ "ordered" \in Names /\ "closed" \in Names
      /\ t # "ordered" /\ t # "closed"
  BY TheNames DEF Names
<1>2. ~Claim("ordered") /\ ~Claim("closed")
  BY <1>1, ClaimsAre DEF OneClaim
<1> QED
  BY <1>2, ClaimsAre

\* An order that is placed undisturbed is the first of a round not closed yet.
LEMMA NewOrderIsFirst ==
  ASSUME Typed, CallHasItsNumber, NumberIsSeen, CheckIsSeen, NoCards, OneClaim,
         call[Event].at \in {"check", "show"}, ~call[Event].wiped, ~stale
  PROVE  transID # 0 /\ ~Ordered(transID) /\ ~Closed(transID)
<1>0. Event \in Threads /\ Event # Timer
  BY TheThreads
<1>1. Holds(Event)
  BY <1>0 DEF Holds, Clean, Works
<1>2. call[Event].arg \in Vehicles
  BY DEF NoCards, Looks
<1>3. transID \in Rounds
  <2>1. CASE call[Event].at = "check"
    BY <1>2, <2>1 DEF CheckIsSeen
  <2>2. CASE call[Event].at = "show"
    <3>1. iu \in Vehicles
      BY <1>0, <1>2, <2>2, WorksForItsNumber
    <3> QED
      BY <3>1 DEF NumberIsSeen, Fresh
  <2> QED
    BY <2>1, <2>2
<1>4. transID # 0
  BY <1>3 DEF Rounds
<1> QED
  BY <1>0, <1>1, <1>4, HolderIsFirst

\* A new order asks for the payment of its round alone.
LEMMA OrderKeepsOnce ==
  ASSUME Typed, CallHasItsNumber, NumberIsSeen, CheckIsSeen, NoCards, OneClaim, OnlyOnce,
         call[Event].at \in {"check", "show"}, records' = records,
         NEW amount, Requests(amount), Typed'
  PROVE  OnlyOnce'
<1>1. ASSUME ~call[Event].wiped, ~stale
      PROVE  transID # 0 /\ ~Ordered(transID) /\ ~Closed(transID)
  BY <1>1, NewOrderIsFirst
<1>2. ASSUME NEW id, Ordered(id)'
      PROVE  \/ Ordered(id)
             \/ id = transID /\ transID # 0 /\ ~Closed(transID)
  BY <1>1, <1>2, NewlyOrdered
<1>3. ClosedByOne' /\ \A id : Closed(id)' => Closed(id)
  BY DEF OnlyOnce, ClosedByOne, Closed
<1>4. ASSUME NEW id \in 0..MaxRounds, Ordered(id)', Closed(id)' PROVE FALSE
  BY <1>2, <1>3, <1>4 DEF OnlyOnce
<1>5. ~Ordered(0)'
  BY <1>2 DEF OnlyOnce
<1>6. AskedOnce'
  <2> SUFFICES ASSUME NEW i \in DOMAIN orders', NEW j \in DOMAIN orders', i # j,
                      orders'[i].id = orders'[j].id,
                      ~orders'[i].disturbed, ~orders'[j].disturbed
               PROVE  FALSE
    BY DEF AskedOnce
  <2>1. /\ DOMAIN orders = 1..Len(orders) /\ DOMAIN orders' = 1..Len(orders')
        /\ Len(orders) \in Nat
    BY DEF Typed, BooksTyped
  <2>2. /\ Len(orders') = Len(orders) + 1
        /\ \A k \in 1..Len(orders) : orders'[k] = orders[k]
        /\ orders'[Len(orders) + 1].id = transID
        /\ call[Event].wiped \/ stale => orders'[Len(orders) + 1].disturbed
    BY DEF Requests
  <2>3. ASSUME NEW k \in 1..Len(orders), orders'[k].id = transID, ~orders'[k].disturbed,
               ~orders'[Len(orders) + 1].disturbed
        PROVE  FALSE
    <3>1. Ordered(transID)
      BY <2>2, <2>3 DEF Ordered
    <3> QED
      BY <1>1, <2>2, <2>3, <3>1
  <2>4. CASE i \in 1..Len(orders) /\ j \in 1..Len(orders)
    BY <2>1, <2>2, <2>4 DEF OnlyOnce, AskedOnce
  <2>5. CASE i = Len(orders) + 1 /\ j \in 1..Len(orders)
    BY <2>2, <2>3, <2>5
  <2>6. CASE i \in 1..Len(orders) /\ j = Len(orders) + 1
    BY <2>2, <2>3, <2>6
  <2> QED
    BY <2>1, <2>2, <2>4, <2>5, <2>6
<1> QED
  BY <1>3, <1>4, <1>5, <1>6 DEF OnlyOnce

\* A new row that counts is the first of its round, and nothing was asked for.
LEMMA RowKeepsOnce ==
  ASSUME Typed, OneClaim, OnlyOnce, orders' = orders,
         NEW t \in Threads, Writes(t), call[t].at = "save"
  PROVE  OnlyOnce'
<1>1. /\ Len(records) \in Nat /\ Len(records') = Len(records) + 1
      /\ \A i \in 1..Len(records) : records'[i] = records[i]
      /\ records'[Len(records) + 1].round = transID
      /\ records'[Len(records) + 1].kind = call[t].kind
      /\ call[t].wiped \/ stale \/ (t = Timer /\ stray)
           => records'[Len(records) + 1].disturbed
  BY DEF Writes, Typed, BooksTyped
<1>2. \A id : Ordered(id)' => Ordered(id)
  BY DEF Ordered
<1>3. AskedOnce' /\ ~Ordered(0)'
  BY <1>2 DEF OnlyOnce, AskedOnce
<1>4. ASSUME NEW id \in 0..MaxRounds, Ordered(id)', Closed(id)' PROVE FALSE
  <2>1. Ordered(id) /\ ~Closed(id)
    BY <1>2, <1>4 DEF OnlyOnce
  <2>2. id = transID /\ Holds(t)
    BY <1>4, <2>1, NewlyClosed
  <2> QED
    BY <2>1, <2>2, HolderIsFirst
<1>5. ASSUME Counts(records'[Len(records) + 1]),
             NEW i \in 1..Len(records), Counts(records[i]), records[i].round = transID
      PROVE  FALSE
  <2>1. Holds(t)
    BY <1>1, <1>5 DEF Counts, Holds, Clean, Closes
  <2>2. Closed(transID)
    BY <1>5 DEF Closed
  <2> QED
    BY <2>1, <2>2, HolderIsFirst
<1>6. ClosedByOne'
  <2> SUFFICES ASSUME NEW i \in 1..Len(records'), NEW j \in 1..Len(records'), i # j,
                      Counts(records'[i]), Counts(records'[j]),
                      records'[i].round = records'[j].round
               PROVE  FALSE
    BY DEF ClosedByOne, Counts
  <2>1. CASE i \in 1..Len(records) /\ j \in 1..Len(records)
    BY <1>1, <2>1 DEF OnlyOnce, ClosedByOne
  <2>2. CASE i = Len(records) + 1 /\ j \in 1..Len(records)
    BY <1>1, <1>5, <2>2
  <2>3. CASE i \in 1..Len(records) /\ j = Len(records) + 1
    BY <1>1, <1>5, <2>3
  <2> QED
    BY <1>1, <2>1, <2>2, <2>3
<1> QED
  BY <1>3, <1>4, <1>6 DEF OnlyOnce

LEMMA NextKeepsOnlyOnce ==
  ASSUME Typed, Settled, Alone => OneVehicle, Alone => OneClaim, Alone => OnlyOnce,
         [Next]_vars
  PROVE  (Alone => OnlyOnce)'
<1> SUFFICES ASSUME Alone' PROVE OnlyOnce'
  OBVIOUS
<1>1. OneVehicle /\ OneClaim /\ OnlyOnce /\ Typed'
  BY AloneSteps, NextKeepsTyped
<1>2. CASE records' = records /\ orders' = orders
  <2>1. /\ ClosedByOne' /\ \A id : (Closed(id)' => Closed(id)) /\ (Ordered(id)' => Ordered(id))
    BY <1>1, <1>2 DEF OnlyOnce, ClosedByOne, Closed, Ordered
  <2>2. AskedOnce'
    BY <1>1, <1>2 DEF OnlyOnce, AskedOnce
  <2> QED
    BY <1>1, <2>1, <2>2 DEF OnlyOnce
<1>3. CASE orders' # orders
  <2>1. PICK amount : Requests(amount)
    BY <1>3, OrdersAre
  <2>2. call[Event].at \in {"check", "show"} /\ records' = records
    BY <1>3, OrdersAre
  <2> QED
    BY <1>1, <2>1, <2>2, OrderKeepsOnce DEF Settled, OneVehicle
<1>4. CASE records' # records
  <2>1. PICK t \in Threads : Writes(t) /\ call[t].at = "save" /\ orders' = orders
    BY <1>4, RowsStay
  <2> QED
    BY <1>1, <2>1, RowKeepsOnce
<1> QED
  BY <1>2, <1>3, <1>4

LEMMA NextKeepsPaidOrders ==
  ASSUME Typed, Numbered, PaidHaveOrders, [Next]_vars
  PROVE  PaidHaveOrders'
<1>1. \A id \in 0..MaxRounds : Placed(id) => Placed(id)'
  BY NextDoesBooks, OrdersStay DEF BookStep
<1>2. ASSUME NEW i \in 1..Len(records) PROVE records[i].order \in 0..MaxRounds
  <2>1. records[i] \in Rows
    BY DEF Typed, BooksTyped
  <2> QED
    BY <2>1 DEF Rows
<1>3. CASE records' = records
  <2> SUFFICES ASSUME NEW i \in 1..Len(records), records[i].kind = "paid"
               PROVE  Placed(records[i].order)'
    BY <1>3 DEF PaidHaveOrders, Placed
  <2>1. PICK id \in 0..MaxRounds : id = records[i].order
    BY <1>2
  <2>2. Placed(id)'
    BY <1>1, <2>1 DEF PaidHaveOrders
  <2> QED
    BY <1>3, <2>1, <2>2 DEF Placed
<1>4. ASSUME NEW t \in Threads, Writes(t), call[t].at = "save" PROVE PaidHaveOrders'
  <2>1. /\ Len(records) \in Nat /\ Len(records') = Len(records) + 1
        /\ \A i \in 1..Len(records) : records'[i] = records[i]
        /\ records'[Len(records) + 1].kind = call[t].kind
        /\ records'[Len(records) + 1].order = call[t].order
    BY <1>4 DEF Writes, Typed, BooksTyped
  <2>2. call[t].order \in 0..MaxRounds /\ (call[t].kind = "paid" => t = Event)
    BY <1>4, TheThreads DEF Typed, CallsTyped, Calls, Threads
  <2>3. call[t].kind = "paid" => Placed(call[t].order)
    BY <1>4, <2>2 DEF Numbered, ResultsAreOfOrders, Pays
  <2>4. ASSUME NEW i \in 1..Len(records'), records'[i].kind = "paid"
        PROVE  \E id \in 0..MaxRounds : id = records'[i].order /\ Placed(id)
    <3>1. CASE i \in 1..Len(records)
      BY <1>2, <2>1, <2>4, <3>1 DEF PaidHaveOrders
    <3>2. CASE i = Len(records) + 1
      BY <2>1, <2>2, <2>3, <2>4, <3>2
    <3> QED
      BY <2>1, <3>1, <3>2
  <2>5. ASSUME NEW i \in 1..Len(records'), records'[i].kind = "paid"
        PROVE  \E id \in 0..MaxRounds : id = records'[i].order /\ Placed(id)'
    BY <1>1, <2>4, <2>5
  <2> QED
    BY <2>5 DEF PaidHaveOrders, Placed
<1> QED
  BY <1>3, <1>4, RowsStay

-----------------------------------------------------------------------------
\* Everything the last promise rests on.
RoundsSettled ==
  /\ Settled /\ TimerHasVehicle /\ WorkIsClean /\ ClosedGoesAway /\ PaidHaveOrders
  /\ Alone => OneVehicle
  /\ Alone => OneClaim
  /\ Alone => OnlyOnce

LEMMA InitRoundsSettled == Init => RoundsSettled
<1> SUFFICES ASSUME Init PROVE RoundsSettled
  OBVIOUS
<1>0. /\ Event \in Threads /\ Timer \in Threads /\ Pms \in Threads
      /\ \A t \in Threads : call[t] = Idle
      /\ Idle.at = "idle"
  BY IdleIsACall, TheThreads DEF Init
<1>1. /\ \A t \in Threads : call[t].at = "idle"
      /\ orders = <<>> /\ records = <<>> /\ queue = <<>> /\ pmsAsked = {} /\ Len(orders) = 0
      /\ Len(records) = 0 /\ Len(queue) = 0
      /\ round = 0 /\ onA = None /\ onC = None /\ ~armed /\ ticks = 0 /\ ~loopApresent
  BY <1>0 DEF Init
<1>2. TimerHasVehicle /\ WorkIsClean
  BY <1>0, <1>1 DEF TimerHasVehicle, WorkIsClean, EventPays
<1>3. \A id : ~Closed(id) /\ ~Ordered(id)
  BY <1>1 DEF Closed, Ordered
<1>4. ClosedGoesAway /\ PaidHaveOrders
  BY <1>1, <1>3 DEF ClosedGoesAway, PaidHaveOrders
<1>5. ComesOnce
  BY <1>0, <1>1 DEF ComesOnce, Untouched
<1>6. LeavesAfterwards
  BY <1>0, <1>1, TheNumbers DEF LeavesAfterwards
<1>7. NoCards
  BY <1>0, <1>1 DEF NoCards, Waiting, Looks
<1>8. OneClaim
  <2>1. \A t \in Threads : ~Holds(t)
    BY <1>1 DEF Holds, Works, Closes
  <2>2. ~IsAsked
    BY <1>1 DEF IsAsked
  <2>3. \A c \in Names : ~Claim(c)
    BY <1>3, <2>1, <2>2, ClaimsAre DEF Names
  <2> QED
    BY <2>3 DEF OneClaim
<1>9. OnlyOnce
  BY <1>1, <1>3 DEF OnlyOnce, ClosedByOne, AskedOnce
<1> QED
  BY <1>2, <1>4, <1>5, <1>6, <1>7, <1>8, <1>9, InitSettled DEF RoundsSettled, OneVehicle

LEMMA NextKeepsRoundsSettled ==
  ASSUME Typed, RoundsSettled, [Next]_vars
  PROVE  RoundsSettled'
<1> USE DEF RoundsSettled
<1>1. Settled'
  BY NextKeepsSettled
<1>2. TimerHasVehicle'
  BY NextKeepsVehicle
<1>3. WorkIsClean' /\ ClosedGoesAway' /\ PaidHaveOrders'
  BY NextKeepsWorkClean, NextKeepsClosedAway, NextKeepsPaidOrders DEF Settled
<1>4. (Alone => OneVehicle)'
  BY NextKeepsOneVehicle DEF Settled
<1>5. (Alone => OneClaim)'
  BY NextKeepsOneClaim
<1>6. (Alone => OnlyOnce)'
  BY NextKeepsOnlyOnce
<1> QED
  BY <1>1, <1>2, <1>3, <1>4, <1>5, <1>6

\* A payment that nobody disturbed has an order that nobody disturbed.
LEMMA PaidIsOrdered ==
  ASSUME Typed, PaidHaveOrders, NEW i \in 1..Len(records), records[i].kind = "paid",
         ~Disturbed(records[i])
  PROVE  Ordered(records[i].order)
<1>1. PICK k \in 1..Len(orders) : orders[k].id = records[i].order
  BY DEF PaidHaveOrders, Placed
<1>2. k \in DOMAIN orders
  BY DEF Typed, BooksTyped
<1>3. ~orders[k].disturbed
  BY <1>1, <1>2 DEF Disturbed
<1> QED
  BY <1>1, <1>3 DEF Ordered

LEMMA SettledRoundsExitOnce == Typed /\ RoundsSettled => OneExitPerRound
<1> SUFFICES ASSUME Typed, RoundsSettled, disturbances = 0 PROVE ClosedOnce /\ AskedOnce
  BY DEF OneExitPerRound
<1>1. OnlyOnce /\ PaidHaveOrders
  BY DEF RoundsSettled, Alone
<1> SUFFICES ASSUME NEW i \in DOMAIN records, NEW j \in DOMAIN records, i # j,
                    records[i].round = records[j].round,
                    "manual" \notin {records[i].kind, records[j].kind},
                    \A r \in {records[i], records[j]} : r.order \in {0, r.round},
                    records[i].order = records[j].order => records[i].order = 0,
                    ~Disturbed(records[i]), ~Disturbed(records[j])
             PROVE  FALSE
  BY <1>1 DEF ClosedOnce, OnlyOnce
<1>2. /\ i \in 1..Len(records) /\ j \in 1..Len(records)
      /\ records[i].round \in 0..MaxRounds
  <2>1. i \in 1..Len(records) /\ j \in 1..Len(records) /\ records[i] \in Rows
    BY DEF Typed, BooksTyped
  <2> QED
    BY <2>1 DEF Rows
<1>3. ASSUME NEW k \in {i, j}, records[k].kind = "paid"
      PROVE  /\ Ordered(records[i].round) /\ records[k].order = records[i].round
             /\ records[k].order # 0
  <2>1. k \in 1..Len(records) /\ ~Disturbed(records[k])
    BY <1>2
  <2>2. Ordered(records[k].order)
    BY <1>1, <1>3, <2>1, PaidIsOrdered
  <2>3. records[k].order # 0
    BY <1>1, <2>2 DEF OnlyOnce
  <2> QED
    BY <2>2, <2>3
<1>4. ASSUME NEW k \in {i, j}, records[k].kind # "paid"
      PROVE  Counts(records[k]) /\ Closed(records[i].round)
  <2>1. k \in 1..Len(records) /\ records[k].round = records[i].round
    BY <1>2
  <2>2. Counts(records[k])
    BY <1>4 DEF Counts, Disturbed
  <2> QED
    BY <2>1, <2>2 DEF Closed
<1>5. CASE records[i].kind = "paid" /\ records[j].kind = "paid"
  BY <1>3, <1>5
<1>6. CASE records[i].kind # "paid" /\ records[j].kind # "paid"
  BY <1>1, <1>2, <1>4, <1>6 DEF OnlyOnce, ClosedByOne
<1>7. CASE ~(records[i].kind = "paid" <=> records[j].kind = "paid")
  <2>1. Ordered(records[i].round) /\ Closed(records[i].round)
    BY <1>3, <1>4, <1>7
  <2> QED
    BY <1>1, <1>2, <2>1 DEF OnlyOnce
<1> QED
  BY <1>5, <1>6, <1>7

(***************************************************************************)
(* For any vehicles and bounds: while one vehicle is alone in the lane and *)
(* nothing is repeated, a transaction id is closed once, by hand apart,    *)
(* and asks for one payment, whatever the threads do to each other's calls *)
(* and however often the event thread, the timer and the PMS come to the   *)
(* end of an exit.                                                         *)
(***************************************************************************)
THEOREM RoundsExitOnce == SafeSpec => []OneExitPerRound
<1>1. Init => RoundsSettled
  BY InitRoundsSettled
<1>2. Typed /\ RoundsSettled /\ [Next]_vars => RoundsSettled'
  BY NextKeepsRoundsSettled
<1> QED
  BY <1>1, <1>2, InitTyped, NextKeepsTyped, SettledRoundsExitOnce, PTL DEF SafeSpec
=============================================================================
