--------------------------- MODULE EntryLaneProofs ---------------------------
(***************************************************************************)
(* Proofs about EntryLane, for any vehicles and any number of rounds,      *)
(* answers and commands.                                                   *)
(***************************************************************************)
EXTENDS EntryLane, TLAPS

USE VehiclesAssumption, BoundsAssumption

Places == {"idle", "come", "clear", "detect", "cGone", "entry", "check",
           "save", "saved", "open"}

\* A step of the lane or of the camera keeps the types.
LEMMA WorldKeepsTypes ==
  ASSUME TypeOK, World
  PROVE  TypeOK'
<1> USE DEF TypeOK, worldOnly, world, lpr, trans, timer, history
<1>1. ASSUME NEW v \in Vehicles, Arrive(v) PROVE TypeOK'
  BY <1>1 DEF Arrive
<1>2. CASE DriveOn
  BY <1>2 DEF DriveOn
<1>3. CASE Reverse
  BY <1>3 DEF Reverse
<1>4. CASE LeaveC
  BY <1>4 DEF LeaveC
<1>5. CASE OperatorRaisesArm
  BY <1>5 DEF OperatorRaisesArm
<1>6. ASSUME NEW r \in Rounds, LprAnswers(r) PROVE TypeOK'
  BY <1>6 DEF LprAnswers
<1> QED
  BY <1>1, <1>2, <1>3, <1>4, <1>5, <1>6 DEF World

\* Disturb marks calls and leaves a function to BOOLEAN.
LEMMA DisturbKeepsTypes ==
  ASSUME NEW t, Disturb(t) PROVE wiped' \in [Threads -> BOOLEAN]
<1>1. \A u \in Threads : (wiped[u] \/ (u # t /\ InCall(u))) \in BOOLEAN
  BY Zenon
<1> QED
  BY <1>1, Zenon DEF Disturb

\* So does a step of LoopACome.
LEMMA RoundKeepsTypes ==
  ASSUME TypeOK, NEW t \in Threads,
         LoopACome(t) \/ ClearForRound(t) \/ SendTransID(t)
  PROVE  TypeOK'
<1> USE DEF TypeOK, world, lpr, trans, timer, history, Goto
<1>1. CASE LoopACome(t)
  BY <1>1 DEF LoopACome, StartLoopAPeriodicTimer
<1>2. CASE ClearForRound(t)
  <2>1. wiped' \in [Threads -> BOOLEAN]
    BY <1>2, DisturbKeepsTypes DEF ClearForRound, Clearme
  <2>2. pc' \in [Threads -> Places]
    BY <1>2 DEF ClearForRound, Places
  <2>3. 0 \in 0..MaxRounds /\ iu' = None /\ transID' = 0
    BY <1>2 DEF ClearForRound, Clearme
  <2> QED
    BY <1>2, <2>1, <2>2, <2>3 DEF ClearForRound, Clearme, Places
<1>3. CASE SendTransID(t)
  <2>1. wiped' \in [Threads -> BOOLEAN]
    BY <1>3, DisturbKeepsTypes DEF SendTransID
  <2>2. round + 1 \in 0..MaxRounds
    BY <1>3 DEF SendTransID
  <2>3. asked' \in [Rounds -> 0..MaxAnswers]
    <3>1. MaxAnswers \in 0..MaxAnswers
      OBVIOUS
    <3> QED
      BY <1>3, <3>1 DEF SendTransID
  <2>4. seen' \in [Rounds -> Vehicles \cup {None}]
    BY <1>3 DEF SendTransID
  <2> QED
    BY <1>3, <2>1, <2>2, <2>3, <2>4 DEF SendTransID
<1> QED
  BY <1>1, <1>2, <1>3

\* So does the handling of an event.
LEMMA EventKeepsTypes ==
  ASSUME TypeOK, EventThread
  PROVE  TypeOK'
<1> USE DEF TypeOK, world, lpr, trans, timer, history, Goto, Take
<1>0. Event \in Threads
  BY DEF Threads
<1>1. CASE LoopAOn
  BY <1>0, <1>1 DEF LoopAOn
<1>2. CASE LoopAOff
  BY <1>0, <1>2 DEF LoopAOff, StopLoopAPeriodicTimer
<1>3. CASE LoopCOff
  BY <1>0, <1>3 DEF LoopCOff
<1>4. CASE LoopCGone
  <2>1. wiped' \in [Threads -> BOOLEAN]
    BY <1>4, DisturbKeepsTypes DEF LoopCGone, Clearme
  <2>2. pc' \in [Threads -> Places]
    BY <1>0, <1>4 DEF LoopCGone, Places
  <2>3. 0 \in 0..MaxRounds /\ iu' = None /\ transID' = 0
    BY <1>4 DEF LoopCGone, Clearme
  <2> QED
    BY <1>4, <2>1, <2>2, <2>3 DEF LoopCGone, Clearme, Places
<1>5. CASE BarrierStatusOn
  BY <1>0, <1>5 DEF BarrierStatusOn, StartCall
<1>6. ASSUME NEW r \in Rounds, NEW p \in Vehicles \cup {None}, ReceivedLPR(r, p)
      PROVE  TypeOK'
  <2>1. CASE p # None /\ LprMatches(r) /\ NotYetEntered
    <3>1. pc' = [pc EXCEPT ![Event] = "entry"] /\ "entry" \in Places
      BY <1>6, <2>1 DEF ReceivedLPR, Places
    <3>2. arg' = [arg EXCEPT ![Event] = p] /\ p \in Vehicles
      BY <1>6, <2>1 DEF ReceivedLPR
    <3>3. QED
      BY <1>0, <1>6, <2>1, <3>1, <3>2 DEF ReceivedLPR, StartCall
  <2>2. CASE ~(p # None /\ LprMatches(r) /\ NotYetEntered)
    BY <1>6, <2>2 DEF ReceivedLPR
  <2> QED
    BY <2>1, <2>2
<1> QED
  BY <1>1, <1>2, <1>3, <1>4, <1>5, <1>6 DEF EventThread

\* So does a step of PBSEntry, SaveEntry or Openbarrier.
LEMMA CallKeepsTypes ==
  ASSUME TypeOK, NEW t \in Threads,
         SetIU(t) \/ CheckEntry(t) \/ SaveEntry(t) \/ SetSaved(t) \/ Openbarrier(t)
  PROVE  TypeOK'
<1> USE DEF TypeOK, world, lpr, trans, timer, history, callOnly, Goto
<1>1. CASE SetIU(t)
  BY <1>1 DEF SetIU
<1>2. CASE CheckEntry(t)
  BY <1>2 DEF CheckEntry
<1>3. CASE SaveEntry(t)
  BY <1>3 DEF SaveEntry
<1>4. CASE SetSaved(t)
  BY <1>4 DEF SetSaved
<1>5. CASE Openbarrier(t)
  BY <1>5 DEF Openbarrier, StopLoopAPeriodicTimer
<1> QED
  BY <1>1, <1>2, <1>3, <1>4, <1>5

\* So does a step of the timer or a command of the PMS.
LEMMA OthersKeepTypes ==
  ASSUME TypeOK, TimerExpires \/ HandleTimerTimeout \/ PmsCommand
  PROVE  TypeOK'
<1> USE DEF TypeOK, world, lpr, trans, timer, history, Goto
<1>0. Timer \in Threads /\ Pms \in Threads
  BY DEF Threads
<1>1. CASE TimerExpires
  <2>1. ticks' \in 0..1
    BY <1>1 DEF TimerExpires
  <2> QED
    BY <1>1, <2>1 DEF TimerExpires
<1>2. CASE HandleTimerTimeout
  <2>1. ticks' \in 0..1
    BY <1>2 DEF HandleTimerTimeout
  <2>2. CASE pc' = [pc EXCEPT ![Timer] = "come"] /\ UNCHANGED armed
    BY <1>0, <1>2, <2>1, <2>2 DEF HandleTimerTimeout
  <2>3. CASE armed' = TRUE /\ UNCHANGED pc
    BY <1>2, <2>1, <2>3 DEF HandleTimerTimeout
  <2> QED
    BY <1>2, <2>2, <2>3 DEF HandleTimerTimeout
<1>3. CASE CmdOpenBarrier
  BY <1>0, <1>3 DEF CmdOpenBarrier, Command, StartCall
<1>4. CASE CmdContinueOpenBarrier
  BY <1>4 DEF CmdContinueOpenBarrier, Command
<1>5. CASE CmdCloseBarrier
  BY <1>5 DEF CmdCloseBarrier
<1>6. CASE CmdCarparkfull
  BY <1>0, <1>6 DEF CmdCarparkfull, Command, StartCall
<1> QED
  BY <1>1, <1>2, <1>3, <1>4, <1>5, <1>6 DEF PmsCommand

\* A step keeps the types.
LEMMA NextKeepsTypes == TypeOK /\ [Next]_vars => TypeOK'
<1> SUFFICES ASSUME TypeOK, [Next]_vars PROVE TypeOK'
  OBVIOUS
<1>1. CASE World
  BY <1>1, WorldKeepsTypes
<1>2. CASE EventThread
  BY <1>2, EventKeepsTypes
<1>3. CASE \E t \in Threads : Step(t)
  BY <1>3, RoundKeepsTypes, CallKeepsTypes DEF Step
<1>4. CASE TimerExpires \/ HandleTimerTimeout \/ PmsCommand
  BY <1>4, OthersKeepTypes
<1>5. CASE UNCHANGED vars
  BY <1>5 DEF TypeOK, vars, world, lpr, trans, timer, history
<1> QED
  BY <1>1, <1>2, <1>3, <1>4, <1>5 DEF Next

\* The first state has the types.
LEMMA InitTypes == Init => TypeOK
<1> SUFFICES ASSUME Init PROVE TypeOK
  OBVIOUS
<1>1. transID \in 0..MaxRounds /\ round \in 0..MaxRounds
      /\ commands \in 0..MaxCommands /\ ticks \in 0..1
  BY BoundsAssumption DEF Init
<1>2. pc \in [Threads -> {"idle", "come", "clear", "detect", "cGone",
                "entry", "check", "save", "saved", "open"}]
  BY DEF Init
<1>3. arg \in [Threads -> Vehicles \cup {None}]
      /\ wrote \in [Threads -> Vehicles \cup {None}]
  BY DEF Init
<1>4. wiped \in [Threads -> BOOLEAN]
  BY DEF Init
<1>5. asked \in [Rounds -> 0..MaxAnswers]
  <2>1. 0 \in 0..MaxAnswers
    BY BoundsAssumption
  <2> QED
    BY <2>1 DEF Init
<1>6. seen \in [Rounds -> Vehicles \cup {None}]
  BY DEF Init
<1>7. road \subseteq Vehicles /\ {onA, onC, iu} \subseteq Vehicles \cup {None}
  BY DEF Init
<1>8. /\ arm \in BOOLEAN /\ entryOK \in BOOLEAN /\ loopApresent \in BOOLEAN
      /\ savedTrans \in BOOLEAN /\ barrierOpened \in BOOLEAN
      /\ held \in BOOLEAN /\ armed \in BOOLEAN /\ stray \in BOOLEAN
      /\ unarmed \in BOOLEAN
  BY DEF Init
<1> QED
  BY <1>1, <1>2, <1>3, <1>4, <1>5, <1>6, <1>7, <1>8, Zenon DEF TypeOK

(***************************************************************************)
(* For any vehicles and bounds the variables of the entry lane keep their  *)
(* types.                                                                  *)
(***************************************************************************)
THEOREM TypeCorrect == SafeSpec => []TypeOK
  BY InitTypes, NextKeepsTypes, PTL DEF SafeSpec

-----------------------------------------------------------------------------
(***************************************************************************)
(* What a thread inside PBSEntry can rely on.  Only the event thread       *)
(* stores a number, and only into an empty record; so the number of any    *)
(* other call is either still the one stored or was wiped.                 *)
(***************************************************************************)
NoArgumentOutsideCall == \A t \in Threads : ~InCall(t) => arg[t] = None
EntryIntoEmptyRecord ==
  \A t \in Threads : pc[t] = "entry" => t = Event /\ iu = None
CheckedIsStored ==
  \A t \in Threads : pc[t] \in {"check", "save"} /\ arg[t] # None
                       => iu = arg[t] \/ wiped[t]
SavedIsWritten ==
  \A t \in Threads : pc[t] \in {"saved", "open"} /\ arg[t] # None
                       => wrote[t] = arg[t] \/ wiped[t]

IInv ==
  /\ TypeOK
  /\ NoArgumentOutsideCall /\ EntryIntoEmptyRecord
  /\ CheckedIsStored /\ SavedIsWritten

\* A step that leaves the calls alone keeps the invariant.
LEMMA QuietStepKeepsIInv ==
  ASSUME IInv, TypeOK', UNCHANGED <<pc, arg, iu, wrote, wiped>>
  PROVE  IInv'
  BY DEF IInv, NoArgumentOutsideCall, EntryIntoEmptyRecord, CheckedIsStored,
     SavedIsWritten, InCall

\* So does a Clearme, which wipes the calls of the other threads.
LEMMA ClearmeKeepsIInv ==
  ASSUME IInv, TypeOK', NEW t \in Threads, Clearme(t),
         pc[t] \in {"clear", "cGone"},
         NEW next \in {"come", "detect", "idle"},
         pc' = [pc EXCEPT ![t] = next]
  PROVE  IInv'
<1>1. \A u \in Threads : u # t => pc'[u] = pc[u]
  BY DEF IInv, TypeOK
<1>2. pc'[t] = next /\ ~InCall(t) /\ ~InCall(t)'
  BY DEF IInv, TypeOK, InCall
<1>3. \A u \in Threads : u # t /\ InCall(u) => wiped'[u]
  BY Zenon DEF Clearme, Disturb
<1>4. iu' = None /\ arg' = arg /\ wrote' = wrote
  BY DEF Clearme
<1>5. \A u \in Threads : InCall(u)' => u # t /\ InCall(u) /\ wiped'[u]
  BY <1>1, <1>2, <1>3 DEF InCall
<1>6. NoArgumentOutsideCall' /\ EntryIntoEmptyRecord'
  BY <1>1, <1>2, <1>4 DEF IInv, NoArgumentOutsideCall, EntryIntoEmptyRecord, InCall
<1>7. CheckedIsStored' /\ SavedIsWritten'
  BY <1>5 DEF CheckedIsStored, SavedIsWritten, InCall
<1> QED
  BY <1>6, <1>7 DEF IInv

\* A new id disturbs calls and changes none.
LEMMA NewIdKeepsIInv ==
  ASSUME IInv, TypeOK', NEW t \in Threads, SendTransID(t)
  PROVE  IInv'
<1>1. /\ \A u \in Threads : u # t => pc'[u] = pc[u]
      /\ pc[t] = "detect" /\ pc'[t] = "idle"
      /\ iu' = iu /\ arg' = arg /\ wrote' = wrote
  BY DEF IInv, TypeOK, SendTransID, Goto
<1>2. \A u \in Threads : wiped[u] => wiped'[u]
  BY Zenon DEF SendTransID, Disturb
<1>3. NoArgumentOutsideCall' /\ EntryIntoEmptyRecord'
  BY <1>1 DEF IInv, NoArgumentOutsideCall, EntryIntoEmptyRecord, InCall
<1>4. CheckedIsStored' /\ SavedIsWritten'
  BY <1>1, <1>2 DEF IInv, CheckedIsStored, SavedIsWritten
<1> QED
  BY <1>3, <1>4 DEF IInv

\* A thread that goes from one place outside a call to another.
LEMMA OutsideKeepsIInv ==
  ASSUME IInv, TypeOK', NEW t \in Threads, ~InCall(t),
         NEW next \in {"idle", "come", "clear", "cGone"},
         pc' = [pc EXCEPT ![t] = next], UNCHANGED <<arg, iu, wrote, wiped>>
  PROVE  IInv'
<1>1. /\ \A u \in Threads : u # t => pc'[u] = pc[u]
      /\ pc'[t] = next
  BY DEF IInv, TypeOK
<1> QED
  BY <1>1 DEF IInv, NoArgumentOutsideCall, EntryIntoEmptyRecord,
     CheckedIsStored, SavedIsWritten, InCall

\* A call that begins at a place "first" with the number it was given.
LEMMA StartKeepsIInv ==
  ASSUME IInv, TypeOK', NEW t \in Threads, pc[t] = "idle",
         NEW first \in {"entry", "check", "save"},
         pc' = [pc EXCEPT ![t] = first], StartCall(t), UNCHANGED iu,
         \A u \in Threads : u # t => arg'[u] = arg[u],
         first = "entry" => t = Event /\ iu = None,
         first # "entry" => arg'[t] \in {iu, None}
  PROVE  IInv'
<1>1. /\ \A u \in Threads : u # t => pc'[u] = pc[u]
      /\ pc'[t] = first
  BY DEF IInv, TypeOK
<1>2. \A u \in Threads : u # t => wrote'[u] = wrote[u] /\ wiped'[u] = wiped[u]
  BY DEF IInv, TypeOK, StartCall
<1> QED
  BY <1>1, <1>2 DEF IInv, NoArgumentOutsideCall, EntryIntoEmptyRecord,
     CheckedIsStored, SavedIsWritten, InCall

\* The lane, the camera and the timer's clock touch no call.
LEMMA WorldKeepsIInv ==
  ASSUME IInv, World \/ TimerExpires
  PROVE  IInv'
<1>1. TypeOK'
  BY WorldKeepsTypes, OthersKeepTypes DEF IInv
<1>2. UNCHANGED <<pc, arg, iu, wrote, wiped>>
  BY DEF World, Arrive, DriveOn, Reverse, LeaveC, OperatorRaisesArm, LprAnswers,
     TimerExpires, worldOnly, trans, history
<1> QED
  BY <1>1, <1>2, QuietStepKeepsIInv

\* A round of any thread.
LEMMA RoundKeepsIInv ==
  ASSUME IInv, NEW t \in Threads,
         LoopACome(t) \/ ClearForRound(t) \/ SendTransID(t)
  PROVE  IInv'
<1>0. TypeOK'
  BY RoundKeepsTypes DEF IInv
<1>1. CASE LoopACome(t)
  <2>1. UNCHANGED <<arg, iu, wrote, wiped>>
    BY <1>1 DEF LoopACome, trans, history
  <2>2. ~InCall(t) /\ pc' = [pc EXCEPT ![t] = "clear"]
    BY <1>1 DEF LoopACome, Goto, InCall
  <2> QED
    BY <1>0, <2>1, <2>2, OutsideKeepsIInv
<1>2. CASE ClearForRound(t)
  BY <1>0, <1>2, ClearmeKeepsIInv DEF ClearForRound, Goto
<1>3. CASE SendTransID(t)
  BY <1>0, <1>3, NewIdKeepsIInv
<1> QED
  BY <1>1, <1>2, <1>3

\* What the event thread does with an event.
LEMMA EventKeepsIInv ==
  ASSUME IInv, EventThread
  PROVE  IInv'
<1>0. TypeOK' /\ Event \in Threads
  BY EventKeepsTypes DEF IInv, Threads
<1>1. CASE LoopAOn
  <2>1. UNCHANGED <<arg, iu, wrote, wiped>>
    BY <1>1 DEF LoopAOn, trans, history
  <2>2. ~InCall(Event) /\ pc' = [pc EXCEPT ![Event] = "come"]
    BY <1>1 DEF LoopAOn, Goto, InCall
  <2> QED
    BY <1>0, <2>1, <2>2, OutsideKeepsIInv
<1>2. CASE LoopAOff
  BY <1>0, <1>2, QuietStepKeepsIInv DEF LoopAOff, trans
<1>3. CASE LoopCOff
  <2>1. UNCHANGED <<arg, iu, wrote, wiped>>
    BY <1>3 DEF LoopCOff, trans, history
  <2>2. ~InCall(Event) /\ pc' = [pc EXCEPT ![Event] = "cGone"]
    BY <1>3 DEF LoopCOff, Goto, InCall
  <2> QED
    BY <1>0, <2>1, <2>2, OutsideKeepsIInv
<1>4. CASE LoopCGone
  <2> DEFINE next == IF loopApresent THEN "come" ELSE "idle"
  <2>1. /\ pc[Event] = "cGone" /\ pc' = [pc EXCEPT ![Event] = next]
        /\ next \in {"come", "detect", "idle"} /\ Clearme(Event)
    BY <1>4 DEF LoopCGone, Goto
  <2> HIDE DEF next
  <2> QED
    BY <1>0, <2>1, ClearmeKeepsIInv
<1>5. CASE BarrierStatusOn
  <2>1. CASE barrierOpened
    BY <1>0, <1>5, <2>1, QuietStepKeepsIInv DEF BarrierStatusOn, trans, history
  <2>2. CASE ~barrierOpened
    <3>1. /\ pc[Event] = "idle" /\ pc' = [pc EXCEPT ![Event] = "save"]
          /\ StartCall(Event) /\ UNCHANGED <<iu, arg>>
      BY <1>5, <2>2 DEF BarrierStatusOn, Goto, trans
    <3>2. arg[Event] = None
      BY <1>0, <3>1 DEF IInv, NoArgumentOutsideCall, InCall
    <3> QED
      BY <1>0, <3>1, <3>2, StartKeepsIInv
  <2> QED
    BY <2>1, <2>2
<1>6. ASSUME NEW r \in Rounds, NEW p \in Vehicles \cup {None}, ReceivedLPR(r, p)
      PROVE  IInv'
  <2>1. CASE p # None /\ LprMatches(r) /\ NotYetEntered
    <3>1. /\ pc[Event] = "idle" /\ pc' = [pc EXCEPT ![Event] = "entry"]
          /\ StartCall(Event) /\ UNCHANGED iu
          /\ arg' = [arg EXCEPT ![Event] = p]
      BY <1>6, <2>1 DEF ReceivedLPR, Goto, trans
    <3>2. /\ \A u \in Threads : u # Event => arg'[u] = arg[u]
          /\ iu = None
      BY <2>1, <3>1 DEF IInv, TypeOK, NotYetEntered
    <3> QED
      BY <1>0, <3>1, <3>2, StartKeepsIInv
  <2>2. CASE ~(p # None /\ LprMatches(r) /\ NotYetEntered)
    BY <1>0, <1>6, <2>2, QuietStepKeepsIInv DEF ReceivedLPR, trans, history
  <2> QED
    BY <2>1, <2>2
<1> QED
  BY <1>1, <1>2, <1>3, <1>4, <1>5, <1>6 DEF EventThread

\* PBSEntry, SaveEntry and Openbarrier.
LEMMA CallKeepsIInv ==
  ASSUME IInv, NEW t \in Threads,
         SetIU(t) \/ CheckEntry(t) \/ SaveEntry(t) \/ SetSaved(t) \/ Openbarrier(t)
  PROVE  IInv'
<1> USE DEF IInv, NoArgumentOutsideCall, EntryIntoEmptyRecord,
        CheckedIsStored, SavedIsWritten, InCall
<1>0. TypeOK' /\ TypeOK
  BY CallKeepsTypes
<1>1. CASE SetIU(t)
  <2>1. /\ pc[t] = "entry" /\ pc' = [pc EXCEPT ![t] = "check"]
        /\ iu' = arg[t] /\ UNCHANGED <<arg, wrote, wiped>>
    BY <1>1 DEF SetIU, Goto, callOnly, history
  <2>2. pc'[t] = "check" /\ \A u \in Threads : u # t => pc'[u] = pc[u]
    BY <1>0, <2>1 DEF TypeOK
  <2>3. t = Event /\ iu = None
    BY <2>1
  <2>4. \A u \in Threads : u # t => pc[u] # "entry"
    BY <2>3
  <2> QED
    BY <1>0, <2>1, <2>2, <2>3, <2>4
<1>2. CASE CheckEntry(t)
  <2>1. UNCHANGED <<iu, wrote, wiped>> /\ pc[t] = "check"
    BY <1>2 DEF CheckEntry, Goto, trans, history
  <2>2. CASE pc' = [pc EXCEPT ![t] = "save"] /\ UNCHANGED arg
    <3>1. pc'[t] = "save" /\ \A u \in Threads : u # t => pc'[u] = pc[u]
      BY <1>0, <2>2 DEF TypeOK
    <3> QED
      BY <1>0, <2>1, <2>2, <3>1
  <2>3. CASE pc' = [pc EXCEPT ![t] = "idle"] /\ arg' = [arg EXCEPT ![t] = None]
    <3>1. /\ pc'[t] = "idle" /\ arg'[t] = None
          /\ \A u \in Threads : u # t => pc'[u] = pc[u] /\ arg'[u] = arg[u]
      BY <1>0, <2>3 DEF TypeOK
    <3> QED
      BY <1>0, <2>1, <3>1
  <2> QED
    BY <1>2, <2>2, <2>3 DEF CheckEntry, Goto
<1>3. CASE SaveEntry(t)
  <2> DEFINE next == IF iu = None THEN "open" ELSE "saved"
  <2>1. /\ pc[t] = "save" /\ pc' = [pc EXCEPT ![t] = next]
        /\ UNCHANGED <<iu, arg, wiped>>
    BY <1>3 DEF SaveEntry, Goto, callOnly, trans
  <2>2. pc'[t] = next /\ \A u \in Threads : u # t => pc'[u] = pc[u]
    BY <1>0, <2>1 DEF TypeOK
  <2>3. /\ \A u \in Threads : u # t => wrote'[u] = wrote[u]
        /\ iu # None => wrote'[t] = iu
    BY <1>0, <1>3 DEF SaveEntry, TypeOK
  <2>4. arg[t] # None => iu = arg[t] \/ wiped[t]
    BY <2>1
  <2> QED
    BY <1>0, <2>1, <2>2, <2>3, <2>4
<1>4. CASE SetSaved(t)
  <2>1. /\ pc[t] = "saved" /\ pc' = [pc EXCEPT ![t] = "open"]
        /\ UNCHANGED <<iu, arg, wrote, wiped>>
    BY <1>4 DEF SetSaved, Goto, callOnly, history
  <2>2. pc'[t] = "open" /\ \A u \in Threads : u # t => pc'[u] = pc[u]
    BY <1>0, <2>1 DEF TypeOK
  <2> QED
    BY <1>0, <2>1, <2>2
<1>5. CASE Openbarrier(t)
  <2>1. /\ pc[t] = "open" /\ pc' = [pc EXCEPT ![t] = "idle"]
        /\ arg' = [arg EXCEPT ![t] = None] /\ wrote' = [wrote EXCEPT ![t] = None]
        /\ UNCHANGED <<iu, wiped>>
    BY <1>5 DEF Openbarrier, Goto
  <2>2. /\ pc'[t] = "idle" /\ arg'[t] = None
        /\ \A u \in Threads : u # t => /\ pc'[u] = pc[u] /\ arg'[u] = arg[u]
                                       /\ wrote'[u] = wrote[u]
    BY <1>0, <2>1 DEF TypeOK
  <2> QED
    BY <1>0, <2>1, <2>2
<1> QED
  BY <1>1, <1>2, <1>3, <1>4, <1>5

\* The handler of the timer and the commands of the PMS.
LEMMA OthersKeepIInv ==
  ASSUME IInv, HandleTimerTimeout \/ PmsCommand
  PROVE  IInv'
<1>0. TypeOK' /\ Timer \in Threads /\ Pms \in Threads
  BY OthersKeepTypes DEF IInv, Threads
<1>1. CASE HandleTimerTimeout
  <2>1. UNCHANGED <<arg, iu, wrote, wiped>> /\ pc[Timer] = "idle"
    BY <1>1 DEF HandleTimerTimeout, trans, history
  <2>2. CASE pc' = [pc EXCEPT ![Timer] = "come"]
    BY <1>0, <2>1, <2>2, OutsideKeepsIInv DEF InCall
  <2>3. CASE UNCHANGED pc
    BY <1>0, <2>1, <2>3, QuietStepKeepsIInv
  <2> QED
    BY <1>1, <2>2, <2>3 DEF HandleTimerTimeout
<1>2. CASE CmdOpenBarrier
  <2>1. /\ pc[Pms] = "idle" /\ pc' = [pc EXCEPT ![Pms] = "save"]
        /\ StartCall(Pms) /\ UNCHANGED <<iu, arg>>
    BY <1>2 DEF CmdOpenBarrier, Goto
  <2>2. arg[Pms] = None
    BY <1>0, <2>1 DEF IInv, NoArgumentOutsideCall, InCall
  <2> QED
    BY <1>0, <2>1, <2>2, StartKeepsIInv
<1>3. CASE CmdContinueOpenBarrier
  BY <1>0, <1>3, QuietStepKeepsIInv DEF CmdContinueOpenBarrier, trans
<1>4. CASE CmdCloseBarrier
  BY <1>0, <1>4, QuietStepKeepsIInv DEF CmdCloseBarrier, trans, history
<1>5. CASE CmdCarparkfull
  <2>1. /\ pc[Pms] = "idle" /\ pc' = [pc EXCEPT ![Pms] = "check"]
        /\ StartCall(Pms) /\ UNCHANGED iu
        /\ arg' = [arg EXCEPT ![Pms] = iu]
    BY <1>5 DEF CmdCarparkfull, Goto, trans
  <2>2. arg'[Pms] = iu /\ \A u \in Threads : u # Pms => arg'[u] = arg[u]
    BY <1>0, <2>1 DEF IInv, TypeOK
  <2> QED
    BY <1>0, <2>1, <2>2, StartKeepsIInv
<1> QED
  BY <1>1, <1>2, <1>3, <1>4, <1>5 DEF PmsCommand

\* The first state has the invariant, and every step keeps it.
LEMMA InitIInv == Init => IInv
<1> SUFFICES ASSUME Init PROVE IInv
  OBVIOUS
<1>1. \A t \in Threads : pc[t] = "idle" /\ arg[t] = None
  BY DEF Init
<1>2. TypeOK
  BY InitTypes
<1> QED
  BY <1>1, <1>2 DEF IInv, NoArgumentOutsideCall, EntryIntoEmptyRecord,
     CheckedIsStored, SavedIsWritten, InCall

LEMMA NextKeepsIInv == IInv /\ [Next]_vars => IInv'
<1> SUFFICES ASSUME IInv, [Next]_vars PROVE IInv'
  OBVIOUS
<1>1. CASE World \/ TimerExpires
  BY <1>1, WorldKeepsIInv
<1>2. CASE EventThread
  BY <1>2, EventKeepsIInv
<1>3. CASE \E t \in Threads : Step(t)
  BY <1>3, RoundKeepsIInv, CallKeepsIInv DEF Step
<1>4. CASE HandleTimerTimeout \/ PmsCommand
  BY <1>4, OthersKeepIInv
<1>5. CASE UNCHANGED vars
  <2>1. TypeOK'
    BY <1>5, NextKeepsTypes DEF IInv
  <2> QED
    BY <1>5, <2>1, QuietStepKeepsIInv DEF vars, trans, history
<1> QED
  BY <1>1, <1>2, <1>3, <1>4, <1>5 DEF Next

(***************************************************************************)
(* For any vehicles, rounds, answers and commands, PBSEntry opens the      *)
(* barrier only for the vehicle it wrote down, unless another thread's     *)
(* Clearme wiped the call: the hazard at operation.cpp:337 is the only     *)
(* way to an unrecorded entry.                                             *)
(***************************************************************************)
THEOREM EntriesAreRecorded == SafeSpec => []OpensForRecordedVehicle
<1>1. IInv => OpensForRecordedVehicle
  BY DEF IInv, SavedIsWritten, OpensForRecordedVehicle
<1> QED
  BY <1>1, InitIInv, NextKeepsIInv, PTL DEF SafeSpec

-----------------------------------------------------------------------------
(***************************************************************************)
(* The queue of events.  Steps put events at its end and take them from    *)
(* its front; the two lemmas say so index by index.                        *)
(***************************************************************************)
Messages ==
  {<<"A_ON">>, <<"A_OFF">>, <<"C_OFF">>, <<"BARRIER_ON">>}
  \cup {<<"LPR", r, p>> : r \in Rounds, p \in Vehicles \cup {None}}

\* Appending keeps the old entries and adds one.
LEMMA Appended ==
  ASSUME NEW S, NEW q \in Seq(S), NEW e \in S, NEW s, s = Append(q, e)
  PROVE  /\ s \in Seq(S) /\ Len(s) = Len(q) + 1 /\ Len(q) \in Nat
         /\ DOMAIN s = 1..Len(s) /\ DOMAIN q = 1..Len(q)
         /\ \A k \in 1..Len(q) : s[k] = q[k]
         /\ s[Len(q) + 1] = e
  OBVIOUS

\* Taking the first moves the others up by one.
LEMMA Taken ==
  ASSUME NEW S, NEW q \in Seq(S), q # <<>>, NEW s, s = Tail(q)
  PROVE  /\ s \in Seq(S) /\ Len(q) = Len(s) + 1 /\ Len(s) \in Nat
         /\ DOMAIN s = 1..Len(s) /\ DOMAIN q = 1..Len(q)
         /\ \A k \in 1..Len(s) : s[k] = q[k + 1]
         /\ Head(q) = q[1]
  OBVIOUS

\* Every step leaves the queue alone, puts one event in it or takes one.
Puts(e) == queue' = Append(queue, e)

QueueTyped == queue \in Seq(Messages)

\* Only events are ever put in the queue.
LEMMA NextKeepsQueueTyped ==
  ASSUME TypeOK, QueueTyped, [Next]_vars
  PROVE  QueueTyped'
<1> USE DEF QueueTyped
<1>1. CASE World
  <2>1. ASSUME NEW r \in Rounds, LprAnswers(r) PROVE QueueTyped'
    <3>1. seen[r] \in Vehicles \cup {None}
      BY DEF TypeOK
    <3>2. <<"LPR", r, seen[r]>> \in Messages
      BY <3>1 DEF Messages
    <3> QED
      BY <2>1, <3>2, Appended DEF LprAnswers
  <2>2. {<<"A_ON">>, <<"A_OFF">>, <<"C_OFF">>, <<"BARRIER_ON">>} \subseteq Messages
    BY DEF Messages
  <2> QED
    BY <1>1, <2>1, <2>2, Appended
       DEF World, Arrive, DriveOn, Reverse, LeaveC, OperatorRaisesArm
<1>2. CASE EventThread
  <2>1. (queue # <<>> /\ queue' = Tail(queue)) \/ queue' = queue
    BY <1>2 DEF EventThread, LoopAOn, LoopAOff, LoopCOff, LoopCGone, Clearme,
       BarrierStatusOn, ReceivedLPR, Take
  <2> QED
    BY <2>1, Taken
<1>3. ASSUME NEW t \in Threads, Step(t) PROVE QueueTyped'
  <2>1. <<"BARRIER_ON">> \in Messages
    BY DEF Messages
  <2>2. CASE Openbarrier(t)
    BY <2>1, <2>2, Appended DEF Openbarrier
  <2>3. CASE ~Openbarrier(t)
    BY <1>3, <2>3 DEF Step, LoopACome, ClearForRound, Clearme, SendTransID,
       SetIU, CheckEntry, SaveEntry, SetSaved
  <2> QED
    BY <2>2, <2>3
<1>4. CASE TimerExpires \/ HandleTimerTimeout
  BY <1>4 DEF TimerExpires, HandleTimerTimeout
<1>5. CASE PmsCommand
  <2>1. <<"BARRIER_ON">> \in Messages
    BY DEF Messages
  <2> QED
    BY <1>5, <2>1, Appended DEF PmsCommand, CmdOpenBarrier,
       CmdContinueOpenBarrier, CmdCloseBarrier, CmdCarparkfull
<1>6. CASE UNCHANGED vars
  BY <1>6 DEF vars
<1> QED
  BY <1>1, <1>2, <1>3, <1>4, <1>5, <1>6 DEF Next

-----------------------------------------------------------------------------
(***************************************************************************)
(* The answers of the LPR.  They tell what was seen in a round that has    *)
(* begun, and what was seen in a round never changes.                      *)
(***************************************************************************)
AnswersTellWhatWasSeen ==
  /\ transID <= round
  /\ \A r \in Rounds : asked[r] > 0 => r <= round
  /\ \A k \in DOMAIN queue :
       queue[k][1] = "LPR" => queue[k][2] \in 1..round
                              /\ queue[k][3] = seen[queue[k][2]]

\* A step that neither asks the LPR nor puts an answer of it in the queue.
LEMMA NoNewAnswer ==
  ASSUME TypeOK, QueueTyped, AnswersTellWhatWasSeen,
         UNCHANGED <<asked, seen, round>>, transID' \in {transID, 0},
         \/ queue' = queue
         \/ queue # <<>> /\ queue' = Tail(queue)
         \/ \E e \in Messages : e[1] # "LPR" /\ Puts(e)
  PROVE  AnswersTellWhatWasSeen'
<1> USE DEF AnswersTellWhatWasSeen
<1>1. transID' <= round'
  BY DEF TypeOK
<1>2. CASE queue' = queue
  BY <1>1, <1>2
<1>3. CASE queue # <<>> /\ queue' = Tail(queue)
  <2>1. \A k \in DOMAIN queue' : k + 1 \in DOMAIN queue /\ queue'[k] = queue[k + 1]
    BY <1>3, Taken DEF QueueTyped
  <2> QED
    BY <1>1, <2>1
<1>4. ASSUME NEW e \in Messages, e[1] # "LPR", Puts(e)
      PROVE  AnswersTellWhatWasSeen'
  <2>1. \A k \in DOMAIN queue' :
          (k \in DOMAIN queue /\ queue'[k] = queue[k]) \/ queue'[k] = e
    BY <1>4, Appended DEF QueueTyped, Puts
  <2> QED
    BY <1>1, <1>4, <2>1
<1> QED
  BY <1>2, <1>3, <1>4

\* A step keeps what the answers tell.
LEMMA NextKeepsAnswers ==
  ASSUME TypeOK, QueueTyped, AnswersTellWhatWasSeen, [Next]_vars
  PROVE  AnswersTellWhatWasSeen'
<1>0. /\ <<"A_ON">> \in Messages /\ <<"A_OFF">> \in Messages
      /\ <<"C_OFF">> \in Messages /\ <<"BARRIER_ON">> \in Messages
      /\ <<"A_ON">>[1] # "LPR" /\ <<"A_OFF">>[1] # "LPR"
      /\ <<"C_OFF">>[1] # "LPR" /\ <<"BARRIER_ON">>[1] # "LPR"
  BY DEF Messages
<1>1. ASSUME NEW r \in Rounds, LprAnswers(r) PROVE AnswersTellWhatWasSeen'
  <2> DEFINE e == <<"LPR", r, seen[r]>>
  <2>1. e \in Messages
    BY DEF Messages, TypeOK
  <2>2. /\ queue' = Append(queue, e) /\ asked' = [asked EXCEPT ![r] = @ - 1]
        /\ asked[r] > 0 /\ UNCHANGED <<seen, transID, round>>
    BY <1>1 DEF LprAnswers, trans
  <2>3. \A k \in DOMAIN queue' :
          (k \in DOMAIN queue /\ queue'[k] = queue[k]) \/ queue'[k] = e
    BY <2>1, <2>2, Appended DEF QueueTyped
  <2>4. e[2] \in 1..round /\ e[3] = seen[e[2]]
    BY <2>2 DEF AnswersTellWhatWasSeen, Rounds
  <2>5. \A q \in Rounds : asked'[q] > 0 => asked[q] > 0
    BY <2>2 DEF TypeOK
  <2> HIDE DEF e
  <2> QED
    BY <2>2, <2>3, <2>4, <2>5 DEF AnswersTellWhatWasSeen
<1>2. ASSUME NEW t \in Threads, SendTransID(t) PROVE AnswersTellWhatWasSeen'
  <2>1. /\ queue' = queue /\ round' = round + 1 /\ transID' = round + 1
        /\ round + 1 \in Rounds
        /\ asked' = [asked EXCEPT ![round + 1] = MaxAnswers]
        /\ seen' = [seen EXCEPT ![round + 1] = onA]
    BY <1>2 DEF SendTransID, Rounds, TypeOK
  <2>2. \A r \in Rounds : r # round + 1 => asked'[r] = asked[r] /\ seen'[r] = seen[r]
    BY <2>1 DEF TypeOK
  <2>3. \A r \in Rounds : asked'[r] > 0 => r <= round'
    BY <2>1, <2>2 DEF AnswersTellWhatWasSeen, Rounds, TypeOK
  <2>4. \A k \in 1..round : k \in Rounds /\ k # round + 1 /\ k \in 1..round'
    BY <2>1 DEF Rounds, TypeOK
  <2> QED
    BY <2>1, <2>2, <2>3, <2>4 DEF AnswersTellWhatWasSeen, TypeOK
<1>3. CASE \E v \in Vehicles : Arrive(v)
  BY <1>0, <1>3, NoNewAnswer DEF Arrive, Puts, worldOnly, lpr, trans
<1>4. CASE DriveOn \/ Reverse \/ LeaveC \/ OperatorRaisesArm
  BY <1>0, <1>4, NoNewAnswer
     DEF DriveOn, Reverse, LeaveC, OperatorRaisesArm, Puts, worldOnly, lpr, trans
<1>5. CASE EventThread
  <2>1. UNCHANGED <<asked, seen, round>> /\ transID' \in {transID, 0}
    BY <1>5 DEF EventThread, LoopAOn, LoopAOff, LoopCOff, LoopCGone, Clearme,
       BarrierStatusOn, ReceivedLPR, Take, lpr, trans
  <2>2. (queue # <<>> /\ queue' = Tail(queue)) \/ queue' = queue
    BY <1>5 DEF EventThread, LoopAOn, LoopAOff, LoopCOff, LoopCGone, Clearme,
       BarrierStatusOn, ReceivedLPR, Take
  <2> QED
    BY <2>1, <2>2, NoNewAnswer
<1>6. ASSUME NEW t \in Threads,
             LoopACome(t) \/ ClearForRound(t) \/ SetIU(t) \/ CheckEntry(t)
             \/ SaveEntry(t) \/ SetSaved(t)
      PROVE  AnswersTellWhatWasSeen'
  <2>1. UNCHANGED <<asked, seen, round, queue>> /\ transID' \in {transID, 0}
    BY <1>6 DEF LoopACome, ClearForRound, Clearme, SetIU, CheckEntry, SaveEntry,
       SetSaved, callOnly, lpr, trans
  <2> QED
    BY <2>1, NoNewAnswer
<1>7. ASSUME NEW t \in Threads, Openbarrier(t) PROVE AnswersTellWhatWasSeen'
  <2>1. UNCHANGED <<asked, seen, round, transID>>
    BY <1>7 DEF Openbarrier, lpr
  <2>2. queue' = queue \/ Puts(<<"BARRIER_ON">>)
    BY <1>7 DEF Openbarrier, Puts
  <2> QED
    BY <1>0, <2>1, <2>2, NoNewAnswer
<1>8. CASE TimerExpires \/ HandleTimerTimeout
  BY <1>8, NoNewAnswer DEF TimerExpires, HandleTimerTimeout, lpr, trans
<1>9. CASE PmsCommand
  <2>1. UNCHANGED <<asked, seen, round, transID>>
    BY <1>9 DEF PmsCommand, CmdOpenBarrier, CmdContinueOpenBarrier,
       CmdCloseBarrier, CmdCarparkfull, Command, lpr, trans
  <2>2. queue' = queue \/ Puts(<<"BARRIER_ON">>)
    BY <1>9 DEF PmsCommand, CmdOpenBarrier, CmdContinueOpenBarrier,
       CmdCloseBarrier, CmdCarparkfull, Puts
  <2> QED
    BY <1>0, <2>1, <2>2, NoNewAnswer
<1>10. CASE UNCHANGED vars
  BY <1>10, NoNewAnswer DEF vars, lpr, trans
<1> QED
  BY <1>1, <1>2, <1>3, <1>4, <1>5, <1>6, <1>7, <1>8, <1>9, <1>10
     DEF Next, World, Step

-----------------------------------------------------------------------------
(***************************************************************************)
(* The rows.  A call of the event thread belongs to the round in which the *)
(* LPR saw its plate, or was wiped; and the round it belongs to has no row *)
(* yet.                                                                    *)
(***************************************************************************)
Rows == [round : 0..MaxRounds, iu : Vehicles \cup {None}, wiped : BOOLEAN]

Fresh(r) == \A i \in DOMAIN records : records[i].round # r

EventEnters == pc[Event] \in {"entry", "check", "save"} /\ arg[Event] # None

RowInv ==
  /\ records \in Seq(Rows)
  /\ \A i \in DOMAIN records : records[i].round <= round
  /\ RecordIsOfItsRound /\ OneRecordPerRound
  /\ transID # 0 /\ iu = None => Fresh(transID)
  /\ EventEnters => /\ wiped[Event] \/ (transID # 0 /\ arg[Event] = seen[transID])
                    /\ transID # 0 => Fresh(transID)

\* A step that writes no row and leaves the record tEntry and its id alone.
LEMMA QuietStepKeepsRows ==
  ASSUME RowInv, UNCHANGED <<records, seen, round, transID>>,
         iu' = iu \/ (EventEnters /\ iu' # None),
         EventEnters' => /\ EventEnters
                         /\ arg'[Event] = arg[Event] /\ wiped'[Event] = wiped[Event]
  PROVE  RowInv'
<1>1. RecordIsOfItsRound' /\ OneRecordPerRound'
  BY DEF RowInv, RecordIsOfItsRound, OneRecordPerRound
<1> QED
  BY <1>1 DEF RowInv, Fresh

\* A Clearme leaves no id, and so no call that may write under it.
LEMMA ClearmeKeepsRows ==
  ASSUME IInv, RowInv, NEW t \in Threads, Clearme(t), ~InCall(t),
         t = Event => ~InCall(t)',
         t # Event => pc'[Event] = pc[Event]
  PROVE  RowInv'
<1>1. /\ UNCHANGED <<records, seen, round, arg>> /\ transID' = 0
      /\ Event \in Threads
  BY DEF Clearme, lpr, Threads
<1>2. RecordIsOfItsRound' /\ OneRecordPerRound'
  BY <1>1 DEF RowInv, RecordIsOfItsRound, OneRecordPerRound
<1>3. EventEnters' => t # Event /\ InCall(Event)
  BY DEF EventEnters, InCall
<1>4. t # Event /\ InCall(Event) => wiped'[Event]
  BY <1>1, Zenon DEF Clearme, Disturb
<1> QED
  BY <1>1, <1>2, <1>3, <1>4 DEF RowInv, Fresh

\* A new id is one that no row bears.
LEMMA NewIdKeepsRows ==
  ASSUME IInv, RowInv, NEW t \in Threads, SendTransID(t)
  PROVE  RowInv'
<1>1. /\ UNCHANGED <<records, iu, arg>> /\ round' = round + 1 /\ transID' = round + 1
      /\ seen' = [seen EXCEPT ![round + 1] = onA] /\ round \in Nat
      /\ Event \in Threads
  BY DEF SendTransID, IInv, TypeOK, Threads
<1>2. \A i \in DOMAIN records : records[i].round <= round
                               /\ records[i].round \in 0..MaxRounds
  <2>1. \A i \in DOMAIN records : records[i] \in Rows
    BY DEF RowInv
  <2> QED
    BY <2>1 DEF RowInv, Rows
<1>3. \A r \in Rounds : r <= round => seen'[r] = seen[r]
  BY <1>1 DEF IInv, TypeOK
<1>4. RecordIsOfItsRound'
  BY <1>1, <1>2, <1>3 DEF RowInv, RecordIsOfItsRound, Rounds
<1>5. OneRecordPerRound'
  BY <1>1 DEF RowInv, OneRecordPerRound
<1>6. Fresh(transID)'
  BY <1>1, <1>2 DEF Fresh
<1>7. EventEnters' => wiped'[Event]
  <2>1. pc[t] = "detect" /\ pc' = [pc EXCEPT ![t] = "idle"]
    BY DEF SendTransID, Goto
  <2>2. EventEnters' => t # Event /\ InCall(Event)
    BY <1>1, <2>1 DEF EventEnters, InCall, IInv, TypeOK
  <2>3. t # Event /\ InCall(Event) => wiped'[Event]
    BY <1>1, Zenon DEF SendTransID, Disturb
  <2> QED
    BY <2>2, <2>3
<1>8. \A i \in DOMAIN records' : records'[i].round <= round'
  BY <1>1, <1>2
<1> QED
  BY <1>1, <1>4, <1>5, <1>6, <1>7, <1>8 DEF RowInv

\* SaveEntry writes the row of the event thread's call.
LEMMA SaveKeepsRows ==
  ASSUME IInv, AnswersTellWhatWasSeen, RowInv, NEW t \in Threads, SaveEntry(t)
  PROVE  RowInv'
<1>1. /\ pc[t] = "save" /\ pc'[t] \in {"open", "saved"}
      /\ \A u \in Threads : u # t => pc'[u] = pc[u]
      /\ UNCHANGED <<seen, round, transID, iu, arg, wiped>>
      /\ Event \in Threads
  BY DEF SaveEntry, Goto, callOnly, lpr, trans, IInv, TypeOK, Threads
<1>2. EventEnters' => EventEnters
  BY <1>1 DEF EventEnters
<1>3. CASE records' = records
  BY <1>1, <1>2, <1>3, QuietStepKeepsRows
<1>4. CASE records' # records
  <2> DEFINE w == \E u \in Threads : wiped[u]
             row == [round |-> transID, iu |-> iu, wiped |-> w]
  <2>1. /\ iu # None /\ t = Event /\ arg[t] # None
        /\ records' = Append(records, row)
    BY <1>4 DEF SaveEntry
  <2>2. w \in BOOLEAN
    BY Zenon
  <2>3. wiped[Event] => w
    BY <1>1, Zenon
  <2> HIDE DEF w
  <2>4. row \in Rows /\ transID <= round /\ transID \in Nat
    BY <2>2 DEF IInv, TypeOK, Rows, AnswersTellWhatWasSeen
  <2>5. row.round = transID /\ row.iu = iu /\ row.wiped = w
    OBVIOUS
  <2> HIDE DEF row
  <2>6. /\ records' \in Seq(Rows) /\ Len(records) \in Nat
        /\ DOMAIN records' = 1..(Len(records) + 1) /\ DOMAIN records = 1..Len(records)
        /\ \A k \in DOMAIN records : records'[k] = records[k]
        /\ records'[Len(records) + 1] = row
    BY <2>1, <2>4, Appended DEF RowInv
  <2>7. \A k \in DOMAIN records' : k \in DOMAIN records \/ records'[k] = row
    BY <2>6
  <2>8. EventEnters
    BY <1>1, <2>1 DEF EventEnters
  <2>9. ~w => transID # 0 /\ seen[transID] = iu
    <3>1. ~w => ~wiped[Event]
      BY <2>3
    <3>2. ~w => iu = arg[Event]
      BY <1>1, <2>1, <3>1 DEF IInv, CheckedIsStored
    <3> QED
      BY <2>8, <3>1, <3>2 DEF RowInv
  <2>10. RecordIsOfItsRound'
    <3>1. \A k \in DOMAIN records :
            ~records[k].wiped => records[k].round # 0
                                 /\ seen[records[k].round] = records[k].iu
      BY DEF RowInv, RecordIsOfItsRound
    <3> QED
      BY <1>1, <2>5, <2>6, <2>7, <2>9, <3>1 DEF RecordIsOfItsRound
  <2>11. OneRecordPerRound'
    <3>1. transID # 0 => Fresh(transID)
      BY <2>8 DEF RowInv
    <3>2. SUFFICES ASSUME NEW i \in DOMAIN records', NEW j \in DOMAIN records',
                          i # j, records'[i].round = records'[j].round
                   PROVE  records'[i].round = 0
      BY DEF OneRecordPerRound
    <3>3. CASE i \in DOMAIN records /\ j \in DOMAIN records
      BY <2>6, <3>2, <3>3 DEF RowInv, OneRecordPerRound
    <3>4. CASE i \notin DOMAIN records \/ j \notin DOMAIN records
      <4>1. \/ i = Len(records) + 1 /\ j \in DOMAIN records
            \/ j = Len(records) + 1 /\ i \in DOMAIN records
        BY <2>6, <3>2, <3>4
      <4>2. PICK k \in DOMAIN records : records[k].round = transID
                                        /\ records'[i].round = transID
        BY <2>5, <2>6, <3>2, <4>1
      <4> QED
        BY <3>1, <4>2 DEF Fresh
    <3> QED
      BY <3>3, <3>4
  <2>12. \A i \in DOMAIN records' : records'[i].round <= round'
    BY <1>1, <2>4, <2>5, <2>6, <2>7 DEF RowInv
  <2>13. ~EventEnters'
    BY <1>1, <2>1 DEF EventEnters
  <2> QED
    BY <1>1, <2>1, <2>6, <2>10, <2>11, <2>12, <2>13 DEF RowInv
<1> QED
  BY <1>3, <1>4

\* A step keeps what is said of the rows.
LEMMA NextKeepsRows ==
  ASSUME IInv, QueueTyped, AnswersTellWhatWasSeen, RowInv, [Next]_vars
  PROVE  RowInv'
<1>0. /\ Event \in Threads /\ Timer \in Threads /\ Pms \in Threads
      /\ Event # Timer /\ Event # Pms
      /\ pc \in [Threads -> Places]
      /\ arg \in [Threads -> Vehicles \cup {None}] /\ wiped \in [Threads -> BOOLEAN]
  BY DEF Threads, Event, Timer, Pms, IInv, TypeOK, Places
<1>1. CASE World
  BY <1>1, QuietStepKeepsRows
     DEF World, Arrive, DriveOn, Reverse, LeaveC, OperatorRaisesArm, LprAnswers,
         worldOnly, lpr, trans, history, EventEnters
<1>2. CASE LoopAOn \/ LoopCOff
  <2>1. pc'[Event] \in {"come", "cGone"}
    BY <1>0, <1>2 DEF LoopAOn, LoopCOff, Goto
  <2> QED
    BY <1>2, <2>1, QuietStepKeepsRows
       DEF LoopAOn, LoopCOff, Take, lpr, trans, history, EventEnters
<1>3. CASE LoopAOff
  BY <1>3, QuietStepKeepsRows DEF LoopAOff, Take, lpr, trans, EventEnters
<1>4. CASE LoopCGone
  <2>1. ~InCall(Event) /\ ~InCall(Event)'
    BY <1>0, <1>4 DEF LoopCGone, Goto, InCall
  <2> QED
    BY <1>0, <1>4, <2>1, ClearmeKeepsRows DEF LoopCGone
<1>5. CASE BarrierStatusOn
  <2>1. EventEnters' => EventEnters
    <3>1. pc'[Event] = "save" => pc[Event] = "save" \/ arg[Event] = None
      BY <1>0, <1>5
         DEF BarrierStatusOn, Goto, IInv, NoArgumentOutsideCall, InCall, history
    <3>2. arg' = arg /\ (pc' = pc \/ pc'[Event] = "save")
      BY <1>0, <1>5 DEF BarrierStatusOn, Goto
    <3> QED
      BY <3>1, <3>2 DEF EventEnters
  <2>2. pc[Event] = "idle"
    BY <1>5 DEF BarrierStatusOn, Take
  <2>3. UNCHANGED <<records, seen, round, transID, iu>>
    BY <1>5 DEF BarrierStatusOn, Take, lpr, trans, history
  <2> QED
    BY <2>1, <2>2, <2>3, QuietStepKeepsRows DEF EventEnters
<1>6. ASSUME NEW r \in Rounds, NEW p \in Vehicles \cup {None}, ReceivedLPR(r, p)
      PROVE  RowInv'
  <2>1. UNCHANGED <<records, seen, round, transID, iu>>
    BY <1>6 DEF ReceivedLPR, Take, lpr, trans, history
  <2>2. CASE ~(p # None /\ LprMatches(r) /\ NotYetEntered)
    BY <1>6, <2>1, <2>2, QuietStepKeepsRows DEF ReceivedLPR, history, EventEnters
  <2>3. CASE p # None /\ LprMatches(r) /\ NotYetEntered
    <3>1. transID = r /\ iu = None /\ r # 0 /\ pc[Event] = "idle"
      BY <1>6, <2>3 DEF LprMatches, NotYetEntered, Rounds, ReceivedLPR, Take
    <3>2. arg'[Event] = p
      BY <1>0, <1>6, <2>3 DEF ReceivedLPR
    <3>3. seen[r] = p
      <4>1. queue # <<>> /\ Head(queue) = <<"LPR", r, p>>
        BY <1>6 DEF ReceivedLPR, Take
      <4>2. 1 \in DOMAIN queue /\ queue[1] = <<"LPR", r, p>>
        BY <4>1 DEF QueueTyped
      <4> QED
        BY <4>2 DEF AnswersTellWhatWasSeen
    <3>4. Fresh(transID)
      BY <3>1 DEF RowInv
    <3> QED
      BY <2>1, <3>1, <3>2, <3>3, <3>4
         DEF RowInv, Fresh, RecordIsOfItsRound, OneRecordPerRound
  <2> QED
    BY <2>2, <2>3
<1>7. ASSUME NEW t \in Threads, Step(t) PROVE RowInv'
  <2>1. CASE LoopACome(t)
    <3>1. pc'[Event] \in {pc[Event], "clear"}
      BY <1>0, <2>1 DEF LoopACome, Goto
    <3> QED
      BY <2>1, <3>1, QuietStepKeepsRows DEF LoopACome, lpr, trans, history, EventEnters
  <2>2. CASE ClearForRound(t)
    <3>1. /\ ~InCall(t) /\ ~InCall(t)' /\ Clearme(t)
          /\ t # Event => pc'[Event] = pc[Event]
      BY <1>0, <2>2 DEF ClearForRound, Goto, InCall
    <3> QED
      BY <3>1, ClearmeKeepsRows
  <2>3. CASE SendTransID(t)
    BY <2>3, NewIdKeepsRows
  <2>4. CASE SetIU(t)
    <3>1. /\ t = Event /\ iu = None /\ pc[Event] = "entry" /\ pc'[Event] = "check"
          /\ iu' = arg[Event] /\ arg' = arg /\ wiped' = wiped
          /\ UNCHANGED <<records, seen, round, transID>>
      BY <1>0, <2>4 DEF SetIU, Goto, callOnly, lpr, history, IInv, EntryIntoEmptyRecord
    <3>2. EventEnters' => EventEnters
      BY <3>1 DEF EventEnters
    <3>3. iu' = iu \/ (EventEnters /\ iu' # None)
      BY <3>1 DEF EventEnters
    <3> QED
      BY <3>1, <3>2, <3>3, QuietStepKeepsRows
  <2>5. CASE CheckEntry(t)
    <3>1. /\ UNCHANGED <<records, seen, round, transID, iu, wiped>>
          /\ EventEnters' => EventEnters /\ arg'[Event] = arg[Event]
      BY <1>0, <2>5 DEF CheckEntry, Goto, lpr, trans, history, EventEnters
    <3> QED
      BY <3>1, QuietStepKeepsRows
  <2>6. CASE SaveEntry(t)
    BY <2>6, SaveKeepsRows
  <2>7. CASE SetSaved(t) \/ Openbarrier(t)
    <3>1. /\ UNCHANGED <<records, seen, round, transID, iu, wiped>>
          /\ EventEnters' => EventEnters /\ arg'[Event] = arg[Event]
      BY <1>0, <2>7 DEF SetSaved, Openbarrier, Goto, callOnly, lpr, history, EventEnters
    <3> QED
      BY <3>1, QuietStepKeepsRows
  <2> QED
    BY <1>7, <2>1, <2>2, <2>3, <2>4, <2>5, <2>6, <2>7 DEF Step
<1>8. CASE TimerExpires \/ HandleTimerTimeout
  <2>1. pc'[Event] = pc[Event]
    BY <1>0, <1>8 DEF TimerExpires, HandleTimerTimeout
  <2> QED
    BY <1>8, <2>1, QuietStepKeepsRows
       DEF TimerExpires, HandleTimerTimeout, lpr, trans, history, EventEnters
<1>9. CASE PmsCommand
  <2>1. /\ UNCHANGED <<records, seen, round, transID, iu>>
        /\ pc'[Event] = pc[Event] /\ arg'[Event] = arg[Event]
        /\ wiped'[Event] = wiped[Event]
    BY <1>0, <1>9 DEF PmsCommand, CmdOpenBarrier, CmdContinueOpenBarrier,
       CmdCloseBarrier, CmdCarparkfull, Command, StartCall, Goto, lpr, trans, history
  <2> QED
    BY <2>1, QuietStepKeepsRows DEF EventEnters
<1>10. CASE UNCHANGED vars
  BY <1>10, QuietStepKeepsRows DEF vars, lpr, trans, history, EventEnters
<1> QED
  BY <1>1, <1>2, <1>3, <1>4, <1>5, <1>6, <1>7, <1>8, <1>9, <1>10 DEF Next, EventThread

LInv == IInv /\ QueueTyped /\ AnswersTellWhatWasSeen /\ RowInv

\* So it all holds in every state.
LEMMA RowsFollow == SafeSpec => []LInv
<1>1. Init => LInv
  <2>1. Init => QueueTyped /\ AnswersTellWhatWasSeen /\ RowInv
    <3> SUFFICES ASSUME Init PROVE QueueTyped /\ AnswersTellWhatWasSeen /\ RowInv
      OBVIOUS
    <3>1. queue = <<>> /\ records = <<>> /\ transID = 0 /\ round = 0
          /\ asked = [r \in Rounds |-> 0] /\ pc[Event] = "idle"
      BY DEF Init, Threads
    <3> QED
      BY <3>1 DEF QueueTyped, AnswersTellWhatWasSeen, RowInv, EventEnters,
         RecordIsOfItsRound, OneRecordPerRound
  <2> QED
    BY <2>1, InitIInv DEF LInv
<1>2. LInv /\ [Next]_vars => LInv'
  <2>1. IInv => TypeOK
    BY DEF IInv
  <2> QED
    BY <2>1, NextKeepsIInv, NextKeepsQueueTyped, NextKeepsAnswers, NextKeepsRows DEF LInv
<1> QED
  BY <1>1, <1>2, PTL DEF SafeSpec

(***************************************************************************)
(* For any vehicles, rounds and answers, the row of the event thread bears *)
(* the id of the round in which the LPR saw the vehicle, unless a Clearme  *)
(* hit the call: answers that come late, twice or after the next round do  *)
(* not mix the transactions.                                               *)
(***************************************************************************)
THEOREM RecordsBelongToTheirRounds == SafeSpec => []RecordIsOfItsRound
<1>1. LInv => RecordIsOfItsRound
  BY DEF LInv, RowInv
<1> QED
  BY <1>1, RowsFollow, PTL

(***************************************************************************)
(* And no id ever gets two rows of the event thread.                       *)
(***************************************************************************)
THEOREM RoundsAreRecordedOnce == SafeSpec => []OneRecordPerRound
<1>1. LInv => OneRecordPerRound
  BY DEF LInv, RowInv
<1> QED
  BY <1>1, RowsFollow, PTL

-----------------------------------------------------------------------------
(***************************************************************************)
(* The lane.  Tells(q, before, now): the events of q, read by somebody who *)
(* believes "before" of loop A, leave him with "now".                      *)
(***************************************************************************)
LoopEvent(e) == e \in {<<"A_ON">>, <<"A_OFF">>}

Tells(q, before, now) ==
  /\ (\A k \in DOMAIN q : ~LoopEvent(q[k])) => before = now
  /\ \A k \in DOMAIN q :
       LoopEvent(q[k]) /\ (\A j \in DOMAIN q : j > k => ~LoopEvent(q[j]))
         => now = (q[k] = <<"A_ON">>)

\* A loop event at the end tells the last word.
LEMMA ToldAtTheEnd ==
  ASSUME NEW q \in Seq(Messages), NEW e \in Messages, LoopEvent(e),
         NEW before \in BOOLEAN
  PROVE  Tells(Append(q, e), before, e = <<"A_ON">>)
<1> DEFINE s == Append(q, e)
<1>1. /\ Len(q) \in Nat /\ DOMAIN s = 1..(Len(q) + 1) /\ s[Len(q) + 1] = e
  BY Appended
<1>2. \A k \in DOMAIN s : k # Len(q) + 1 => Len(q) + 1 \in DOMAIN s /\ Len(q) + 1 > k
  BY <1>1
<1> HIDE DEF s
<1>3. ~(\A k \in DOMAIN s : ~LoopEvent(s[k]))
  BY <1>1
<1>4. ASSUME NEW k \in DOMAIN s, LoopEvent(s[k]),
             \A j \in DOMAIN s : j > k => ~LoopEvent(s[j])
      PROVE  (e = <<"A_ON">>) = (s[k] = <<"A_ON">>)
  BY <1>1, <1>2, <1>4
<1> QED
  BY <1>3, <1>4 DEF Tells, s

\* Any other event at the end tells nothing of the loop.
LEMMA ToldBeforeTheEnd ==
  ASSUME NEW q \in Seq(Messages), NEW e \in Messages, ~LoopEvent(e),
         NEW before \in BOOLEAN, NEW now \in BOOLEAN, Tells(q, before, now)
  PROVE  Tells(Append(q, e), before, now)
<1> DEFINE s == Append(q, e)
<1>1. /\ Len(q) \in Nat /\ DOMAIN s = 1..(Len(q) + 1) /\ s[Len(q) + 1] = e
      /\ DOMAIN q = 1..Len(q) /\ \A k \in DOMAIN q : s[k] = q[k]
  BY Appended
<1>2. DOMAIN q \subseteq DOMAIN s /\ \A k \in DOMAIN s : k \in DOMAIN q \/ s[k] = e
  BY <1>1
<1> HIDE DEF s
<1>3. ASSUME \A k \in DOMAIN s : ~LoopEvent(s[k]) PROVE before = now
  BY <1>1, <1>2, <1>3 DEF Tells
<1>4. ASSUME NEW k \in DOMAIN s, LoopEvent(s[k]),
             \A j \in DOMAIN s : j > k => ~LoopEvent(s[j])
      PROVE  now = (s[k] = <<"A_ON">>)
  <2>1. k \in DOMAIN q /\ s[k] = q[k]
    BY <1>1, <1>2, <1>4
  <2>2. \A j \in DOMAIN q : j > k => ~LoopEvent(q[j])
    BY <1>1, <1>2, <1>4
  <2> QED
    BY <1>4, <2>1, <2>2 DEF Tells
<1> QED
  BY <1>3, <1>4 DEF Tells, s

\* Who reads the first event believes it, and the rest tells him the same end.
LEMMA ToldByTheFirst ==
  ASSUME NEW q \in Seq(Messages), q # <<>>,
         NEW before \in BOOLEAN, NEW now \in BOOLEAN, Tells(q, before, now),
         NEW after \in BOOLEAN,
         IF LoopEvent(Head(q)) THEN after = (Head(q) = <<"A_ON">>) ELSE after = before
  PROVE  Tells(Tail(q), after, now)
<1> DEFINE s == Tail(q)
<1>1. /\ Len(s) \in Nat /\ DOMAIN q = 1..(Len(s) + 1) /\ DOMAIN s = 1..Len(s)
      /\ \A k \in DOMAIN s : s[k] = q[k + 1] /\ k + 1 \in DOMAIN q
      /\ Head(q) = q[1]
  BY Taken
<1> HIDE DEF s
<1>2. \A j \in DOMAIN q : j = 1 \/ (j - 1 \in DOMAIN s /\ q[j] = s[j - 1])
  BY <1>1
<1>3. ASSUME \A k \in DOMAIN s : ~LoopEvent(s[k]) PROVE after = now
  <2>1. \A j \in DOMAIN q : j > 1 => ~LoopEvent(q[j])
    BY <1>1, <1>2, <1>3
  <2>2. 1 \in DOMAIN q
    BY <1>1
  <2>3. CASE LoopEvent(q[1])
    BY <1>1, <2>1, <2>2, <2>3 DEF Tells
  <2>4. CASE ~LoopEvent(q[1])
    <3>1. \A j \in DOMAIN q : ~LoopEvent(q[j])
      BY <1>1, <2>1, <2>4
    <3> QED
      BY <1>1, <2>4, <3>1 DEF Tells
  <2> QED
    BY <2>3, <2>4
<1>4. ASSUME NEW k \in DOMAIN s, LoopEvent(s[k]),
             \A j \in DOMAIN s : j > k => ~LoopEvent(s[j])
      PROVE  now = (s[k] = <<"A_ON">>)
  <2>1. k + 1 \in DOMAIN q /\ q[k + 1] = s[k]
    BY <1>1
  <2>2. \A j \in DOMAIN q : j > k + 1 => ~LoopEvent(q[j])
    <3> SUFFICES ASSUME NEW j \in DOMAIN q, j > k + 1 PROVE ~LoopEvent(q[j])
      OBVIOUS
    <3>1. j - 1 \in DOMAIN s /\ q[j] = s[j - 1] /\ j - 1 > k
      BY <1>1, <1>2
    <3> QED
      BY <1>4, <3>1
  <2> QED
    BY <1>4, <2>1, <2>2 DEF Tells
<1> QED
  BY <1>3, <1>4 DEF Tells, s

\* What the event thread believes of loop A and what is still in the queue.
LaneIsTold == Tells(queue, loopApresent, onA # None)

\* The queue always tells the event thread where the lane stands.
LEMMA NextKeepsLaneIsTold ==
  ASSUME TypeOK, QueueTyped, LaneIsTold, [Next]_vars
  PROVE  LaneIsTold'
<1>0. /\ <<"A_ON">> \in Messages /\ <<"A_OFF">> \in Messages
      /\ <<"C_OFF">> \in Messages /\ <<"BARRIER_ON">> \in Messages
      /\ LoopEvent(<<"A_ON">>) /\ LoopEvent(<<"A_OFF">>)
      /\ ~LoopEvent(<<"C_OFF">>) /\ ~LoopEvent(<<"BARRIER_ON">>)
      /\ <<"A_OFF">> # <<"A_ON">>
      /\ \A r \in Rounds, p \in Vehicles \cup {None} :
           <<"LPR", r, p>> \in Messages /\ ~LoopEvent(<<"LPR", r, p>>)
  BY DEF Messages, LoopEvent
<1>00. /\ queue \in Seq(Messages) /\ loopApresent \in BOOLEAN
       /\ (onA # None) \in BOOLEAN /\ None \notin Vehicles
  <2>1. queue \in Seq(Messages) /\ loopApresent \in BOOLEAN
    BY DEF QueueTyped, TypeOK
  <2>2. (onA # None) \in BOOLEAN
    BY Zenon
  <2>3. None \notin Vehicles
    BY VehiclesAssumption, Zenon DEF None
  <2> QED
    BY <2>1, <2>2, <2>3, Zenon
<1> USE DEF LaneIsTold
<1>1. ASSUME NEW v \in Vehicles, Arrive(v) PROVE LaneIsTold'
  <2>1. queue' = Append(queue, <<"A_ON">>) /\ loopApresent' = loopApresent /\ onA' # None
    BY <1>00, <1>1 DEF Arrive, worldOnly
  <2>2. (onA' # None) = (<<"A_ON">> = <<"A_ON">>)
    BY <2>1
  <2>3. Tells(queue', loopApresent', <<"A_ON">> = <<"A_ON">>)
    BY <1>0, <1>00, <2>1, ToldAtTheEnd
  <2> QED
    BY <2>2, <2>3
<1>2. CASE DriveOn \/ Reverse
  <2>1. queue' = Append(queue, <<"A_OFF">>) /\ loopApresent' = loopApresent /\ onA' = None
    BY <1>2 DEF DriveOn, Reverse, worldOnly
  <2>2. (onA' # None) = (<<"A_OFF">> = <<"A_ON">>)
    BY <1>0, <2>1
  <2>3. Tells(queue', loopApresent', <<"A_OFF">> = <<"A_ON">>)
    BY <1>0, <1>00, <2>1, ToldAtTheEnd
  <2> QED
    BY <2>2, <2>3
<1>3. ASSUME NEW e \in Messages, ~LoopEvent(e), queue' = Append(queue, e),
             UNCHANGED <<loopApresent, onA>>
      PROVE  LaneIsTold'
  BY <1>00, <1>3, ToldBeforeTheEnd
<1>4. CASE UNCHANGED <<queue, loopApresent, onA>>
  BY <1>4
<1>5. ASSUME NEW e, Take(e),
             IF LoopEvent(e) THEN loopApresent' = (e = <<"A_ON">>)
                             ELSE loopApresent' = loopApresent
      PROVE  LaneIsTold'
  <2>1. /\ queue # <<>> /\ Head(queue) = e /\ queue' = Tail(queue) /\ onA' = onA
        /\ loopApresent' \in BOOLEAN
    BY <1>00, <1>5 DEF Take, world
  <2> QED
    BY <1>00, <1>5, <2>1, ToldByTheFirst
<1>6. ASSUME NEW r \in Rounds, LprAnswers(r) PROVE LaneIsTold'
  <2>1. seen[r] \in Vehicles \cup {None}
    BY DEF TypeOK
  <2> QED
    BY <1>0, <1>3, <1>6, <2>1 DEF LprAnswers, world
<1>7. CASE LeaveC \/ OperatorRaisesArm
  BY <1>0, <1>3, <1>7 DEF LeaveC, OperatorRaisesArm, worldOnly
<1>8. CASE LoopAOn
  BY <1>0, <1>5, <1>8 DEF LoopAOn
<1>9. CASE LoopAOff
  BY <1>0, <1>5, <1>9 DEF LoopAOff
<1>10. CASE LoopCOff
  BY <1>0, <1>5, <1>10 DEF LoopCOff
<1>11. CASE LoopCGone
  BY <1>4, <1>11 DEF LoopCGone, Clearme, world
<1>12. CASE BarrierStatusOn
  BY <1>0, <1>5, <1>12 DEF BarrierStatusOn
<1>13. ASSUME NEW r \in Rounds, NEW p \in Vehicles \cup {None}, ReceivedLPR(r, p)
       PROVE  LaneIsTold'
  BY <1>0, <1>5, <1>13 DEF ReceivedLPR
<1>14. ASSUME NEW t \in Threads, Step(t) PROVE LaneIsTold'
  <2>1. UNCHANGED <<loopApresent, onA>>
    BY <1>14 DEF Step, LoopACome, ClearForRound, Clearme, SendTransID, SetIU,
       CheckEntry, SaveEntry, SetSaved, Openbarrier, callOnly, world
  <2>2. queue' = queue \/ queue' = Append(queue, <<"BARRIER_ON">>)
    BY <1>14 DEF Step, LoopACome, ClearForRound, Clearme, SendTransID, SetIU,
       CheckEntry, SaveEntry, SetSaved, Openbarrier
  <2> QED
    BY <1>0, <1>3, <1>4, <2>1, <2>2
<1>15. CASE TimerExpires \/ HandleTimerTimeout \/ PmsCommand
  <2>1. UNCHANGED <<loopApresent, onA>>
    BY <1>15 DEF TimerExpires, HandleTimerTimeout, PmsCommand, CmdOpenBarrier,
       CmdContinueOpenBarrier, CmdCloseBarrier, CmdCarparkfull, Command, world
  <2>2. queue' = queue \/ queue' = Append(queue, <<"BARRIER_ON">>)
    BY <1>15 DEF TimerExpires, HandleTimerTimeout, PmsCommand, CmdOpenBarrier,
       CmdContinueOpenBarrier, CmdCloseBarrier, CmdCarparkfull
  <2> QED
    BY <1>0, <1>3, <1>4, <2>1, <2>2
<1>16. CASE UNCHANGED vars
  BY <1>4, <1>16 DEF vars, world
<1> QED
  BY <1>1, <1>2, <1>6, <1>7, <1>8, <1>9, <1>10, <1>11, <1>12, <1>13, <1>14,
     <1>15, <1>16 DEF Next, World, EventThread

-----------------------------------------------------------------------------
(***************************************************************************)
(* The timer.  It waits, fires or runs its handler only for a vehicle, or  *)
(* because loop A was left under a handler.                                *)
(***************************************************************************)
TimerHasVehicle ==
  /\ armed \/ ticks > 0 \/ pc[Timer] # "idle" => loopApresent \/ stray
  /\ pc[Event] = "come" => loopApresent
  /\ pc[Pms] # "come"

\* A step keeps the timer to a vehicle.
LEMMA NextKeepsTimerHasVehicle ==
  ASSUME TypeOK, TimerHasVehicle, [Next]_vars
  PROVE  TimerHasVehicle'
<1>0. /\ Event \in Threads /\ Timer \in Threads /\ Pms \in Threads
      /\ Event # Timer /\ Event # Pms /\ Timer # Pms
      /\ pc \in [Threads -> Places] /\ ticks \in 0..1
      /\ \A t \in Threads : t \in {Event, Timer, Pms}
  BY DEF Threads, Event, Timer, Pms, TypeOK, Places
<1> USE DEF TimerHasVehicle
<1>1. CASE UNCHANGED <<armed, ticks, pc, loopApresent, stray>>
  BY <1>1
<1>2. CASE World
  BY <1>1, <1>2 DEF World, Arrive, DriveOn, Reverse, LeaveC, OperatorRaisesArm,
     LprAnswers, worldOnly, timer, history
<1>3. CASE LoopAOn
  BY <1>0, <1>3 DEF LoopAOn, Goto, timer, history
<1>4. CASE LoopAOff
  BY <1>0, <1>4 DEF LoopAOff, StopLoopAPeriodicTimer, Take
<1>5. CASE LoopCOff
  BY <1>0, <1>5 DEF LoopCOff, Goto, timer, history
<1>6. CASE LoopCGone
  BY <1>0, <1>6 DEF LoopCGone, Clearme, Goto, timer
<1>7. CASE BarrierStatusOn
  BY <1>0, <1>7 DEF BarrierStatusOn, Goto, timer, history
<1>8. ASSUME NEW r \in Rounds, NEW p \in Vehicles \cup {None}, ReceivedLPR(r, p)
      PROVE  TimerHasVehicle'
  BY <1>0, <1>8 DEF ReceivedLPR, Goto, timer, history
<1>9. ASSUME NEW t \in Threads, Step(t) PROVE TimerHasVehicle'
  <2>1. CASE LoopACome(t)
    <3>1. loopApresent \/ stray
      BY <1>0, <2>1 DEF LoopACome, Goto
    <3>2. /\ pc' = [pc EXCEPT ![t] = "clear"]
          /\ UNCHANGED <<loopApresent, stray>>
      BY <2>1 DEF LoopACome, Goto, history
    <3> QED
      BY <1>0, <3>1, <3>2
  <2>2. CASE ~LoopACome(t)
    <3>1. UNCHANGED <<loopApresent, stray, ticks>> /\ (armed' => armed)
      BY <1>9, <2>2 DEF Step, ClearForRound, Clearme, SendTransID, SetIU, CheckEntry,
         SaveEntry, SetSaved, Openbarrier, StopLoopAPeriodicTimer, callOnly, timer,
         history
    <3>2. /\ pc[t] # "idle"
          /\ \E next \in Places \ {"come"} : pc' = [pc EXCEPT ![t] = next]
      BY <1>9, <2>2 DEF Step, ClearForRound, SendTransID, SetIU, CheckEntry,
         SaveEntry, SetSaved, Openbarrier, Goto, Places
    <3> QED
      BY <1>0, <3>1, <3>2
  <2> QED
    BY <2>1, <2>2
<1>10. CASE TimerExpires
  BY <1>10 DEF TimerExpires, history
<1>11. CASE HandleTimerTimeout
  <2>1. loopApresent \/ stray
    BY <1>11 DEF HandleTimerTimeout
  <2> QED
    BY <1>0, <1>11, <2>1 DEF HandleTimerTimeout, history
<1>12. CASE PmsCommand
  <2>1. UNCHANGED <<armed, ticks, loopApresent, stray>>
    BY <1>12 DEF PmsCommand, CmdOpenBarrier, CmdContinueOpenBarrier,
       CmdCloseBarrier, CmdCarparkfull, Command, timer, history
  <2>2. pc' = pc \/ \E next \in {"save", "check"} : pc' = [pc EXCEPT ![Pms] = next]
    BY <1>12 DEF PmsCommand, CmdOpenBarrier, CmdContinueOpenBarrier,
       CmdCloseBarrier, CmdCarparkfull, Goto
  <2> QED
    BY <1>0, <2>1, <2>2
<1>13. CASE UNCHANGED vars
  BY <1>1, <1>13 DEF vars, timer, history
<1> QED
  BY <1>2, <1>3, <1>4, <1>5, <1>6, <1>7, <1>8, <1>9, <1>10, <1>11, <1>12, <1>13
     DEF Next, EventThread

-----------------------------------------------------------------------------
(***************************************************************************)
(* A vehicle the program knows on loop A is watched.  A round that has     *)
(* started the timer but not yet cleared the record is the delicate place: *)
(* its Clearme will take savedTrans and barrierOpened away.                *)
(***************************************************************************)
Ticking == armed \/ ticks > 0 \/ unarmed

Watched ==
  /\ loopApresent => \/ Ticking \/ savedTrans \/ barrierOpened
                     \/ pc[Event] \in {"come", "cGone"} \/ pc[Timer] = "come"
  /\ \A t \in Threads : pc[t] = "clear" => Ticking

\* A step keeps the vehicle watched.
LEMMA NextKeepsWatched ==
  ASSUME TypeOK, Watched, [Next]_vars
  PROVE  Watched'
<1>0. /\ Event \in Threads /\ Timer \in Threads /\ Pms \in Threads
      /\ Event # Timer /\ Event # Pms /\ Timer # Pms
      /\ pc \in [Threads -> Places] /\ ticks \in 0..1
      /\ \A t \in Threads : t \in {Event, Timer, Pms}
  BY DEF Threads, Event, Timer, Pms, TypeOK, Places
<1> USE DEF Watched, Ticking
<1>2. CASE World
  BY <1>2 DEF World, Arrive, DriveOn, Reverse, LeaveC, OperatorRaisesArm,
     LprAnswers, worldOnly, trans, timer, history
<1>3. CASE LoopAOn
  BY <1>0, <1>3 DEF LoopAOn, Goto, trans, timer, history
<1>4. CASE LoopAOff
  BY <1>0, <1>4 DEF LoopAOff, StopLoopAPeriodicTimer
<1>5. CASE LoopCOff
  BY <1>0, <1>5 DEF LoopCOff, Goto, trans, timer, history
<1>6. CASE LoopCGone
  <2>1. UNCHANGED <<armed, ticks, unarmed, loopApresent>>
    BY <1>6 DEF LoopCGone, Clearme, timer
  <2>2. pc' = [pc EXCEPT ![Event] = IF loopApresent THEN "come" ELSE "idle"]
    BY <1>6 DEF LoopCGone, Goto
  <2> QED
    BY <1>0, <2>1, <2>2
<1>7. CASE BarrierStatusOn
  BY <1>0, <1>7 DEF BarrierStatusOn, Goto, Take, trans, timer, history
<1>8. ASSUME NEW r \in Rounds, NEW p \in Vehicles \cup {None}, ReceivedLPR(r, p)
      PROVE  Watched'
  BY <1>0, <1>8 DEF ReceivedLPR, Goto, Take, trans, timer, history
<1>9. ASSUME NEW t \in Threads, Step(t) PROVE Watched'
  <2>1. CASE LoopACome(t)
    BY <2>1 DEF LoopACome, StartLoopAPeriodicTimer
  <2>2. CASE ClearForRound(t)
    <3>1. Ticking /\ UNCHANGED <<armed, ticks, unarmed>>
      BY <2>2 DEF ClearForRound, Clearme, Goto, timer
    <3> QED
      BY <3>1
  <2>3. CASE Openbarrier(t)
    <3>1. /\ barrierOpened' = (barrierOpened \/ ~held) /\ ticks' = ticks
          /\ unarmed' = (unarmed \/ held \/ \E u \in Threads : pc[u] = "clear")
          /\ pc' = [pc EXCEPT ![t] = "idle"]
      BY <2>3 DEF Openbarrier, StopLoopAPeriodicTimer, Goto
    <3>2. \A u \in Threads : pc'[u] = "clear" => pc[u] = "clear"
      BY <1>0, <3>1
    <3>3. barrierOpened' \/ unarmed'
      BY <3>1
    <3> QED
      BY <3>1, <3>2, <3>3
  <2>4. CASE SendTransID(t) \/ SetIU(t) \/ CheckEntry(t) \/ SaveEntry(t) \/ SetSaved(t)
    <3>1. /\ UNCHANGED <<armed, ticks, unarmed, loopApresent, barrierOpened>>
          /\ savedTrans => savedTrans'
      BY <2>4 DEF SendTransID, SetIU, CheckEntry, SaveEntry, SetSaved, callOnly,
         trans, timer, history
    <3>2. /\ pc[t] \notin {"come", "cGone", "clear"}
          /\ \E next \in Places \ {"clear"} : pc' = [pc EXCEPT ![t] = next]
      BY <2>4 DEF SendTransID, SetIU, CheckEntry, SaveEntry, SetSaved, Goto, Places
    <3> QED
      BY <1>0, <3>1, <3>2
  <2> QED
    BY <1>9, <2>1, <2>2, <2>3, <2>4 DEF Step
<1>10. CASE TimerExpires
  BY <1>10 DEF TimerExpires
<1>11. CASE HandleTimerTimeout
  <2>1. UNCHANGED <<loopApresent, unarmed>>
    BY <1>11 DEF HandleTimerTimeout, history
  <2>2. CASE armed'
    BY <2>2
  <2>3. CASE OperationTimeout /\ pc' = [pc EXCEPT ![Timer] = "come"]
    BY <1>0, <2>1, <2>3 DEF OperationTimeout
  <2> QED
    BY <1>11, <2>2, <2>3 DEF HandleTimerTimeout
<1>12. CASE PmsCommand
  <2>1. UNCHANGED <<armed, ticks, unarmed, loopApresent, savedTrans, barrierOpened>>
    BY <1>12 DEF PmsCommand, CmdOpenBarrier, CmdContinueOpenBarrier,
       CmdCloseBarrier, CmdCarparkfull, Command, trans, timer, history
  <2>2. pc' = pc \/ \E next \in {"save", "check"} : pc' = [pc EXCEPT ![Pms] = next]
    BY <1>12 DEF PmsCommand, CmdOpenBarrier, CmdContinueOpenBarrier,
       CmdCloseBarrier, CmdCarparkfull, Goto
  <2> QED
    BY <1>0, <2>1, <2>2
<1>13. CASE UNCHANGED vars
  BY <1>13 DEF vars, trans, timer, history
<1> QED
  BY <1>2, <1>3, <1>4, <1>5, <1>6, <1>7, <1>8, <1>9, <1>10, <1>11, <1>12, <1>13
     DEF Next, EventThread

WInv == TypeOK /\ QueueTyped /\ LaneIsTold /\ TimerHasVehicle /\ Watched

\* So these hold in every state.
LEMMA LaneIsWatched == SafeSpec => []WInv
<1>1. Init => WInv
  <2> SUFFICES ASSUME Init PROVE WInv
    OBVIOUS
  <2>1. /\ queue = <<>> /\ onA = None /\ loopApresent = FALSE /\ armed = FALSE
        /\ ticks = 0 /\ \A t \in Threads : pc[t] = "idle"
    BY DEF Init
  <2>2. QueueTyped /\ LaneIsTold
    <3>1. QueueTyped /\ DOMAIN queue = {}
      BY <2>1 DEF QueueTyped
    <3>2. loopApresent = (onA # None)
      BY <2>1
    <3> QED
      BY <3>1, <3>2, Zenon DEF LaneIsTold, Tells
  <2>3. TimerHasVehicle /\ Watched
    BY <2>1 DEF TimerHasVehicle, Watched, Threads
  <2> QED
    BY <2>2, <2>3, InitTypes DEF WInv
<1>2. WInv /\ [Next]_vars => WInv'
  BY NextKeepsTypes, NextKeepsQueueTyped, NextKeepsLaneIsTold,
     NextKeepsTimerHasVehicle, NextKeepsWatched DEF WInv
<1> QED
  BY <1>1, <1>2, PTL DEF SafeSpec

\* When all is calm the program knows whether a vehicle is on loop A.
LEMMA CalmIsTold ==
  ASSUME WInv, Calm
  PROVE  loopApresent = (onA # None)
  BY DEF WInv, LaneIsTold, Tells, Calm

(***************************************************************************)
(* For any vehicles, rounds and commands, a vehicle on loop A is not       *)
(* forgotten once everything is handled: the timer reads it again, or its  *)
(* transaction is saved, or the barrier was opened - unless Openbarrier    *)
(* stopped the timer of a round that was starting, or under a hold.        *)
(***************************************************************************)
THEOREM VehiclesAreWatched == SafeSpec => []WaitingVehicleIsWatched
<1>1. WInv => WaitingVehicleIsWatched
  <2> SUFFICES ASSUME WInv, Calm, onA # None
               PROVE  armed \/ ticks > 0 \/ savedTrans \/ barrierOpened \/ unarmed
    BY DEF WaitingVehicleIsWatched
  <2>1. loopApresent
    BY CalmIsTold
  <2>2. pc[Event] = "idle" /\ pc[Timer] = "idle"
    BY DEF Calm, Threads
  <2> QED
    BY <2>1, <2>2 DEF WInv, Watched, Ticking
<1> QED
  BY <1>1, LaneIsWatched, PTL

(***************************************************************************)
(* And the timer does not run for an empty lane, unless loop A was left    *)
(* while a handler of the timer was under way.                             *)
(***************************************************************************)
THEOREM TimersStopWithTheLane == SafeSpec => []TimerStopsWithLane
<1>1. WInv => TimerStopsWithLane
  <2> SUFFICES ASSUME WInv, Calm, onA = None, ~stray PROVE ~armed /\ ticks = 0
    BY DEF TimerStopsWithLane
  <2>1. ~loopApresent
    BY CalmIsTold
  <2> QED
    BY <2>1 DEF WInv, TimerHasVehicle, TypeOK
<1> QED
  BY <1>1, LaneIsWatched, PTL
=============================================================================
