--------------------------- MODULE DioMonitorProofs ---------------------------
(***************************************************************************)
(* Proofs about DioMonitor: the types, the truth of the last loop event,   *)
(* that loops A and B implement one detector while reads succeed, also     *)
(* between two failures, and that the alarm is of the present opening.     *)
(***************************************************************************)
EXTENDS DioMonitor, TLAPS

\* What is appended to a sequence is its last element.
LEMMA AppendIsLast ==
  ASSUME NEW S, NEW q \in Seq(S), NEW e \in S
  PROVE  Append(q, e) # <<>> /\ Append(q, e)[Len(Append(q, e))] = e
  OBVIOUS

-----------------------------------------------------------------------------
\* A sample of the loops keeps their types.
LEMMA SampleLoopsKeepsTypes ==
  ASSUME TypeOK, NEW a \in Levels, NEW b \in Levels, SampleLoops(a, b)
  PROVE  /\ lastA' \in Levels /\ lastB' \in Levels /\ missed' \in BOOLEAN
         /\ loopEvents' \in Seq(BOOLEAN) /\ Len(loopEvents') <= MaxQueue
<1>1. MaxQueue \in Nat /\ loopEvents \in Seq(BOOLEAN) /\ Len(loopEvents) < MaxQueue
  BY MaxQueueAssumption DEF TypeOK, SampleLoops
<1>2. /\ Append(loopEvents, TRUE) \in Seq(BOOLEAN)
      /\ Append(loopEvents, FALSE) \in Seq(BOOLEAN)
      /\ Len(Append(loopEvents, TRUE)) = Len(loopEvents) + 1
      /\ Len(Append(loopEvents, FALSE)) = Len(loopEvents) + 1
      /\ Len(loopEvents) \in Nat
  BY <1>1
<1>3. loopEvents' \in {loopEvents, Append(loopEvents, TRUE), Append(loopEvents, FALSE)}
  BY DEF SampleLoops
<1>4. loopEvents' \in Seq(BOOLEAN) /\ Len(loopEvents') <= Len(loopEvents) + 1
  <2>1. CASE loopEvents' = loopEvents
    BY <1>1, <1>2, <2>1
  <2>2. CASE loopEvents' = Append(loopEvents, TRUE)
    BY <1>2, <2>2
  <2>3. CASE loopEvents' = Append(loopEvents, FALSE)
    BY <1>2, <2>3
  <2> QED
    BY <1>3, <2>1, <2>2, <2>3
<1>7. Len(loopEvents') <= MaxQueue
  <2>1. Len(loopEvents') \in Nat
    BY <1>4
  <2> QED
    BY <1>1, <1>2, <1>4, <2>1
<1>5. lastA' \in Levels /\ lastB' \in Levels
  BY DEF SampleLoops
<1>6. missed' \in BOOLEAN
  BY DEF SampleLoops
<1> QED
  BY <1>4, <1>5, <1>6, <1>7

\* So does a sample of the arm.
LEMMA SampleArmKeepsTypes ==
  ASSUME TypeOK, NEW s \in Levels, NEW overdue \in BOOLEAN, SampleArm(s, overdue)
  PROVE  /\ lastStatus' \in Levels /\ openTimed' \in BOOLEAN /\ tooLong' \in BOOLEAN
         /\ armEvents' \in Seq(ArmEvents) /\ Len(armEvents') <= MaxQueue + 1
         /\ missedArm' \in BOOLEAN
<1>0. missedArm' \in BOOLEAN
  BY DEF SampleArm
<1>1. /\ MaxQueue \in Nat /\ armEvents \in Seq(ArmEvents) /\ Len(armEvents) < MaxQueue
      /\ Len(armEvents) \in Nat
  BY MaxQueueAssumption DEF TypeOK, SampleArm
<1>2. lastStatus' \in Levels
  BY DEF SampleArm
<1>3. /\ "STATUS_ON" \in ArmEvents /\ "STATUS_OFF" \in ArmEvents
      /\ "TOO_LONG_ON" \in ArmEvents /\ "TOO_LONG_OFF" \in ArmEvents
  BY DEF ArmEvents
<1>4. CASE ArmRises(s)
  BY <1>0, <1>1, <1>2, <1>3, <1>4 DEF ArmRises, TypeOK
<1>5. CASE ArmFalls(s)
  <2> DEFINE off == Append(armEvents, "STATUS_OFF")
  <2>1. off \in Seq(ArmEvents) /\ Len(off) = Len(armEvents) + 1
    BY <1>1, <1>3
  <2>2. CASE tooLong
    <3>1. armEvents' = off \o <<"TOO_LONG_OFF">>
      BY <1>5, <2>2 DEF ArmFalls
    <3>2. <<"TOO_LONG_OFF">> \in Seq(ArmEvents) /\ Len(<<"TOO_LONG_OFF">>) = 1
      BY <1>3
    <3>3. armEvents' \in Seq(ArmEvents) /\ Len(armEvents') = Len(off) + 1
      BY <2>1, <3>1, <3>2
    <3>4. Len(armEvents') <= MaxQueue + 1
      <4> HIDE DEF off
      <4> QED
        BY <1>1, <2>1, <3>3
    <3>5. openTimed' = FALSE /\ tooLong' = FALSE
      BY <1>5 DEF ArmFalls
    <3> QED
      BY <1>0, <1>2, <3>3, <3>4, <3>5
  <2>3. CASE ~tooLong
    <3>1. armEvents' = off \o <<>>
      BY <1>5, <2>3 DEF ArmFalls
    <3>2. armEvents' = off
      BY <2>1, <3>1
    <3>3. Len(armEvents') <= MaxQueue + 1
      <4> HIDE DEF off
      <4> QED
        BY <1>1, <2>1, <3>2
    <3>4. openTimed' = FALSE /\ tooLong' = FALSE
      BY <1>5 DEF ArmFalls
    <3> QED
      BY <1>0, <1>2, <2>1, <3>2, <3>3, <3>4
  <2> QED
    BY <2>2, <2>3
<1>6. CASE ArmStays(s, overdue)
  <2>1. Append(armEvents, "TOO_LONG_ON") \in Seq(ArmEvents)
    BY <1>1, <1>3
  <2>2. Len(Append(armEvents, "TOO_LONG_ON")) = Len(armEvents) + 1
    BY <1>1, <1>3
  <2>3. CASE openTimed /\ overdue
    <3>1. /\ armEvents' = Append(armEvents, "TOO_LONG_ON")
          /\ tooLong' = TRUE /\ openTimed' = FALSE
      BY <1>6, <2>3 DEF ArmStays
    <3>2. Len(armEvents') <= MaxQueue + 1
      BY <1>1, <2>2, <3>1
    <3> QED
      BY <1>0, <1>2, <2>1, <3>1, <3>2
  <2>4. CASE ~(openTimed /\ overdue)
    <3>1. UNCHANGED <<tooLong, armEvents, openTimed>>
      BY <1>6, <2>4 DEF ArmStays
    <3>2. Len(armEvents) <= MaxQueue + 1
      BY <1>1
    <3> QED
      BY <1>0, <1>1, <1>2, <3>1, <3>2 DEF TypeOK
  <2> QED
    BY <2>3, <2>4
<1> QED
  BY <1>4, <1>5, <1>6 DEF SampleArm

LEMMA TypeInit == Init => TypeOK
<1> SUFFICES ASSUME Init PROVE TypeOK
  OBVIOUS
<1>1. LOW \in Levels
  BY LevelsAssumption
<1>2. loopEvents \in Seq(BOOLEAN) /\ armEvents \in Seq(ArmEvents)
  BY DEF Init
<1>3. Len(loopEvents) <= MaxQueue /\ Len(armEvents) <= MaxQueue + 1
  BY MaxQueueAssumption DEF Init
<1> QED
  BY <1>1, <1>2, <1>3 DEF Init, TypeOK

LEMMA TypeStep == TypeOK /\ [Next]_vars => TypeOK'
<1> SUFFICES ASSUME TypeOK, [Next]_vars PROVE TypeOK'
  OBVIOUS
<1>1. CASE Monitor
  <2>1. PICK a \in Levels, b \in Levels : SampleLoops(a, b)
    BY <1>1 DEF Monitor
  <2>2. PICK s \in Levels, overdue \in BOOLEAN : SampleArm(s, overdue)
    BY <1>1 DEF Monitor
  <2>3. loopApresent' \in BOOLEAN /\ armUp' \in BOOLEAN /\ alarm' \in BOOLEAN
    BY <1>1 DEF Monitor, TypeOK
  <2> QED
    BY <2>1, <2>2, <2>3, SampleLoopsKeepsTypes, SampleArmKeepsTypes DEF TypeOK
<1>2. CASE HandleLoopEvent
  <2>1. /\ loopEvents' \in Seq(BOOLEAN) /\ Len(loopEvents') <= MaxQueue
        /\ loopApresent' \in BOOLEAN
    BY <1>2, MaxQueueAssumption DEF HandleLoopEvent, TypeOK
  <2> QED
    BY <1>2, <2>1 DEF HandleLoopEvent, arm, TypeOK
<1>3. CASE HandleArmEvent
  <2>1. armEvents' \in Seq(ArmEvents) /\ Len(armEvents') <= MaxQueue + 1
    BY <1>3, MaxQueueAssumption DEF HandleArmEvent, TypeOK
  <2>2. armUp' \in BOOLEAN /\ alarm' \in BOOLEAN
    BY <1>3 DEF HandleArmEvent, TypeOK
  <2> QED
    BY <1>3, <2>1, <2>2 DEF HandleArmEvent, loops, TypeOK
<1>4. CASE UNCHANGED vars
  BY <1>4 DEF vars, loops, arm, TypeOK
<1> QED
  BY <1>1, <1>2, <1>3, <1>4 DEF Next

(***************************************************************************)
(* The monitor and its events have their types in every state, and the     *)
(* queues stay within their bounds (dio.cpp:121-369).                      *)
(***************************************************************************)
THEOREM TypeCorrect == Spec => []TypeOK
  BY TypeInit, TypeStep, PTL DEF Spec

-----------------------------------------------------------------------------
\* The last event the loops have told, handled or not.
LastTold == IF loopEvents = <<>> THEN loopApresent ELSE loopEvents[Len(loopEvents)]

\* While no read failed since the last event, both levels are known.
ReadCleanly == ~missed => {lastA, lastB} \subseteq {LOW, HIGH}

ToldInv == ReadCleanly /\ (~missed => (LastTold = TRUE <=> Occupied))

LEMMA ToldIsLastTold == ASSUME TypeOK PROVE ToldInv => LastEventIsTrue
<1> DEFINE told == <<loopApresent>> \o loopEvents
<1>1. loopEvents \in Seq(BOOLEAN) /\ loopApresent \in BOOLEAN /\ <<loopApresent>> \in Seq(BOOLEAN)
  BY DEF TypeOK
<1>2. told[Len(told)] = LastTold
  BY <1>1 DEF LastTold
<1>3. LastTold \in BOOLEAN
  BY <1>1 DEF LastTold
<1> QED
  BY <1>2, <1>3 DEF LastEventIsTrue, ToldInv, Occupied

LEMMA ToldInit == Init => ToldInv
  BY DEF Init, ToldInv, ReadCleanly, LastTold, Occupied, LOW, HIGH

\* A sample is an event exactly when the occupation changes, while the
\* levels before and after it are known.
LEMMA EventsAreChanges ==
  ASSUME NEW a \in {LOW, HIGH}, NEW b \in {LOW, HIGH}, {lastA, lastB} \subseteq {LOW, HIGH}
  PROVE  /\ LoopsOn(a, b) <=> ~Occupied /\ (a = HIGH \/ b = HIGH)
         /\ LoopsOff(a, b) <=> Occupied /\ ~(a = HIGH \/ b = HIGH)
  BY DEF LoopsOn, LoopsOff, Rises, Falls, StaysOff, Occupied, LOW, HIGH

LEMMA ToldStep == TypeOK /\ ToldInv /\ [Next]_vars => ToldInv'
<1> SUFFICES ASSUME TypeOK, ToldInv, [Next]_vars PROVE ToldInv'
  OBVIOUS
<1>0. loopEvents \in Seq(BOOLEAN) /\ missed \in BOOLEAN
  BY DEF TypeOK
<1>1. CASE Monitor
  <2>1. PICK a \in Levels, b \in Levels : SampleLoops(a, b)
    BY <1>1 DEF Monitor
  <2>2. lastA' = a /\ lastB' = b /\ loopApresent' = loopApresent
    BY <1>1, <2>1 DEF Monitor, SampleLoops
  <2>3. a \in {LOW, HIGH, Unread} /\ b \in {LOW, HIGH, Unread}
    BY LevelsAssumption
  <2>4. CASE LoopsOn(a, b)
    <3>1. loopEvents' = Append(loopEvents, TRUE)
      BY <2>1, <2>4 DEF SampleLoops
    <3>2. LastTold' = TRUE
      <4>1. loopEvents' # <<>> /\ loopEvents'[Len(loopEvents')] = TRUE
        BY <1>0, <3>1, AppendIsLast
      <4> QED
        BY <4>1 DEF LastTold
    <3>3. a \in {LOW, HIGH} /\ b \in {LOW, HIGH} /\ (a = HIGH \/ b = HIGH)
      BY <2>4 DEF LoopsOn, Rises, StaysOff
    <3> QED
      BY <2>2, <3>2, <3>3 DEF ToldInv, ReadCleanly, Occupied
  <2>5. CASE ~LoopsOn(a, b) /\ LoopsOff(a, b)
    <3>1. loopEvents' = Append(loopEvents, FALSE)
      BY <2>1, <2>5 DEF SampleLoops
    <3>2. LastTold' = FALSE
      <4>1. loopEvents' # <<>> /\ loopEvents'[Len(loopEvents')] = FALSE
        BY <1>0, <3>1, AppendIsLast
      <4> QED
        BY <4>1 DEF LastTold
    <3>3. a = LOW /\ b = LOW
      BY <2>5 DEF LoopsOff, Falls, StaysOff
    <3> QED
      BY <2>2, <3>2, <3>3 DEF ToldInv, ReadCleanly, Occupied, LOW, HIGH
  <2>6. CASE ~LoopsOn(a, b) /\ ~LoopsOff(a, b)
    <3>1. loopEvents' = loopEvents /\ missed' = (missed \/ Unread \in {a, b})
      BY <2>1, <2>6 DEF SampleLoops
    <3>2. SUFFICES ASSUME ~missed'
                   PROVE  a \in {LOW, HIGH} /\ b \in {LOW, HIGH} /\ (LastTold' = TRUE <=> Occupied')
      BY <2>2 DEF ToldInv, ReadCleanly
    <3>3. ~missed /\ a \in {LOW, HIGH} /\ b \in {LOW, HIGH}
      BY <2>3, <3>1, <3>2
    <3>4. {lastA, lastB} \subseteq {LOW, HIGH} /\ (LastTold = TRUE <=> Occupied)
      BY <3>3 DEF ToldInv, ReadCleanly
    <3>5. Occupied <=> (a = HIGH \/ b = HIGH)
      BY <2>6, <3>3, <3>4, EventsAreChanges
    <3>6. LastTold' = LastTold
      BY <2>2, <3>1 DEF LastTold
    <3> QED
      BY <2>2, <3>3, <3>4, <3>5, <3>6 DEF Occupied
  <2> QED
    BY <2>4, <2>5, <2>6
<1>2. CASE HandleLoopEvent
  <2>1. UNCHANGED <<lastA, lastB, missed>>
    BY <1>2 DEF HandleLoopEvent
  <2>2. LastTold' = LastTold
    <3>1. /\ loopEvents # <<>> /\ loopEvents' = Tail(loopEvents)
          /\ loopApresent' = Head(loopEvents)
      BY <1>2 DEF HandleLoopEvent
    <3>2. Len(loopEvents) \in Nat /\ Len(loopEvents) >= 1
      BY <1>0, <3>1
    <3>3. CASE Len(loopEvents) = 1
      BY <1>0, <3>1, <3>3 DEF LastTold
    <3>4. CASE Len(loopEvents) > 1
      <4>1. Len(Tail(loopEvents)) = Len(loopEvents) - 1
        BY <1>0, <3>1
      <4>2. Tail(loopEvents)[Len(loopEvents) - 1] = loopEvents[Len(loopEvents)]
        BY <1>0, <3>1, <3>4
      <4>3. loopEvents' # <<>> /\ loopEvents'[Len(loopEvents')] = loopEvents[Len(loopEvents)]
        <5>1. Len(loopEvents') = Len(loopEvents) - 1
          BY <3>1, <4>1
        <5>2. loopEvents'[Len(loopEvents')] = loopEvents[Len(loopEvents)]
          BY <3>1, <4>2, <5>1
        <5>3. Len(loopEvents') # 0
          BY <3>2, <3>4, <5>1
        <5> QED
          BY <5>2, <5>3
      <4> QED
        BY <3>1, <4>3 DEF LastTold
    <3>5. Len(loopEvents) = 1 \/ Len(loopEvents) > 1
      <4>1. \A n \in Nat : n >= 1 => n = 1 \/ n > 1
        OBVIOUS
      <4> QED
        BY <3>2, <4>1
    <3> QED
      BY <3>3, <3>4, <3>5
  <2> QED
    BY <2>1, <2>2 DEF ToldInv, ReadCleanly, Occupied
<1>3. CASE HandleArmEvent
  BY <1>3 DEF HandleArmEvent, loops, ToldInv, ReadCleanly, LastTold, Occupied
<1>4. CASE UNCHANGED vars
  BY <1>4 DEF vars, loops, ToldInv, ReadCleanly, LastTold, Occupied
<1> QED
  BY <1>1, <1>2, <1>3, <1>4 DEF Next

(***************************************************************************)
(* The last event of the loops, handled or not, tells what the last sample *)
(* saw, unless a read of a loop failed since (dio.cpp:137-174, 356-357).   *)
(***************************************************************************)
THEOREM LastEventTellsTheLane == Spec => []LastEventIsTrue
<1>1. Init => ToldInv
  BY ToldInit
<1>2. TypeOK /\ ToldInv /\ [Next]_vars => ToldInv'
  BY ToldStep
<1>3. TypeOK /\ ToldInv => LastEventIsTrue
  BY ToldIsLastTold
<1> QED
  BY <1>1, <1>2, <1>3, TypeCorrect, PTL DEF Spec

-----------------------------------------------------------------------------
\* A step of the monitor and its handlers, with the loops read cleanly before
\* and after it, is a step of the detector or leaves it alone.
LEMMA DetectorStep ==
  ASSUME TypeOK, ReadCleanly, ReadCleanly', ~missed, ~missed', [Next]_vars
  PROVE  [Detector!Change \/ Detector!Learn]_(Detector!vars)
<1>0. {lastA, lastB} \subseteq {LOW, HIGH} /\ {lastA', lastB'} \subseteq {LOW, HIGH}
  BY DEF ReadCleanly
<1>1. CASE Monitor
  <2>1. PICK a \in Levels, b \in Levels : SampleLoops(a, b)
    BY <1>1 DEF Monitor
  <2>2. lastA' = a /\ lastB' = b /\ loopApresent' = loopApresent
    BY <1>1, <2>1 DEF Monitor, SampleLoops
  <2>3. Occupied' = (a = HIGH \/ b = HIGH)
    BY <2>2 DEF Occupied
  <2>4. /\ LoopsOn(a, b) <=> ~Occupied /\ (a = HIGH \/ b = HIGH)
        /\ LoopsOff(a, b) <=> Occupied /\ ~(a = HIGH \/ b = HIGH)
    <3>1. a \in {LOW, HIGH} /\ b \in {LOW, HIGH}
      BY <1>0, <2>2
    <3> QED
      BY <1>0, <3>1, EventsAreChanges
  <2>5. CASE LoopsOn(a, b)
    <3>1. loopEvents' = Append(loopEvents, TRUE)
      BY <2>1, <2>5 DEF SampleLoops
    <3>2. Occupied = FALSE /\ Occupied' = TRUE
      BY <2>3, <2>4, <2>5 DEF Occupied
    <3> QED
      BY <2>2, <3>1, <3>2 DEF Detector!Change
  <2>6. CASE ~LoopsOn(a, b) /\ LoopsOff(a, b)
    <3>1. loopEvents' = Append(loopEvents, FALSE)
      BY <2>1, <2>6 DEF SampleLoops
    <3>2. Occupied = TRUE /\ Occupied' = FALSE
      BY <2>3, <2>4, <2>6 DEF Occupied
    <3> QED
      BY <2>2, <3>1, <3>2 DEF Detector!Change
  <2>7. CASE ~LoopsOn(a, b) /\ ~LoopsOff(a, b)
    <3>1. loopEvents' = loopEvents
      BY <2>1, <2>7 DEF SampleLoops
    <3>2. Occupied' = Occupied
      BY <2>3, <2>4, <2>7 DEF Occupied
    <3> QED
      BY <2>2, <3>1, <3>2 DEF Detector!vars
  <2> QED
    BY <2>5, <2>6, <2>7
<1>2. CASE HandleLoopEvent
  BY <1>2 DEF HandleLoopEvent, Detector!Learn, Occupied
<1>3. CASE HandleArmEvent
  BY <1>3 DEF HandleArmEvent, loops, Detector!vars, Occupied
<1>4. CASE UNCHANGED vars
  BY <1>4 DEF vars, loops, Detector!vars, Occupied
<1> QED
  BY <1>1, <1>2, <1>3, <1>4 DEF Next

(***************************************************************************)
(* From an event that is read cleanly to the next failed read, loops A and *)
(* B together are one detector whose every change is one event (dio.cpp:   *)
(* 137-174, 356-357, event_handler.cpp:93-106).                            *)
(***************************************************************************)
THEOREM LoopsDetectWhatTheyRead == Spec => DetectsWhatItReads
<1>1. Init => ToldInv
  BY ToldInit
<1>2. TypeOK /\ ToldInv /\ [Next]_vars => ToldInv'
  BY ToldStep
<1>3. TypeOK /\ ToldInv /\ ToldInv' /\ [Next]_vars
      => [~missed /\ ~missed' => Detector!Change \/ Detector!Learn]_(Detector!vars)
  BY DetectorStep DEF ToldInv
<1> QED
  BY <1>1, <1>2, <1>3, TypeCorrect, PTL DEF Spec, DetectsWhatItReads

\* Nothing is missed when no read can fail.
LEMMA NothingMissed ==
  ASSUME Levels = {LOW, HIGH}, TypeOK, ~missed, [Next]_vars
  PROVE  ~missed'
<1>1. CASE Monitor
  <2>1. PICK a \in Levels, b \in Levels : SampleLoops(a, b)
    BY <1>1 DEF Monitor
  <2> QED
    BY <2>1 DEF SampleLoops, LOW, HIGH, Unread
<1>2. CASE HandleLoopEvent
  BY <1>2 DEF HandleLoopEvent
<1>3. CASE HandleArmEvent
  BY <1>3 DEF HandleArmEvent, loops
<1>4. CASE UNCHANGED vars
  BY <1>4 DEF vars, loops
<1> QED
  BY <1>1, <1>2, <1>3, <1>4 DEF Next

(***************************************************************************)
(* Loops A and B together implement one detector whose every change is one *)
(* event, handled in order, when no read fails (dio.cpp:137-174,           *)
(* event_handler.cpp:93-106).                                              *)
(***************************************************************************)
THEOREM LoopsAreOneDetector == ASSUME Levels = {LOW, HIGH} PROVE Spec => DetectorSpec
<1>1. Init => Detector!Init
  BY DEF Init, Detector!Init, Occupied, LOW, HIGH
<1>2. Init => ~missed
  BY DEF Init
<1>3. TypeOK /\ ~missed /\ [Next]_vars => ~missed'
  BY NothingMissed
<1>4. TypeOK /\ TypeOK' /\ ~missed /\ ~missed' /\ [Next]_vars
      => [Detector!Change \/ Detector!Learn]_(Detector!vars)
  <2>1. TypeOK => ReadCleanly
    BY DEF TypeOK, ReadCleanly
  <2>2. TypeOK' => ReadCleanly'
    BY DEF TypeOK, ReadCleanly
  <2> QED
    BY <2>1, <2>2, DetectorStep
<1> QED
  BY <1>1, <1>2, <1>3, <1>4, TypeCorrect, PTL DEF Spec, DetectorSpec, Detector!Spec
-----------------------------------------------------------------------------
\* What `known` becomes when the events q are handled, with on and off the
\* events that set and clear it: the last of those decides.
Told(q, on, off, known) ==
  \/ known /\ \A j \in 1..Len(q) : q[j] # off
  \/ \E k \in 1..Len(q) : q[k] = on /\ \A j \in (k + 1)..Len(q) : q[j] # off

LEMMA ToldByNone ==
  ASSUME NEW on, NEW off, NEW known \in BOOLEAN
  PROVE  Told(<<>>, on, off, known) <=> known
  BY DEF Told

\* The event that is added last decides, or leaves it as it was told.
LEMMA ToldByAppend ==
  ASSUME NEW q \in Seq(ArmEvents), NEW e \in ArmEvents, NEW on, NEW off, on # off,
         NEW known \in BOOLEAN
  PROVE  /\ e = on => Told(Append(q, e), on, off, known)
         /\ e = off => ~Told(Append(q, e), on, off, known)
         /\ e \notin {on, off} => (Told(Append(q, e), on, off, known) <=> Told(q, on, off, known))
<1> DEFINE r == Append(q, e)
           n == Len(q)
<1>1. /\ n \in Nat /\ Len(r) = n + 1 /\ r[n + 1] = e
      /\ \A j \in 1..n : r[j] = q[j]
  OBVIOUS
<1> HIDE DEF r, n
<1>2. \A j \in 1..(n + 1) : j \in 1..n \/ j = n + 1
  BY <1>1
<1>3. ASSUME e = on PROVE Told(r, on, off, known)
  <2>1. n + 1 \in 1..Len(r) /\ r[n + 1] = on /\ \A j \in (n + 1 + 1)..Len(r) : r[j] # off
    BY <1>1, <1>3
  <2> QED
    BY <2>1 DEF Told
<1>4. ASSUME e = off PROVE ~Told(r, on, off, known)
  <2>1. n + 1 \in 1..Len(r) /\ r[n + 1] = off
    BY <1>1, <1>4
  <2>2. \A k \in 1..Len(r) : r[k] = on => n + 1 \in (k + 1)..Len(r)
    <3> SUFFICES ASSUME NEW k \in 1..Len(r), r[k] = on PROVE n + 1 \in (k + 1)..Len(r)
      OBVIOUS
    <3>1. k # n + 1
      BY <2>1
    <3> QED
      BY <1>1, <3>1
  <2> QED
    BY <2>1, <2>2 DEF Told
<1>5. ASSUME e \notin {on, off} PROVE Told(r, on, off, known) <=> Told(q, on, off, known)
  <2>1. (\A j \in 1..Len(r) : r[j] # off) <=> \A j \in 1..n : q[j] # off
    BY <1>1, <1>2, <1>5
  <2>2. ASSUME NEW k \in 1..n
        PROVE  (r[k] = on /\ \A j \in (k + 1)..Len(r) : r[j] # off)
                 <=> (q[k] = on /\ \A j \in (k + 1)..n : q[j] # off)
    <3>1. r[k] = q[k]
      BY <1>1
    <3>2. \A j \in (k + 1)..n : j \in 1..n /\ j \in (k + 1)..Len(r)
      BY <1>1
    <3>3. \A j \in (k + 1)..Len(r) : j \in (k + 1)..n \/ j = n + 1
      BY <1>1
    <3> QED
      BY <1>1, <1>5, <3>1, <3>2, <3>3
  <2>3. \A k \in 1..Len(r) : r[k] = on => k \in 1..n
    BY <1>1, <1>2, <1>5
  <2>4. \A k \in 1..n : k \in 1..Len(r)
    BY <1>1
  <2>5. (\E k \in 1..Len(r) : r[k] = on /\ \A j \in (k + 1)..Len(r) : r[j] # off)
          <=> \E k \in 1..n : q[k] = on /\ \A j \in (k + 1)..n : q[j] # off
    BY <2>2, <2>3, <2>4
  <2> QED
    BY <2>1, <2>5 DEF Told, n
<1> QED
  BY <1>3, <1>4, <1>5 DEF r

\* Handling the first event leaves what is told.
LEMMA ToldByTail ==
  ASSUME NEW q \in Seq(ArmEvents), q # <<>>, NEW on, NEW off, on # off,
         NEW known \in BOOLEAN, NEW new \in BOOLEAN,
         Head(q) = on => new, Head(q) = off => ~new,
         Head(q) \notin {on, off} => new = known
  PROVE  Told(Tail(q), on, off, new) <=> Told(q, on, off, known)
<1> DEFINE r == Tail(q)
           n == Len(r)
<1>1. /\ n \in Nat /\ Len(q) = n + 1 /\ q[1] = Head(q)
      /\ \A j \in 1..n : r[j] = q[j + 1]
  OBVIOUS
<1> HIDE DEF r, n
<1>2. ASSUME NEW k \in 0..n
      PROVE  (\A j \in (k + 1)..n : r[j] # off) <=> \A j \in (k + 2)..Len(q) : q[j] # off
  <2>1. \A j \in (k + 1)..n : j + 1 \in (k + 2)..Len(q) /\ r[j] = q[j + 1]
    BY <1>1
  <2>2. \A j \in (k + 2)..Len(q) : j - 1 \in (k + 1)..n /\ r[j - 1] = q[j]
    <3> SUFFICES ASSUME NEW j \in (k + 2)..Len(q) PROVE j - 1 \in (k + 1)..n /\ r[j - 1] = q[j]
      OBVIOUS
    <3>1. j - 1 \in (k + 1)..n /\ j - 1 \in 1..n /\ (j - 1) + 1 = j
      BY <1>1
    <3> QED
      BY <1>1, <3>1
  <2> QED
    BY <2>1, <2>2
<1> DEFINE restQ == \E k \in 2..Len(q) : q[k] = on /\ \A j \in (k + 1)..Len(q) : q[j] # off
           clearQ == \A j \in 2..Len(q) : q[j] # off
           restR == \E k \in 1..n : r[k] = on /\ \A j \in (k + 1)..n : r[j] # off
           clearR == \A j \in 1..n : r[j] # off
<1>3. clearR <=> clearQ
  <2>1. 0 \in 0..n /\ 0 + 1 = 1 /\ 0 + 2 = 2
    BY <1>1
  <2> QED
    BY <1>2, <2>1
<1>4. restR <=> restQ
  <2>1. ASSUME NEW k \in 1..n, r[k] = on, \A j \in (k + 1)..n : r[j] # off PROVE restQ
    <3>1. k \in 0..n /\ k + 1 \in 2..Len(q) /\ q[k + 1] = on /\ (k + 1) + 1 = k + 2
      BY <1>1, <2>1
    <3>2. \A j \in (k + 2)..Len(q) : q[j] # off
      BY <1>2, <2>1, <3>1
    <3> QED
      BY <3>1, <3>2
  <2>2. ASSUME NEW k \in 2..Len(q), q[k] = on, \A j \in (k + 1)..Len(q) : q[j] # off PROVE restR
    <3>1. k - 1 \in 0..n /\ k - 1 \in 1..n /\ (k - 1) + 1 = k /\ (k - 1) + 2 = k + 1
      BY <1>1
    <3>2. r[k - 1] = on
      BY <1>1, <2>2, <3>1
    <3>3. \A j \in ((k - 1) + 1)..n : r[j] # off
      BY <1>2, <2>2, <3>1
    <3> QED
      BY <3>1, <3>2, <3>3
  <2> QED
    BY <2>1, <2>2
<1>5. \A j \in 1..Len(q) : j = 1 \/ j \in 2..Len(q)
  BY <1>1
<1>6. 1 \in 1..Len(q) /\ 1 + 1 = 2 /\ \A j \in 2..Len(q) : j \in 1..Len(q)
  BY <1>1
<1>7. (\A j \in 1..Len(q) : q[j] # off) <=> (Head(q) # off /\ clearQ)
  BY <1>1, <1>5, <1>6
<1>8. (\E k \in 1..Len(q) : q[k] = on /\ \A j \in (k + 1)..Len(q) : q[j] # off)
        <=> (restQ \/ (Head(q) = on /\ clearQ))
  <2>1. ASSUME NEW k \in 1..Len(q), q[k] = on, \A j \in (k + 1)..Len(q) : q[j] # off
        PROVE  restQ \/ (Head(q) = on /\ clearQ)
    <3>1. CASE k = 1
      BY <1>1, <1>6, <2>1, <3>1
    <3>2. CASE k \in 2..Len(q)
      BY <2>1, <3>2
    <3> QED
      BY <1>5, <3>1, <3>2
  <2>2. ASSUME Head(q) = on, clearQ
        PROVE  \E k \in 1..Len(q) : q[k] = on /\ \A j \in (k + 1)..Len(q) : q[j] # off
    BY <1>1, <1>6, <2>2
  <2>3. ASSUME restQ
        PROVE  \E k \in 1..Len(q) : q[k] = on /\ \A j \in (k + 1)..Len(q) : q[j] # off
    BY <1>6, <2>3
  <2> QED
    BY <2>1, <2>2, <2>3
<1>9. Told(q, on, off, known) <=> (known /\ Head(q) # off /\ clearQ) \/ restQ \/ (Head(q) = on /\ clearQ)
  BY <1>7, <1>8 DEF Told
<1>10. Told(r, on, off, new) <=> (new /\ clearR) \/ restR
  BY DEF Told, n
<1> HIDE DEF restQ, clearQ, restR, clearR
<1> QED
  BY <1>3, <1>4, <1>9, <1>10 DEF r

-----------------------------------------------------------------------------
\* The events tell the monitor's alarm; while no read of the arm failed since
\* its last edge they tell its status too, and the alarm and the clock are of
\* an arm that is up.
AlarmInv ==
  /\ Told(armEvents, "TOO_LONG_ON", "TOO_LONG_OFF", alarm) <=> tooLong
  /\ ~missedArm => /\ lastStatus \in {LOW, HIGH}
                   /\ Told(armEvents, "STATUS_ON", "STATUS_OFF", armUp) <=> lastStatus = HIGH
                   /\ tooLong \/ openTimed => lastStatus = HIGH

LEMMA AlarmInit == Init => AlarmInv
<1> SUFFICES ASSUME Init PROVE AlarmInv
  OBVIOUS
<1>1. armEvents = <<>> /\ alarm = FALSE /\ armUp = FALSE
  BY DEF Init
<1>2. /\ ~Told(armEvents, "TOO_LONG_ON", "TOO_LONG_OFF", alarm)
      /\ ~Told(armEvents, "STATUS_ON", "STATUS_OFF", armUp)
  BY <1>1, ToldByNone
<1> QED
  BY <1>2 DEF AlarmInv, Init, LOW, HIGH

LEMMA AlarmOfSample ==
  ASSUME TypeOK, AlarmInv, NEW s \in Levels, NEW overdue \in BOOLEAN, SampleArm(s, overdue),
         alarm' = alarm, armUp' = armUp
  PROVE  AlarmInv'
<1> DEFINE TellsAlarm(q) == Told(q, "TOO_LONG_ON", "TOO_LONG_OFF", alarm)
           TellsArm(q) == Told(q, "STATUS_ON", "STATUS_OFF", armUp)
<1>1. /\ armEvents \in Seq(ArmEvents) /\ alarm \in BOOLEAN /\ armUp \in BOOLEAN
      /\ tooLong \in BOOLEAN /\ openTimed \in BOOLEAN /\ missedArm \in BOOLEAN
  BY DEF TypeOK
<1>2. \A e \in ArmEvents, q \in Seq(ArmEvents) : Append(q, e) \in Seq(ArmEvents)
  OBVIOUS
<1>3. /\ "STATUS_ON" \in ArmEvents /\ "STATUS_OFF" \in ArmEvents
      /\ "TOO_LONG_ON" \in ArmEvents /\ "TOO_LONG_OFF" \in ArmEvents
  BY DEF ArmEvents
<1>4. \A q \in Seq(ArmEvents) :
        /\ TellsAlarm(Append(q, "TOO_LONG_ON")) /\ ~TellsAlarm(Append(q, "TOO_LONG_OFF"))
        /\ TellsAlarm(Append(q, "STATUS_ON")) <=> TellsAlarm(q)
        /\ TellsAlarm(Append(q, "STATUS_OFF")) <=> TellsAlarm(q)
        /\ TellsArm(Append(q, "STATUS_ON")) /\ ~TellsArm(Append(q, "STATUS_OFF"))
        /\ TellsArm(Append(q, "TOO_LONG_ON")) <=> TellsArm(q)
        /\ TellsArm(Append(q, "TOO_LONG_OFF")) <=> TellsArm(q)
  <2> TAKE q \in Seq(ArmEvents)
  <2> QED
    BY <1>1, <1>3, ToldByAppend
<1>5. AlarmInv' <=> /\ TellsAlarm(armEvents') <=> tooLong'
                    /\ ~missedArm' => /\ lastStatus' \in {LOW, HIGH}
                                      /\ TellsArm(armEvents') <=> lastStatus' = HIGH
                                      /\ tooLong' \/ openTimed' => lastStatus' = HIGH
  BY DEF AlarmInv
<1>6. /\ TellsAlarm(armEvents) <=> tooLong
      /\ ~missedArm => /\ lastStatus \in {LOW, HIGH}
                       /\ TellsArm(armEvents) <=> lastStatus = HIGH
                       /\ tooLong \/ openTimed => lastStatus = HIGH
  BY DEF AlarmInv
<1> HIDE DEF TellsAlarm, TellsArm
<1>7. lastStatus' = s /\ s \in {LOW, HIGH, Unread}
  BY LevelsAssumption DEF SampleArm
<1>8. CASE ArmRises(s)
  <2>1. /\ s = HIGH /\ openTimed' = TRUE /\ tooLong' = tooLong
        /\ armEvents' = Append(armEvents, "STATUS_ON")
    BY <1>8 DEF ArmRises, Rises
  <2> QED
    BY <1>1, <1>4, <1>5, <1>6, <1>7, <2>1
<1>9. CASE ArmFalls(s)
  <2>1. /\ s = LOW /\ openTimed' = FALSE /\ tooLong' = FALSE
        /\ armEvents' = Append(armEvents, "STATUS_OFF")
                        \o (IF tooLong THEN <<"TOO_LONG_OFF">> ELSE <<>>)
    BY <1>9 DEF ArmFalls, Falls
  <2>2. Append(armEvents, "STATUS_OFF") \in Seq(ArmEvents)
    BY <1>1, <1>2, <1>3
  <2>3. CASE tooLong
    <3>1. armEvents' = Append(armEvents, "STATUS_OFF") \o <<"TOO_LONG_OFF">>
      BY <2>1, <2>3
    <3>2. \A q \in Seq(ArmEvents) : q \o <<"TOO_LONG_OFF">> = Append(q, "TOO_LONG_OFF")
      BY <1>3
    <3>3. armEvents' = Append(Append(armEvents, "STATUS_OFF"), "TOO_LONG_OFF")
      BY <2>2, <3>1, <3>2
    <3>4. ~TellsAlarm(armEvents') /\ ~TellsArm(armEvents')
      BY <1>1, <1>4, <2>2, <3>3
    <3> QED
      BY <1>5, <1>7, <2>1, <3>4 DEF LOW, HIGH
  <2>4. CASE ~tooLong
    <3>1. armEvents' = Append(armEvents, "STATUS_OFF")
      <4>1. armEvents' = Append(armEvents, "STATUS_OFF") \o <<>>
        BY <2>1, <2>4
      <4>2. \A q \in Seq(ArmEvents) : q \o <<>> = q
        OBVIOUS
      <4> QED
        BY <2>2, <4>1, <4>2
    <3>2. ~TellsAlarm(armEvents') /\ ~TellsArm(armEvents')
      BY <1>1, <1>4, <1>6, <2>4, <3>1
    <3> QED
      BY <1>5, <1>7, <2>1, <3>2 DEF LOW, HIGH
  <2> QED
    BY <2>3, <2>4
<1>10. CASE ArmStays(s, overdue)
  <2>1. ~missedArm' => ~missedArm /\ s \in {LOW, HIGH} /\ s = lastStatus
    <3>1. ~Rises(s, lastStatus) /\ ~Falls(s, lastStatus)
      BY <1>10 DEF ArmStays
    <3>2. missedArm' <=> missedArm \/ s = Unread
      BY <3>1 DEF SampleArm
    <3> QED
      BY <1>1, <1>6, <1>7, <3>1, <3>2 DEF Rises, Falls, LOW, HIGH
  <2>2. CASE openTimed /\ overdue
    <3>1. /\ tooLong' = TRUE /\ openTimed' = FALSE
          /\ armEvents' = Append(armEvents, "TOO_LONG_ON")
      BY <1>10, <2>2 DEF ArmStays
    <3> QED
      BY <1>1, <1>4, <1>5, <1>6, <1>7, <2>1, <2>2, <3>1
  <2>3. CASE ~(openTimed /\ overdue)
    <3>1. UNCHANGED <<tooLong, armEvents, openTimed>>
      BY <1>10, <2>3 DEF ArmStays
    <3> QED
      BY <1>5, <1>6, <1>7, <2>1, <3>1
  <2> QED
    BY <2>2, <2>3
<1> QED
  BY <1>8, <1>9, <1>10 DEF SampleArm

LEMMA AlarmStep == TypeOK /\ AlarmInv /\ [Next]_vars => AlarmInv'
<1> SUFFICES ASSUME TypeOK, AlarmInv, [Next]_vars PROVE AlarmInv'
  OBVIOUS
<1>1. CASE Monitor
  <2>1. PICK s \in Levels, overdue \in BOOLEAN : SampleArm(s, overdue)
    BY <1>1 DEF Monitor
  <2> QED
    BY <1>1, <2>1, AlarmOfSample DEF Monitor
<1>2. CASE HandleLoopEvent
  BY <1>2 DEF HandleLoopEvent, arm, AlarmInv
<1>3. CASE HandleArmEvent
  <2>1. /\ armEvents \in Seq(ArmEvents) /\ armEvents # <<>> /\ armEvents' = Tail(armEvents)
        /\ alarm \in BOOLEAN /\ armUp \in BOOLEAN /\ alarm' \in BOOLEAN /\ armUp' \in BOOLEAN
    <3>1. TypeOK'
      BY TypeStep
    <3> QED
      BY <1>3, <3>1 DEF HandleArmEvent, TypeOK
  <2>2. UNCHANGED <<lastStatus, openTimed, tooLong, missedArm>>
    BY <1>3 DEF HandleArmEvent
  <2>3. /\ Head(armEvents) = "TOO_LONG_ON" => alarm'
        /\ Head(armEvents) = "TOO_LONG_OFF" => ~alarm'
        /\ Head(armEvents) \notin {"TOO_LONG_ON", "TOO_LONG_OFF"} => alarm' = alarm
    BY <1>3 DEF HandleArmEvent
  <2>4. /\ Head(armEvents) = "STATUS_ON" => armUp'
        /\ Head(armEvents) = "STATUS_OFF" => ~armUp'
        /\ Head(armEvents) \notin {"STATUS_ON", "STATUS_OFF"} => armUp' = armUp
    BY <1>3 DEF HandleArmEvent
  <2>5. Told(armEvents', "TOO_LONG_ON", "TOO_LONG_OFF", alarm')
          <=> Told(armEvents, "TOO_LONG_ON", "TOO_LONG_OFF", alarm)
    <3>1. \A new \in BOOLEAN : new = alarm' =>
            (Told(Tail(armEvents), "TOO_LONG_ON", "TOO_LONG_OFF", new)
               <=> Told(armEvents, "TOO_LONG_ON", "TOO_LONG_OFF", alarm))
      BY <2>1, <2>3, ToldByTail
    <3> QED
      BY <2>1, <3>1
  <2>6. Told(armEvents', "STATUS_ON", "STATUS_OFF", armUp')
          <=> Told(armEvents, "STATUS_ON", "STATUS_OFF", armUp)
    <3>1. \A new \in BOOLEAN : new = armUp' =>
            (Told(Tail(armEvents), "STATUS_ON", "STATUS_OFF", new)
               <=> Told(armEvents, "STATUS_ON", "STATUS_OFF", armUp))
      BY <2>1, <2>4, ToldByTail
    <3> QED
      BY <2>1, <3>1
  <2> QED
    BY <2>2, <2>5, <2>6 DEF AlarmInv
<1>4. CASE UNCHANGED vars
  BY <1>4 DEF vars, arm, AlarmInv
<1> QED
  BY <1>1, <1>2, <1>3, <1>4 DEF Next

(***************************************************************************)
(* The alarm is for this opening of the arm: with the events handled it is *)
(* on exactly when the monitor has raised it, and neither it nor the clock *)
(* outlives the opening unless a read of the arm failed since its last     *)
(* edge (dio.cpp:266-291, 341-354, 362).                                   *)
(***************************************************************************)
THEOREM AlarmsAreOfTheirOpening == Spec => []AlarmIsOfThisOpening
<1>1. Init => AlarmInv
  BY AlarmInit
<1>2. TypeOK /\ AlarmInv /\ [Next]_vars => AlarmInv'
  BY AlarmStep
<1>3. TypeOK /\ AlarmInv => AlarmIsOfThisOpening
  <2> SUFFICES ASSUME TypeOK, AlarmInv PROVE AlarmIsOfThisOpening
    OBVIOUS
  <2>1. alarm \in BOOLEAN /\ armUp \in BOOLEAN
    BY DEF TypeOK
  <2>2. armEvents = <<>> => /\ Told(armEvents, "TOO_LONG_ON", "TOO_LONG_OFF", alarm) <=> alarm
                            /\ Told(armEvents, "STATUS_ON", "STATUS_OFF", armUp) <=> armUp
    BY <2>1, ToldByNone
  <2> QED
    BY <2>2 DEF AlarmInv, AlarmIsOfThisOpening
<1> QED
  BY <1>1, <1>2, <1>3, TypeCorrect, PTL DEF Spec
=============================================================================
