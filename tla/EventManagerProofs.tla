------------------------- MODULE EventManagerProofs -------------------------
(***************************************************************************)
(* Proofs about EventManager for every set of producers and every bound.   *)
(***************************************************************************)
EXTENDS EventManager, TLAPS

(***************************************************************************)
(* A sleeper found the queue empty under the mutex, which it still holds   *)
(* at "sleep"; once it waits, whoever fills the queue owes it a notify.    *)
(***************************************************************************)
MutexOwner == mutexHeld <=> pcEvent \in {"predicate", "sleep", "drain"}
SleepsOnEmptyQueue == pcEvent = "sleep" => eventQueue = <<>>
WaitingIsAtWait == waiting => pcEvent = "wait"
HandMatchesPc == inHand # NoEvent <=> pcEvent = "process"

Control == MutexOwner /\ SleepsOnEmptyQueue /\ WaitingIsAtWait /\ HandMatchesPc

IInv == TypeOK /\ Control /\ NoLostWakeup

\* An event is a pair, so it is never the empty tuple that stands for "none".
LEMMA NoEventIsNotAnEvent == NoEvent \notin Event
  BY DEF NoEvent, Event

\* The program starts with an empty queue, the mutex free and nobody waiting.
LEMMA InitIInv == Init => IInv
<1> SUFFICES ASSUME Init PROVE IInv
  OBVIOUS
<1> USE MaxEventsAssumption DEF Init
<1>1. TypeOK
  <2>1. <<>> \in Seq(Event) /\ NoEvent \in Event \cup {NoEvent}
    OBVIOUS
  <2>2. 0 \in 0..MaxEvents
    OBVIOUS
  <2>3. QED
    BY <2>1, <2>2 DEF TypeOK
<1>2. Control
  BY DEF Control, MutexOwner, SleepsOnEmptyQueue, WaitingIsAtWait,
         HandMatchesPc
<1>3. NoLostWakeup
  BY DEF NoLostWakeup
<1>4. QED
  BY <1>1, <1>2, <1>3 DEF IInv

\* The variables keep their types in every step: ProcessEvent always finds
\* an event in the hand.
LEMMA StepTypeOK == TypeOK /\ HandMatchesPc /\ [Next]_vars => TypeOK'
<1> SUFFICES ASSUME TypeOK, HandMatchesPc, [Next]_vars PROVE TypeOK'
  OBVIOUS
<1> USE MaxEventsAssumption DEF TypeOK
<1>1. ASSUME NEW p \in Producers, Push(p) PROVE TypeOK'
  <2>1. <<p, pushed[p] + 1>> \in Event
    BY <1>1 DEF Push, Event
  <2>2. eventQueue' \in Seq(Event)
    BY <1>1, <2>1 DEF Push
  <2>3. pushed[p] + 1 \in 0..MaxEvents
    BY <1>1 DEF Push
  <2>4. pushed' \in [Producers -> 0..MaxEvents]
    BY <1>1, <2>3 DEF Push
  <2>5. pcProducer' \in [Producers -> {"idle", "notify"}]
    BY <1>1 DEF Push
  <2>6. QED
    BY <1>1, <2>2, <2>4, <2>5 DEF Push, eventVars
<1>2. ASSUME NEW p \in Producers, Notify(p) PROVE TypeOK'
  BY <1>2 DEF Notify, NotifyOne
<1>3. CASE EventThread
  <2>1. CASE TakeFront
    <3>1. Head(eventQueue) \in Event /\ Tail(eventQueue) \in Seq(Event)
      BY <2>1 DEF TakeFront
    <3>2. QED
      BY <2>1, <3>1 DEF TakeFront, others
  <2>2. CASE ProcessEvent
    <3>1. inHand \in Event
      BY <2>2 DEF ProcessEvent, HandMatchesPc
    <3>2. QED
      BY <2>2, <3>1 DEF ProcessEvent, others
  <2>3. CASE TestRunning \/ LockQueue \/ EvaluatePredicate
    BY <2>3 DEF TestRunning, LockQueue, Lock, EvaluatePredicate, others
  <2>4. CASE Sleep \/ WakeUp \/ QueueDrained \/ Relock
    BY <2>4 DEF Sleep, WakeUp, QueueDrained, Relock, Lock, others
  <2>5. QED
    BY <1>3, <2>1, <2>2, <2>3, <2>4 DEF EventThread
<1>4. CASE SpuriousWakeup
  BY <1>4 DEF SpuriousWakeup, others
<1>5. CASE Stopper
  BY <1>5 DEF Stopper, StopRunning, StopNotify, StopJoin, NotifyOne, eventVars
<1>6. CASE UNCHANGED vars
  BY <1>6 DEF vars
<1>7. QED
  BY <1>1, <1>2, <1>3, <1>4, <1>5, <1>6 DEF Next

\* Mutex ownership, what a sleeper knows of the queue and the one event in
\* hand are kept by every step.
LEMMA StepControl == TypeOK /\ Control /\ [Next]_vars => Control'
<1> SUFFICES ASSUME TypeOK, Control, [Next]_vars PROVE Control'
  OBVIOUS
<1> USE DEF Control, MutexOwner, SleepsOnEmptyQueue, WaitingIsAtWait,
            HandMatchesPc
<1>1. ASSUME NEW p \in Producers, Push(p) PROVE Control'
  BY <1>1 DEF Push, eventVars
<1>2. ASSUME NEW p \in Producers, Notify(p) PROVE Control'
  BY <1>2 DEF Notify, NotifyOne
<1>3. CASE EventThread
  <2>1. CASE TakeFront
    <3>1. Head(eventQueue) \in Event
      BY <2>1 DEF TakeFront, TypeOK
    <3>2. QED
      BY <2>1, <3>1, NoEventIsNotAnEvent DEF TakeFront, others
  <2>2. CASE ProcessEvent
    BY <2>2 DEF ProcessEvent, others
  <2>3. CASE TestRunning \/ LockQueue \/ EvaluatePredicate
    BY <2>3 DEF TestRunning, LockQueue, Lock, EvaluatePredicate,
                WaitPredicate, others
  <2>4. CASE Sleep \/ WakeUp \/ QueueDrained \/ Relock
    BY <2>4 DEF Sleep, WakeUp, QueueDrained, Relock, Lock, others
  <2>5. QED
    BY <1>3, <2>1, <2>2, <2>3, <2>4 DEF EventThread
<1>4. CASE SpuriousWakeup
  BY <1>4 DEF SpuriousWakeup, others
<1>5. CASE Stopper
  BY <1>5 DEF Stopper, StopRunning, StopNotify, StopJoin, NotifyOne, eventVars
<1>6. CASE UNCHANGED vars
  BY <1>6 DEF vars
<1>7. QED
  BY <1>1, <1>2, <1>3, <1>4, <1>5, <1>6 DEF Next

\* A push leaves its producer owing a notify, a notify empties the wait set,
\* and the event thread joins the wait set only over an empty queue.
LEMMA StepNoLostWakeup == IInv /\ [Next]_vars => NoLostWakeup'
<1> SUFFICES ASSUME IInv, [Next]_vars PROVE NoLostWakeup'
  OBVIOUS
<1> USE DEF IInv, NoLostWakeup
<1>1. ASSUME NEW p \in Producers, Push(p) PROVE NoLostWakeup'
  BY <1>1 DEF Push, TypeOK
<1>2. ASSUME NEW p \in Producers, Notify(p) PROVE NoLostWakeup'
  BY <1>2 DEF Notify, NotifyOne
<1>3. CASE EventThread
  <2>1. CASE Sleep
    BY <2>1 DEF Sleep, Control, SleepsOnEmptyQueue
  <2>2. CASE TestRunning \/ LockQueue \/ EvaluatePredicate \/ WakeUp
    BY <2>2 DEF TestRunning, LockQueue, Lock, EvaluatePredicate, WakeUp,
                others
  <2>3. CASE TakeFront \/ QueueDrained \/ ProcessEvent \/ Relock
    <3>1. ~waiting /\ waiting' = waiting
      BY <2>3 DEF TakeFront, QueueDrained, ProcessEvent, Relock, Lock,
                  Control, WaitingIsAtWait
    <3>2. QED
      BY <3>1
  <2>4. QED
    BY <1>3, <2>1, <2>2, <2>3 DEF EventThread
<1>4. CASE SpuriousWakeup
  BY <1>4 DEF SpuriousWakeup, others
<1>5. CASE Stopper
  BY <1>5 DEF Stopper, StopRunning, StopNotify, StopJoin, NotifyOne, eventVars
<1>6. CASE UNCHANGED vars
  BY <1>6 DEF vars
<1>7. QED
  BY <1>1, <1>2, <1>3, <1>4, <1>5, <1>6 DEF Next

LEMMA StepIInv == IInv /\ [Next]_vars => IInv'
  BY StepTypeOK, StepControl, StepNoLostWakeup DEF IInv, Control

LEMMA Inductive == SafeSpec => []IInv
  BY InitIInv, StepIInv, PTL DEF SafeSpec

(***************************************************************************)
(* For every set of producers: the variables keep their types, and the     *)
(* event thread never handles a moved-from event (event_manager.cpp:90-98).*)
(***************************************************************************)
THEOREM TypeCorrect == Spec => []TypeOK
  BY Inductive, PTL DEF Spec, IInv

(***************************************************************************)
(* For every set of producers: no wakeup of the event thread is lost       *)
(* (event_manager.cpp:66-71 against 77-80).                                *)
(***************************************************************************)
THEOREM WakeupsAreKept == Spec => []NoLostWakeup
  BY Inductive, PTL DEF Spec, IInv

-----------------------------------------------------------------------------
\* Putting an event back at the front of a queue.
LEMMA Cons ==
  ASSUME NEW S, NEW q \in Seq(S), NEW h \in S
  PROVE  /\ <<h>> \o q # <<>>
         /\ Head(<<h>> \o q) = h
         /\ Tail(<<h>> \o q) = q
         /\ \A e \in S : <<h>> \o Append(q, e) = Append(<<h>> \o q, e)
<1> DEFINE hq == <<h>> \o q
<1>1. hq \in Seq(S) /\ Len(hq) = 1 + Len(q)
  OBVIOUS
<1>2. hq[1] = h /\ \A i \in 1..Len(q) : hq[i + 1] = q[i]
  OBVIOUS
<1>3. Tail(hq) = q
  <2>1. Tail(hq) \in Seq(S) /\ Len(Tail(hq)) = Len(q)
    BY <1>1
  <2>2. \A i \in 1..Len(q) : Tail(hq)[i] = q[i]
    BY <1>1, <1>2
  <2>3. QED
    BY <2>1, <2>2
<1>4. ASSUME NEW e \in S PROVE <<h>> \o Append(q, e) = Append(hq, e)
  <2>1. Append(q, e) \in Seq(S) /\ Len(Append(q, e)) = Len(q) + 1
    OBVIOUS
  <2>2. Len(<<h>> \o Append(q, e)) = Len(Append(hq, e))
    BY <1>1, <2>1
  <2>3. \A i \in 1..Len(q) + 2 :
          (<<h>> \o Append(q, e))[i] = Append(hq, e)[i]
    BY <1>1, <1>2, <2>1
  <2>4. QED
    BY <1>1, <2>1, <2>2, <2>3
<1>5. QED
  BY <1>1, <1>2, <1>3, <1>4

\* Taking the front of a queue in hand and putting it back changes nothing.
LEMMA Uncons ==
  ASSUME NEW S, NEW q \in Seq(S), q # <<>>
  PROVE  <<Head(q)>> \o Tail(q) = q
<1> DEFINE r == <<Head(q)>> \o Tail(q)
<1>1. Tail(q) \in Seq(S) /\ Len(Tail(q)) = Len(q) - 1 /\ Head(q) \in S
  OBVIOUS
<1>2. r \in Seq(S) /\ Len(r) = Len(q)
  BY <1>1
<1>3. \A i \in 1..Len(q) : r[i] = q[i]
  BY <1>1
<1>4. QED
  BY <1>2, <1>3

Pending == IF inHand = NoEvent THEN eventQueue ELSE <<inHand>> \o eventQueue

\* Every step of the queue is a step of the channel or leaves it unchanged.
LEMMA StepImplementsChannel ==
  IInv /\ [Next]_vars => [Channel!Next]_(Channel!channelVars)
<1> SUFFICES ASSUME IInv, [Next]_vars
             PROVE  \/ Channel!Next
                    \/ Pending' = Pending /\ handled' = handled
  BY DEF Channel!channelVars, Pending
<1> USE DEF IInv
<1>1. ASSUME NEW p \in Producers, Push(p) PROVE Channel!Next
  <2> DEFINE e == <<p, pushed[p] + 1>>
  <2>1. e \in Event
    BY <1>1, MaxEventsAssumption DEF Push, Event, TypeOK
  <2>2. eventQueue' = Append(eventQueue, e) /\ inHand' = inHand
        /\ handled' = handled
    BY <1>1 DEF Push
  <2>3. Pending' = Append(Pending, e)
    <3> HIDE DEF e
    <3>1. CASE inHand = NoEvent
      BY <2>2, <3>1 DEF Pending
    <3>2. CASE inHand # NoEvent
      BY <2>1, <2>2, <3>2, Cons DEF Pending, TypeOK
    <3>3. QED
      BY <3>1, <3>2
  <2>4. QED
    BY <2>1, <2>2, <2>3 DEF Channel!Next, Channel!Accept, Pending
<1>2. CASE TakeFront
  <2>1. inHand = NoEvent /\ eventQueue # <<>> /\ handled' = handled
        /\ inHand' = Head(eventQueue) /\ eventQueue' = Tail(eventQueue)
    BY <1>2 DEF TakeFront, Control, HandMatchesPc
  <2>2. inHand' # NoEvent
    BY <2>1, NoEventIsNotAnEvent DEF TypeOK
  <2>3. Pending' = Pending
    BY <2>1, <2>2, Uncons DEF Pending, TypeOK
  <2>4. QED
    BY <2>1, <2>3
<1>3. CASE ProcessEvent
  <2>1. inHand \in Event /\ inHand # NoEvent /\ inHand' = NoEvent
        /\ eventQueue' = eventQueue /\ handled' = Append(handled, inHand)
    BY <1>3 DEF ProcessEvent, Control, HandMatchesPc, TypeOK
  <2>2. Pending # <<>> /\ Head(Pending) = inHand /\ Pending' = Tail(Pending)
    BY <2>1, Cons DEF Pending, TypeOK
  <2>3. QED
    BY <2>1, <2>2 DEF Channel!Next, Channel!Deliver, Pending
<1>4. ASSUME eventQueue' = eventQueue, inHand' = inHand, handled' = handled
      PROVE  Pending' = Pending /\ handled' = handled
  BY <1>4 DEF Pending
<1>5. CASE \/ \E p \in Producers : Notify(p)
           \/ TestRunning \/ LockQueue \/ EvaluatePredicate \/ Sleep \/ WakeUp
           \/ QueueDrained \/ Relock \/ SpuriousWakeup \/ Stopper
           \/ UNCHANGED vars
  BY <1>4, <1>5 DEF Notify, TestRunning, LockQueue, Lock, EvaluatePredicate,
     Sleep, WakeUp, QueueDrained, Relock, SpuriousWakeup, Stopper,
     StopRunning, StopNotify, StopJoin, vars
<1>6. QED
  BY <1>1, <1>2, <1>3, <1>5 DEF Next, EventThread

(***************************************************************************)
(* The queue implements the channel: each event FnEnqueueEvent accepts is  *)
(* handled at most once and in order (event_manager.cpp:66-71, 82-107).    *)
(***************************************************************************)
THEOREM QueueIsAChannel == Spec => ChannelSpec
<1>1. Init => Channel!Init
  BY DEF Init, Channel!Init
<1>2. IInv /\ [Next]_vars => [Channel!Next]_(Channel!channelVars)
  BY StepImplementsChannel
<1>3. QED
  BY <1>1, <1>2, Inductive, PTL
     DEF Spec, SafeSpec, ChannelSpec, Channel!Spec
=============================================================================
