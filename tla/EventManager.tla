---------------------------- MODULE EventManager ----------------------------
(***************************************************************************)
(* event_manager.cpp: the queue through which the DIO monitor, the LPR     *)
(* clients, the barcode reader and the Touch'n Go reader hand their events *)
(* to the one thread that runs the handlers.  The queue is guarded by      *)
(* eventThreadMutex_ and the consumer sleeps on condition_.  The flag      *)
(* isEventThreadRunning_ is read in the wait predicate but written by      *)
(* FnStopEventThread without the mutex.                                    *)
(***************************************************************************)
EXTENDS Naturals, Sequences

CONSTANTS
  Producers,  \* threads that call FnEnqueueEvent
  MaxEvents   \* bound: events enqueued by one producer

ASSUME MaxEventsAssumption == MaxEvents \in Nat \ {0}

Event == Producers \X (1..MaxEvents)
NoEvent == <<>>

VARIABLES
  eventQueue,            \* the deque
  isEventThreadRunning,  \* the plain bool
  mutexHeld,             \* the event thread holds eventThreadMutex_
  waiting,               \* the event thread is in condition_'s wait set
  pcEvent,               \* where processEventsFromQueue is
  inHand,                \* the local variable "front", NoEvent when unused
  pcProducer,            \* where each FnEnqueueEvent is
  pushed,                \* events each producer has enqueued so far
  pcStop,                \* where main's FnStopEventThread is
  handled                \* what processEvent was called with, in order

eventVars == <<isEventThreadRunning, mutexHeld, waiting, pcEvent>>
vars == <<eventQueue, isEventThreadRunning, mutexHeld, waiting, pcEvent,
          inHand, pcProducer, pushed, pcStop, handled>>

Init ==
  /\ eventQueue = <<>>
  /\ isEventThreadRunning = TRUE
  /\ mutexHeld = FALSE
  /\ waiting = FALSE
  /\ pcEvent = "test"
  /\ inHand = NoEvent
  /\ pcProducer = [p \in Producers |-> "idle"]
  /\ pushed = [p \in Producers |-> 0]
  /\ pcStop = "up"
  /\ handled = <<>>

-----------------------------------------------------------------------------
(* FnEnqueueEvent.  The critical section holds only the push, so lock,     *)
(* push and unlock are one step; notify_one comes after the unlock.        *)

\* Mutation: the push is not guarded by eventThreadMutex_.
PushWithoutMutex(p) ==
  /\ pcProducer[p] = "idle"
  /\ pushed[p] < MaxEvents
  /\ pushed' = [pushed EXCEPT ![p] = @ + 1]
  /\ eventQueue' = Append(eventQueue, <<p, pushed[p] + 1>>)
  /\ pcProducer' = [pcProducer EXCEPT ![p] = "notify"]
  /\ UNCHANGED <<eventVars, inHand, pcStop, handled>>

Push(p) ==
  /\ pcProducer[p] = "idle"
  /\ pushed[p] < MaxEvents
  /\ ~mutexHeld
  /\ pushed' = [pushed EXCEPT ![p] = @ + 1]
  /\ eventQueue' = Append(eventQueue, <<p, pushed[p] + 1>>)
  /\ pcProducer' = [pcProducer EXCEPT ![p] = "notify"]
  /\ UNCHANGED <<eventVars, inHand, pcStop, handled>>

\* Mutation: nobody is notified.
NotifyNobody == waiting' = waiting

NotifyOne == waiting' = FALSE

Notify(p) ==
  /\ pcProducer[p] = "notify"
  /\ NotifyOne
  /\ pcProducer' = [pcProducer EXCEPT ![p] = "idle"]
  /\ UNCHANGED <<eventQueue, isEventThreadRunning, mutexHeld, pcEvent, inHand,
                 pushed, pcStop, handled>>

-----------------------------------------------------------------------------
(* processEventsFromQueue, the event thread.                               *)

others == <<isEventThreadRunning, pcProducer, pushed, pcStop>>

TestRunning ==
  /\ pcEvent = "test"
  /\ pcEvent' = IF isEventThreadRunning THEN "lock" ELSE "exit"
  /\ UNCHANGED <<eventQueue, mutexHeld, waiting, inHand, handled, others>>

Lock(from, to) ==
  /\ pcEvent = from
  /\ ~mutexHeld
  /\ mutexHeld' = TRUE
  /\ pcEvent' = to
  /\ UNCHANGED <<eventQueue, waiting, inHand, handled, others>>

LockQueue == Lock("lock", "predicate")

\* Mutation: the predicate forgets the stop flag.
WaitForEventsOnly == eventQueue # <<>>

WaitPredicate == eventQueue # <<>> \/ ~isEventThreadRunning

EvaluatePredicate ==
  /\ pcEvent = "predicate"
  /\ pcEvent' = IF WaitPredicate THEN "drain" ELSE "sleep"
  /\ UNCHANGED <<eventQueue, mutexHeld, waiting, inHand, handled, others>>

\* condition_.wait gives up the mutex and joins the wait set in one step.
Sleep ==
  /\ pcEvent = "sleep"
  /\ mutexHeld' = FALSE
  /\ waiting' = TRUE
  /\ pcEvent' = "wait"
  /\ UNCHANGED <<eventQueue, inHand, handled, others>>

SpuriousWakeup ==
  /\ waiting
  /\ waiting' = FALSE
  /\ UNCHANGED <<eventQueue, mutexHeld, pcEvent, inHand, handled, others>>

WakeUp == ~waiting /\ Lock("wait", "predicate")

\* Mutation: the youngest event is taken first.
TakeBack ==
  /\ pcEvent = "drain"
  /\ eventQueue # <<>>
  /\ inHand' = eventQueue[Len(eventQueue)]
  /\ eventQueue' = SubSeq(eventQueue, 1, Len(eventQueue) - 1)
  /\ mutexHeld' = FALSE
  /\ pcEvent' = "process"
  /\ UNCHANGED <<waiting, handled, others>>

TakeFront ==
  /\ pcEvent = "drain"
  /\ eventQueue # <<>>
  /\ inHand' = Head(eventQueue)
  /\ eventQueue' = Tail(eventQueue)
  /\ mutexHeld' = FALSE
  /\ pcEvent' = "process"
  /\ UNCHANGED <<waiting, handled, others>>

QueueDrained ==
  /\ pcEvent = "drain"
  /\ eventQueue = <<>>
  /\ mutexHeld' = FALSE
  /\ pcEvent' = "test"
  /\ UNCHANGED <<eventQueue, waiting, inHand, handled, others>>

\* The handler's exceptions are caught: it always comes back here.
ProcessEvent ==
  /\ pcEvent = "process"
  /\ handled' = Append(handled, inHand)
  /\ inHand' = NoEvent
  /\ pcEvent' = "relock"
  /\ UNCHANGED <<eventQueue, mutexHeld, waiting, others>>

Relock == Lock("relock", "drain")

-----------------------------------------------------------------------------
(* FnStopEventThread, called by main once the io_context threads are gone. *)

StopRunning ==
  /\ pcStop = "up"
  /\ isEventThreadRunning' = FALSE
  /\ pcStop' = "notify"
  /\ UNCHANGED <<eventQueue, mutexHeld, waiting, pcEvent, inHand, pcProducer,
                 pushed, handled>>

StopNotify ==
  /\ pcStop = "notify"
  /\ NotifyOne
  /\ pcStop' = "join"
  /\ UNCHANGED <<eventQueue, isEventThreadRunning, mutexHeld, pcEvent, inHand,
                 pcProducer, pushed, handled>>

StopJoin ==
  /\ pcStop = "join"
  /\ pcEvent = "exit"
  /\ pcStop' = "stopped"
  /\ UNCHANGED <<eventQueue, eventVars, inHand, pcProducer, pushed, handled>>

-----------------------------------------------------------------------------
EventThread ==
  \/ TestRunning \/ LockQueue \/ EvaluatePredicate \/ Sleep \/ WakeUp
  \/ TakeFront \/ QueueDrained \/ ProcessEvent \/ Relock

Stopper == StopRunning \/ StopNotify \/ StopJoin

Next ==
  \/ \E p \in Producers : Push(p) \/ Notify(p)
  \/ EventThread
  \/ SpuriousWakeup
  \/ Stopper

\* The operating system runs every runnable thread; nobody is obliged to
\* enqueue, to stop the program or to be woken for no reason.
Fairness ==
  /\ WF_vars(EventThread)
  /\ \A p \in Producers : WF_vars(Notify(p))
  /\ WF_vars(StopNotify)
  /\ WF_vars(StopJoin)

SafeSpec == Init /\ [][Next]_vars
Spec == SafeSpec /\ Fairness

-----------------------------------------------------------------------------
\* The variables have their types.
TypeOK ==
  /\ eventQueue \in Seq(Event)
  /\ isEventThreadRunning \in BOOLEAN
  /\ mutexHeld \in BOOLEAN
  /\ waiting \in BOOLEAN
  /\ pcEvent \in {"test", "lock", "predicate", "sleep", "wait", "drain",
                  "process", "relock", "exit"}
  /\ inHand \in Event \cup {NoEvent}
  /\ pcProducer \in [Producers -> {"idle", "notify"}]
  /\ pushed \in [Producers -> 0..MaxEvents]
  /\ pcStop \in {"up", "notify", "join", "stopped"}
  /\ handled \in Seq(Event)

(***************************************************************************)
(* No wakeup is lost while the program runs: when the event thread sleeps  *)
(* over a non-empty queue, the producer that filled it has its notify_one  *)
(* still to come.  (FnEnqueueEvent pushes under the mutex and notifies     *)
(* after it, event_manager.cpp:66-71.)                                     *)
(***************************************************************************)
NoLostWakeup ==
  waiting /\ eventQueue # <<>>
    => \E p \in Producers : pcProducer[p] = "notify"

(***************************************************************************)
(* The queue keeps its promise: mapping the event being handled back to    *)
(* the front of the queue, every step is a step of the abstract channel.   *)
(***************************************************************************)
Channel == INSTANCE EventChannel WITH
  Events <- Event,
  pending <- IF inHand = NoEvent THEN eventQueue ELSE <<inHand>> \o eventQueue,
  delivered <- handled

ChannelSpec == Channel!Spec

(***************************************************************************)
(* Every event enqueued is handled unless the program is being stopped.    *)
(***************************************************************************)
EventsAreHandled ==
  \A e \in Event :
    (\E i \in DOMAIN eventQueue : eventQueue[i] = e)
      ~> ((\E i \in DOMAIN handled : handled[i] = e) \/ ~isEventThreadRunning)

(***************************************************************************)
(* FnStopEventThread returns whenever the flag was not cleared in the one  *)
(* window the missing mutex leaves open: after the event thread found the  *)
(* predicate false and before it joined the wait set.                      *)
(***************************************************************************)
StopReturnsOutsideWindow ==
  (pcStop = "notify" /\ pcEvent # "sleep") ~> (pcStop = "stopped")
=============================================================================
