---------------------------- MODULE EventChannel ----------------------------
(***************************************************************************)
(* What EventManager promises its callers: an event that FnEnqueueEvent    *)
(* accepted is given to the handlers exactly once, and events are given    *)
(* out in the order in which they were accepted.                           *)
(***************************************************************************)
EXTENDS Sequences

CONSTANT Events  \* the events callers may enqueue

VARIABLES
  pending,    \* accepted and not yet given to the handlers, oldest first
  delivered   \* given to the handlers, oldest first

channelVars == <<pending, delivered>>

Init == pending = <<>> /\ delivered = <<>>

Accept(e) ==
  /\ pending' = Append(pending, e)
  /\ UNCHANGED delivered

Deliver ==
  /\ pending # <<>>
  /\ delivered' = Append(delivered, Head(pending))
  /\ pending' = Tail(pending)

Next == Deliver \/ \E e \in Events : Accept(e)

Spec == Init /\ [][Next]_channelVars
=============================================================================
