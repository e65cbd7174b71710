---------------------------- MODULE LoopDetector ----------------------------
(***************************************************************************)
(* What DIO promises the operation: every change of the occupation of the  *)
(* loops at the gantry becomes one event, and the events are handled in    *)
(* order.  What is known of the lane lags behind the lane by the pending   *)
(* events.                                                                 *)
(***************************************************************************)
EXTENDS Sequences

VARIABLES
  occupied,  \* a vehicle stands on the loops
  pending,   \* changes that were noticed and not yet handled
  known      \* what the operation believes

vars == <<occupied, pending, known>>

Init == occupied = FALSE /\ pending = <<>> /\ known = FALSE

Change ==
  /\ occupied' = ~occupied
  /\ pending' = Append(pending, ~occupied)
  /\ UNCHANGED known

Learn ==
  /\ pending # <<>>
  /\ known' = Head(pending)
  /\ pending' = Tail(pending)
  /\ UNCHANGED occupied

Spec == Init /\ [][Change \/ Learn]_vars
=============================================================================
