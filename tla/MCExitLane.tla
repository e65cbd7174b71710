----------------------------- MODULE MCExitLane -----------------------------
EXTENDS ExitLane, FiniteSets, TLC
CONSTANTS v1, v2
MCVehicles == {v1, v2}
Alike == Permutations(MCVehicles)

\* Bound: a thread that needs one more round than MaxRounds ends the behaviour.
RoundsSuffice == \A t \in Threads : At(t, "come") => round < MaxRounds

\* Bound: a stay that something else than a second vehicle disturbed is
\* followed to the end of its first round.
DisturbedEarly == disturbances > 0 => round <= 1 \/ road = {}

\* Bound: one row fails, in a stay that nothing else disturbs.
FailsAlone ==
  disturbances + Cardinality({i \in DOMAIN records : records[i].result # "stored"}) <= 1
=============================================================================
