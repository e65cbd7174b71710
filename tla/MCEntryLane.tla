---------------------------- MODULE MCEntryLane ----------------------------
EXTENDS EntryLane, TLC
CONSTANTS v1, v2
MCVehicles == {v1, v2}
Alike == Permutations(MCVehicles)

\* Bound: a thread that needs one more round than MaxRounds ends the behaviour.
RoundsSuffice == \A t \in Threads : pc[t] = "come" => round < MaxRounds

\* A behaviour has repeated answers or a command, not both.
OneDisturbance ==
  commands = 0 \/ \A r \in 1..round : asked[r] >= MaxAnswers - 1
=============================================================================
