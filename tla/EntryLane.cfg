SPECIFICATION SafeSpec
CONSTANTS
  v1 = v1
  v2 = v2
  Vehicles <- MCVehicles
  MaxRounds = 2
  MaxAnswers = 2
  MaxCommands = 1
INVARIANTS
  OpensForRecordedVehicle
  RecordIsOfItsRound
  WaitingVehicleIsWatched
  TimerStopsWithLane
  OneRecordPerRound
CHECK_DEADLOCK FALSE
SYMMETRY Alike
CONSTRAINTS
  RoundsSuffice
  OneDisturbance
