SPECIFICATION SafeSpec
CONSTANTS
  v1 = v1
  v2 = v2
  Vehicles <- MCVehicles
  MaxRounds = 2
  MaxAnswers = 2
  MaxResults = 2
  MaxDisturbances = 1
  MaxBehind = 2
INVARIANTS
  TypeOK
  OpensOnRecord
  PaymentIsOfItsVehicle
  LastPaidIsRecorded
  NoPlateOpensForVehicle
  OneExitPerRound
CHECK_DEADLOCK FALSE
SYMMETRY Alike
CONSTRAINTS
  RoundsSuffice
  DisturbedEarly
  FailsAlone
