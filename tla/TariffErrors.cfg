SPECIFICATION Spec
CONSTANTS
  HourLength = 2
  DayHours = 4
  Cases <- MCCases
  MaxStay = 18
INVARIANTS
  ErrorIsNoFee
CHECK_DEADLOCK FALSE
