SPECIFICATION Spec
CONSTANTS
  HourLength = 2
  DayHours = 4
  Cases <- MCCases
  MaxStay = 18
INVARIANTS
  FeeIsWhatTheTariffSays
  SeasonCostsNoMore
PROPERTIES
  LongerStayNotCheaper
CHECK_DEADLOCK FALSE
