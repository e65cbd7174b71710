SPECIFICATION Spec
CONSTANTS
  Levels <- ReadsMayFail
  MaxQueue = 3
INVARIANTS
  LastEventIsTrue
  AlarmIsOfThisOpening
PROPERTIES
  DetectsWhatItReads
