SPECIFICATION Spec
CONSTANTS
  event = event
  timer = timer
  pms = pms
  Openers <- MCOpeners
  EventThread = event
  Pms = pms
  MaxCrashes = 2
INVARIANTS
  RelayHasAnOwner
  HoldIsKept
  LockMatchesHold
PROPERTIES
  RelayIsReleased
