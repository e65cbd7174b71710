SPECIFICATION Spec
CONSTANTS
  dio = dio
  lpr = lpr
  Producers <- MCProducers
  MaxEvents = 2
INVARIANTS
  NoLostWakeup
PROPERTIES
  ChannelSpec
  EventsAreHandled
  StopReturnsOutsideWindow
CHECK_DEADLOCK FALSE
