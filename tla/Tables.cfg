SPECIFICATION Spec
CONSTANTS
  k1 = k1
  k2 = k2
  Keys <- MCKeys
  Batch = 1
  Studied <- MCStudied
  Pms = pms
  Monitor = monitor
  MaxEvents = 2
INVARIANTS
  FetchedRowIsCurrent
  CopyIsWhole
  StartsWithWhatItNeeds
PROPERTIES
  AckNeedsRows
  RowsArrive
