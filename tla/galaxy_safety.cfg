\* Two writers, two ingest requests and three rows out of seven; a message is
\* admitted, repeated, expires and is admitted again within the clock.
CONSTANTS
  Writers = {w1, w2}
  Rows <- MCRows
  Sources = {"API", "SPR_REGISTRY"}
  Null = Null
  MaxTime = 3
  MaxRows = 3
  Messages <- MCMessages
  Requests = {q1, q2}
  Skew = 1
SYMMETRY MCSymmetry
SPECIFICATION GalaxySpec
INVARIANTS ReplayRefusedUntilExpiry CycleOnlyByOverlap
PROPERTIES SnapshotSettled
CHECK_DEADLOCK FALSE
