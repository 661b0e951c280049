\* Two rows, two workers, batches of two: claims overlap, leases lapse in mid-batch.
CONSTANTS
  Rows = {r1, r2}
  Workers = {w1, w2}
  Tokens = {t1, t2, t3}
  NoToken = NoToken
  NoRow = NoRow
  Statuses = {200, 400, 503}
  MaxAttempts = 2
  BatchLimit = 2
  MaxRequeues = 1
  MaxCrashes = 1
SPECIFICATION Spec
SYMMETRY Symmetry
INVARIANTS TypeOK LeaseLostOnlyByExpiry ClaimedCountIsCurrent OutcomeBacked DeadLetterTrail
PROPERTIES ImplementsOutbox
\* All rows DELIVERED and no requeue left: the system may stop.
CHECK_DEADLOCK FALSE
