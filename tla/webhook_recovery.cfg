\* Batches of two under fairness: lost workers are recovered from in mid-batch.
CONSTANTS
  Rows = {r1, r2}
  Workers = {w1, w2}
  Tokens = {t1, t2, t3}
  NoToken = NoToken
  NoRow = NoRow
  Statuses = {200, 503}
  MaxAttempts = 2
  BatchLimit = 2
  MaxRequeues = 0
  MaxCrashes = 1
SPECIFICATION FairSpec
PROPERTIES OrphanedLeaseRecovered FirstAttemptUnlessStarved
CHECK_DEADLOCK FALSE
