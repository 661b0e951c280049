\* One row, one worker, no crash: a receiver that fails once is enough.
CONSTANTS
  Rows = {r1}
  Workers = {w1}
  Tokens = {t1, t2}
  NoToken = NoToken
  NoRow = NoRow
  Statuses = {200, 503}
  MaxAttempts = 2
  BatchLimit = 1
  MaxRequeues = 0
  MaxCrashes = 0
SPECIFICATION FairSpec
PROPERTIES EventuallySettled
CHECK_DEADLOCK FALSE
