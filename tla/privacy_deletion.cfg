\* One deletion request on a healthy database.
CONSTANTS
  Exports = {}
  Deletions = {d1}
  Workers = {w1}
  Tokens = {t1, t2}
  NoToken = NoToken
  NoJob = NoJob
  MaxAttempts = 2
  BatchLimit = 1
  MaxFaults = 0
SPECIFICATION HealthySpec
PROPERTIES CleanDeletionCompletes
CHECK_DEADLOCK FALSE
