\* An export and a deletion, two workers, one fault; every job ends visibly
\* unless a crash orphaned it.
CONSTANTS
  Exports = {e1}
  Deletions = {d1}
  Workers = {w1, w2}
  Tokens = {t1, t2, t3}
  NoToken = NoToken
  NoJob = NoJob
  MaxAttempts = 2
  BatchLimit = 2
  MaxFaults = 1
SPECIFICATION FairSpec
INVARIANTS TypeOK ExclusiveExecution OwnedUnlessPublished TransitionsAudited
PROPERTIES OutcomeIsFinal JobsEndUnlessOrphaned
\* Every job finished, held or abandoned: the system may stop.
CHECK_DEADLOCK FALSE
