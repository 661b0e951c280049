\* Two uploads, two shards, files of up to three chunks, one of them too large.
CONSTANTS
  plain = plain
  virus = virus
  worm = worm
  Uploads = {u1, u2}
  NumShards = 2
  Constrained = TRUE
  Chunks = {plain, virus, worm}
  Files <- SomeFiles
  Known <- KnownByShard
  MaxBytes = 2
SPECIFICATION FairSpec
INVARIANTS TypeOK
PROPERTIES ImplementsScanService HandlersEnd
\* Every upload is answered in the end.
CHECK_DEADLOCK FALSE
