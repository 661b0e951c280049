\* Three uploads over two keys, one crash.
CONSTANTS
  NoUpload = NoUpload
  NoKey = NoKey
  NoContent = NoContent
  Contents = {photo, other, infected}
  CleanContents = {photo, other}
  Uploads = {u1, u2, u3}
  Keys = {k1, k2}
  MaxCrashes = 1
SPECIFICATION Spec
SYMMETRY Symmetry
INVARIANTS TypeOK CompletedRunHasPassport AnsweredPassportIsReal NoMediaAfterProcessing
PROPERTIES RepeatedOnlyAfterRival
\* Every upload is answered or lost in the end.
CHECK_DEADLOCK FALSE
