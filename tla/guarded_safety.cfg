\* Two calls race over two keys and two actions, with one crash.
CONSTANTS
  Null = Null
  Malformed = Malformed
  NoAction = NoAction
  NoKey = NoKey
  Callers = {c1, c2}
  Keys = {k1, k2}
  Actions = {a1, a2}
  MaxApprovals = 2
  MaxFaults = 1
SPECIFICATION Spec
SYMMETRY Symmetry
INVARIANTS TypeOK ToldTheTruth WithdrawalHolds
PROPERTIES ImplementsOnceOnly
