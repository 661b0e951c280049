\* One approval, two actions.
CONSTANTS
  Null = Null
  Malformed = Malformed
  NoAction = NoAction
  NoKey = NoKey
  Callers = {c1}
  Keys = {k1, k2}
  Actions = {a1, a2}
  MaxApprovals = 1
  MaxFaults = 0
SPECIFICATION Spec
INVARIANTS ApprovalUsedOnce
