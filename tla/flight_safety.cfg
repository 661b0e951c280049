\* Two AIs, four requests, one reader, one fault.
CONSTANTS
  Ais = {a1, a2}
  Requests = {q1, q2, q3, q4}
  EventTypes = {"ACTION_REQUESTED", "ACTION_CONFIRMED"}
  ExternalIds = {x1}
  Readers = {c1}
  PageSize = 1
  None = None
  MaxFaults = 1
SPECIFICATION Spec
SYMMETRY Symmetry
INVARIANTS TypeOK ChainLinear TimelineComplete ConfirmedOnce ResultsAnswerClaims AnswersAreTrue
