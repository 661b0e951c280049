\* All authority inputs three field changes away from an authorized one, all
\* verifications with two outside findings, and the evidence store with two
\* callers, two records, two source statuses and one claim.
CONSTANTS
  Null = Null
  Malformed = Malformed
  MaxEdits = 3
  MaxProviders = 2
  Declarations = {"UNKNOWN", "NONE", "AI_GENERATED", "AI_SYNTHETIC_VOICE"}
  Findings <- MCFindings
  Callers = {c1, c2}
  Observations <- MCObservations
  Statuses = {"ACTIVE", "REVOKED"}
  Requests = {"SUPPORTED", "CONFLICTING"}
  MaxEvidence = 2
  MaxStatuses = 2
  MaxClaims = 1
  Horizon = 1
SPECIFICATION MCSpec
INVARIANTS AuthorizedIffEstablished ResolversAgree WithdrawnSupportsNothing
PROPERTIES DenialSurvivesDoubt DoubtEstablishesNothing
\* The edits, the providers and the bounds run out.
CHECK_DEADLOCK FALSE
