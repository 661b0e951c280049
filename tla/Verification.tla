---------------------------- MODULE Verification ----------------------------
(***************************************************************************)
(* verifyMedia (src/src/verification/engine.ts): the C2PA inspection, the    *)
(* signal providers asked one after the other, and the verdict, decision,    *)
(* distribution and score computed from what they observed.                  *)
(*                                                                           *)
(* Data kept: a signal's name as the words of it the resolvers match         *)
(* (about); a confidence in percent, or Unrated; a detail as whether it      *)
(* speaks of a conflict; a manifest as whether it has AI actions.  The C2PA  *)
(* library and the providers other than the baseline are external.           *)
(***************************************************************************)
EXTENDS Integers, SequencesExt

CONSTANTS Findings,      (* what an outside provider may observe             *)
          Declarations,  (* declaredAiUse                                    *)
          MaxProviders   (* bound: outside providers asked                   *)

VARIABLES stage,       (* where verifyMedia is                               *)
          declared,    (* declaredAiUse of the asset                         *)
          provenance,  (* result of inspectC2pa                              *)
          observed,    (* observations so far, in order                      *)
          asked        (* outside providers asked so far                     *)

verifyVars == <<stage, declared, provenance, observed, asked>>

Unrated == -1
NotANumber == -1

Observation(words, result, confidence) ==
  [about |-> words, result |-> result, confidence |-> confidence, conflict |-> FALSE]

-----------------------------------------------------------------------------
(* C2PA                                                                      *)

(* What the C2PA library may report: no reader, a manifest that is not       *)
(* embedded, one with validation entries, one in a validation state.         *)
Reports ==
  [found : BOOLEAN, embedded : BOOLEAN, entries : BOOLEAN,
   state : {"none", "Trusted", "Valid", "Invalid"}, aiActions : BOOLEAN]

Trusted(r) == r.embedded /\ ~r.entries /\ r.state \in {"none", "Trusted", "Valid"}

NothingFound == [status |-> "absent", trusted |-> FALSE, aiActions |-> FALSE]
Unreadable == [status |-> "error", trusted |-> FALSE, aiActions |-> FALSE]

InspectC2pa(r) ==
  IF ~r.found THEN NothingFound
  ELSE [status |-> IF ~r.embedded THEN "absent" ELSE IF Trusted(r) THEN "verified" ELSE "present_untrusted",
        trusted |-> Trusted(r), aiActions |-> r.aiActions]

ProvenanceVerified(p) == p.status = "verified"

-----------------------------------------------------------------------------
(* Providers                                                                 *)

(* baselineProvider: the file type, the provenance, and an AI origin only    *)
(* out of a trusted manifest.                                                *)
Baseline(p) ==
  <<Observation({}, "positive", 100)>>
  \o (CASE p.status = "verified" -> <<Observation({}, "positive", 99)>>
        [] p.status = "absent"   -> <<Observation({}, "negative", Unrated)>>
        [] OTHER                 -> <<Observation({}, "inconclusive", Unrated)>>)
  \o (IF p.trusted /\ p.aiActions THEN <<Observation({"synthetic"}, "positive", 99)>> ELSE <<>>)

ProviderFailure == Observation({}, "unavailable", Unrated)

-----------------------------------------------------------------------------
(* resolveEvidence                                                           *)

(* Observations are named by their places in the order they were heard.      *)
Matching(obs, words) == {i \in 1..Len(obs) : obs[i].about \cap words # {}}

Having(obs, words, result) == {i \in Matching(obs, words) : obs[i].result = result}

Positive(obs, words) == Having(obs, words, "positive") # {}

HeardOf(obs) == Matching(obs, {"synthetic"}) # {}

Synthetic(obs) == Positive(obs, {"synthetic"})
HumanCapture(obs) == Positive(obs, {"capture"})
Manipulation(obs) == Positive(obs, {"manipulation", "tamper"})
Conflict(obs) == \E i \in 1..Len(obs) : obs[i].result = "inconclusive" /\ obs[i].conflict

-----------------------------------------------------------------------------
(* The trust vector and the score                                            *)

(* Math.round(sum / n) for a sum that is not negative                        *)
RoundedMean(sum, n) == (2 * sum + n) \div (2 * n)

RiskScore(obs, words) ==
  LET score == 100 - 25 * Cardinality(Having(obs, words, "negative"))
                   - 50 * Cardinality(Having(obs, words, "positive"))
  IN IF score < 0 THEN 0 ELSE score

Rated(obs, places) == {i \in places : obs[i].confidence # Unrated}

Confidence(obs, places) == SumFunctionOnSet([i \in places |-> obs[i].confidence], places)

Weight(result) == CASE result = "positive" -> 2 [] result = "negative" -> 0 [] OTHER -> 1

Weighted(obs, places) ==
  SumFunctionOnSet([i \in places |-> Weight(obs[i].result) * obs[i].confidence], places)

(* observationsScore: 60 with nothing rated; 0 / 0 when only zero            *)
(* confidences match.                                                        *)
ObservationsScore(obs, words) ==
  LET rated == Rated(obs, Matching(obs, words))
  IN IF rated = {} THEN 60
     ELSE IF Confidence(obs, rated) = 0 THEN NotANumber
     ELSE RoundedMean(50 * Weighted(obs, rated), Confidence(obs, rated))

EvidenceQuality(obs) ==
  LET rated == Rated(obs, 1..Len(obs))
  IN IF Confidence(obs, rated) = 0 THEN 45 ELSE RoundedMean(Confidence(obs, rated), Cardinality(rated))

(* aiStatus is UNKNOWN unless an AI origin was observed, and then follows a  *)
(* declaration of a synthetic person or voice.                               *)
AiStatus(obs, d) ==
  IF ~Synthetic(obs) THEN "UNKNOWN"
  ELSE IF d \in {"AI_SYNTHETIC_PERSON", "AI_SYNTHETIC_VOICE"} THEN d
  ELSE "AI_GENERATED"

DisclosureConsistent(obs, d) == Synthetic(obs) => d \notin {"NONE", "UNKNOWN"}

(* buildTrustVector, the risk dimensions already inverted as                 *)
(* calculateTrustScore inverts them.                                         *)
TrustVector(p, obs, d) ==
  <<IF ProvenanceVerified(p) THEN 96 ELSE 45,
    RiskScore(obs, {"authentic", "tamper"}),
    IF DisclosureConsistent(obs, d) THEN 95 ELSE 25,
    ObservationsScore(obs, {"source"}),
    ObservationsScore(obs, {"claim"}),
    RiskScore(obs, {"manipulation", "splice"}),
    ObservationsScore(obs, {"original"}),
    RiskScore(obs, {"copyright"}),
    ObservationsScore(obs, {"creator"}),
    RiskScore(obs, {"spam"}),
    IF AiStatus(obs, d) = "UNKNOWN" THEN 50 ELSE 20,
    EvidenceQuality(obs)>>

(* calculateTrustScore: NaN in one dimension makes the score NaN.            *)
TrustScore(vector) ==
  IF \E i \in 1..Len(vector) : vector[i] = NotANumber THEN NotANumber
  ELSE RoundedMean(SumFunction(vector), Len(vector))

-----------------------------------------------------------------------------
(* decide, resolveVerdict and resolveDistributionAction                      *)

Decide(score, p, obs, d) ==
  IF Manipulation(obs) THEN "SUPPRESS"
  ELSE IF Conflict(obs) \/ ~DisclosureConsistent(obs, d) THEN "REVIEW"
  ELSE IF ProvenanceVerified(p) /\ score >= 90 THEN "PROMOTE"
  ELSE IF score >= 70 THEN "TRUST"
  ELSE "REVIEW"

VerdictConflictFirst(p, obs) ==
  IF Conflict(obs) THEN "REVIEW"
  ELSE IF Manipulation(obs) THEN "BLOCK"
  ELSE IF Synthetic(obs) /\ ProvenanceVerified(p) THEN "AI_VERIFIED"
  ELSE IF HumanCapture(obs) /\ ProvenanceVerified(p) THEN "HUMAN_ORIGIN_VERIFIED"
  ELSE "UNVERIFIED"

Verdict(p, obs) ==
  IF Manipulation(obs) THEN "BLOCK"
  ELSE IF Conflict(obs) THEN "REVIEW"
  ELSE IF Synthetic(obs) /\ ProvenanceVerified(p) THEN "AI_VERIFIED"
  ELSE IF HumanCapture(obs) /\ ProvenanceVerified(p) THEN "HUMAN_ORIGIN_VERIFIED"
  ELSE "UNVERIFIED"

(* requireVerification is true in every call of server.ts.                   *)
Distribution(verdict) ==
  CASE verdict \in {"BLOCK", "UNVERIFIED"}  -> "BLOCK"
    [] verdict = "REVIEW"                   -> "REVIEW"
    [] verdict = "AI_VERIFIED"              -> "LABEL"
    [] verdict = "HUMAN_ORIGIN_VERIFIED"    -> "ALLOW"

Record(p, obs, d) ==
  [verdict |-> Verdict(p, obs),
   distribution |-> Distribution(Verdict(p, obs)),
   decision |-> Decide(TrustScore(TrustVector(p, obs, d)), p, obs, d)]

-----------------------------------------------------------------------------
VerifyInit ==
  /\ stage = "inspect"
  /\ declared \in Declarations
  /\ provenance = Unreadable
  /\ observed = <<>>
  /\ asked = 0

(* The inspection reports, or throws.                                        *)
Inspect ==
  /\ stage = "inspect"
  /\ provenance' \in {InspectC2pa(r) : r \in Reports} \cup {Unreadable}
  /\ stage' = "baseline"
  /\ UNCHANGED <<declared, observed, asked>>

AskBaseline ==
  /\ stage = "baseline"
  /\ observed' = Baseline(provenance)
  /\ stage' = "outside"
  /\ UNCHANGED <<declared, provenance, asked>>

(* An outside provider answers or throws; the loop goes on either way.       *)
AskProvider ==
  /\ stage = "outside"
  /\ asked < MaxProviders
  /\ asked' = asked + 1
  /\ \E o \in Findings \cup {ProviderFailure} : observed' = Append(observed, o)
  /\ UNCHANGED <<stage, declared, provenance>>

VerifyNext == Inspect \/ AskBaseline \/ AskProvider

VerifySpec == VerifyInit /\ [][VerifyNext]_verifyVars

Recorded == Record(provenance, observed, declared)

-----------------------------------------------------------------------------
(* Origins are claimed, and distribution allowed, on observations only.      *)
Origins == {"AI_VERIFIED", "HUMAN_ORIGIN_VERIFIED"}

(* The two resolvers, coded apart, never contradict each other: what one     *)
(* suppresses the other blocks, a conflict holds both, and only an asset     *)
(* whose provenance was verified, whose AI origin was disclosed and that no  *)
(* conflict touches is promoted (trust.ts:57-63, verdict.ts:30-40).          *)
ResolversAgree ==
  stage = "outside" =>
    /\ Recorded.decision = "SUPPRESS" <=> Recorded.verdict = "BLOCK"
    /\ Recorded.verdict = "REVIEW" => Recorded.decision = "REVIEW"
    /\ Recorded.decision \in {"TRUST", "PROMOTE"} =>
         /\ Recorded.verdict \in Origins \cup {"UNVERIFIED"}
         /\ Recorded.verdict = "AI_VERIFIED" => declared \notin {"NONE", "UNKNOWN"}
    /\ Recorded.decision = "PROMOTE" => provenance.trusted

(* Uncertainty is not converted into a claim (docs/VERDICT-MODEL.md:13): a   *)
(* provider that is not positive never establishes an origin nor opens       *)
(* distribution by one, one that fails leaves every part of the outcome as   *)
(* it was, and a manipulation or a conflict once found is blocked or held    *)
(* whatever is heard later (engine.ts:16-36).                                *)
DoubtEstablishesNothing ==
  [][stage = "outside" =>
       /\ Last(observed').result # "positive" =>
            (Recorded'.verdict \in Origins => Recorded.verdict = Recorded'.verdict)
       /\ Last(observed') = ProviderFailure => Recorded' = Recorded
       /\ Manipulation(observed) => Recorded'.verdict = "BLOCK" /\ Recorded'.decision = "SUPPRESS"
       /\ Conflict(observed) => /\ Recorded'.verdict \in {"REVIEW", "BLOCK"}
                                /\ Recorded'.decision \in {"REVIEW", "SUPPRESS"}]_verifyVars
=============================================================================
