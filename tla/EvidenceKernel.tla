---------------------------- MODULE EvidenceKernel ----------------------------
(***************************************************************************)
(* The claim rule of the evidence kernel (src/src/evidence-store.ts): which  *)
(* canonical evidence lets a claim stand in which state.                     *)
(*                                                                           *)
(* A claim is requested as SUPPORTED, PARTIAL, UNKNOWN, CONFLICTING or       *)
(* UNSUPPORTED.  A piece of evidence keeps its validation state, the current *)
(* status of its source, its type, the hours since it was observed, what it  *)
(* is about (subject: subject type, subject id and observation type) and its *)
(* digest.                                                                   *)
(***************************************************************************)
EXTENDS Integers

Validations == {"VERIFIED", "OBSERVED", "DECLARED", "UNKNOWN", "STALE", "CONFLICTING", "UNAVAILABLE"}

(* evidenceFreshnessMs, in hours                                             *)
Freshness(type) ==
  CASE type = "ACTION_CONFIRMATION" -> 1
    [] type = "MEDIA_SIGNAL" -> 7 * 24
    [] OTHER -> 24

-----------------------------------------------------------------------------
(* assertClaimEvidenceState: one conflicting piece makes the claim           *)
(* conflicting, one unestablished piece keeps it from being supported.       *)
StateRefuses(requested, E) ==
  \E e \in E : \/ e.validation = "CONFLICTING" /\ requested # "CONFLICTING"
               \/ /\ e.validation \in {"UNKNOWN", "UNAVAILABLE", "STALE", "DECLARED"}
                  /\ requested = "SUPPORTED"

(* assertSourceStatus                                                        *)
SourceRefuses(requested, E) == requested = "SUPPORTED" /\ \E e \in E : e.source # "ACTIVE"

AgeRefuses(requested, E) == requested = "SUPPORTED" /\ \E e \in E : e.age > Freshness(e.type)

(* Two digests for one subject and observation type contradict each other.   *)
Contradictory(E) == \E a, b \in E : a.subject = b.subject /\ a.digest # b.digest

ConflictRefuses(requested, E) == Contradictory(E) /\ requested # "CONFLICTING"

(* claim: the state is accepted, or an exception refuses it.                 *)
ClaimAccepted(requested, E) ==
  /\ ~StateRefuses(requested, E)
  /\ ~SourceRefuses(requested, E)
  /\ ~AgeRefuses(requested, E)
  /\ ~ConflictRefuses(requested, E)
=============================================================================
