----------------------------- MODULE MCAuthority -----------------------------
(* Every authority input within MaxEdits field changes of a fully            *)
(* established one, evaluated at one time, and what the decision should be.  *)
EXTENDS Authority

CONSTANT MaxEdits  (* bound: fields changed                                  *)

VARIABLES input,  (* the evidence handed to evaluateAuthority                *)
          edits   (* fields changed so far                                   *)

vars == <<input, edits>>

Now == 2

Established ==
  [license |-> [given |-> TRUE, class |-> 2, endorsed |-> TRUE, inScope |-> TRUE,
                hashed |-> TRUE, from |-> 1, until |-> 3],
   mission |-> [given |-> TRUE, maxClass |-> 3, inScope |-> TRUE, hashed |-> TRUE,
                starts |-> 1, expires |-> 3, ended |-> Null],
   delegation |-> [given |-> TRUE, class |-> 2, endorsed |-> TRUE, inScope |-> TRUE,
                   hashed |-> TRUE, expires |-> 3],
   approval |-> [required |-> TRUE, decision |-> "APPROVED", hashed |-> TRUE, until |-> 3],
   action |-> [known |-> TRUE, minimumClass |-> 2],
   status |-> "ACTIVE", freshness |-> "CURRENT", budget |-> "WITHIN_BUDGET", law |-> "SUPPORTED"]

(* The values a field may be changed to: one of each kind the code tells     *)
(* apart, and the boundary at which a time window closes.                    *)
Times == {1, Now, 3}
Parts ==
  [license |-> [given |-> BOOLEAN, class |-> 1..4, endorsed |-> BOOLEAN, inScope |-> BOOLEAN,
                hashed |-> BOOLEAN, from |-> Times \cup {Malformed}, until |-> Times \cup {Null, Malformed}],
   mission |-> [given |-> BOOLEAN, maxClass |-> 1..3, inScope |-> BOOLEAN, hashed |-> BOOLEAN,
                starts |-> Times \cup {Malformed}, expires |-> Times \cup {Malformed},
                ended |-> {Null, 1, 3, Malformed}],
   delegation |-> [given |-> BOOLEAN, class |-> 1..4, endorsed |-> BOOLEAN, inScope |-> BOOLEAN,
                   hashed |-> BOOLEAN, expires |-> Times \cup {Malformed}],
   approval |-> [required |-> BOOLEAN, decision |-> {"APPROVED", "DENIED", "UNKNOWN"}, hashed |-> BOOLEAN,
                 until |-> Times \cup {Null, Malformed}],
   action |-> [known |-> BOOLEAN, minimumClass |-> 1..3]]
States ==
  [status |-> {"ACTIVE", "INACTIVE", "UNKNOWN"},
   freshness |-> {"CURRENT", "STALE", "UNKNOWN", "NONE"},
   budget |-> {"WITHIN_BUDGET", "OVER_BUDGET", "UNKNOWN", "NONE"},
   law |-> {"SUPPORTED", "NOT_APPLICABLE", "PARTIAL", "UNKNOWN", "CONFLICTING", "UNSUPPORTED", "NONE"}]

Init == input = Established /\ edits = 0

EditPart ==
  \E p \in DOMAIN Parts : \E f \in DOMAIN Parts[p] : \E v \in Parts[p][f] :
    input' = [input EXCEPT ![p][f] = v]

EditState == \E f \in DOMAIN States : \E v \in States[f] : input' = [input EXCEPT ![f] = v]

Next == edits < MaxEdits /\ edits' = edits + 1 /\ (EditPart \/ EditState)

Spec == Init /\ [][Next]_vars

-----------------------------------------------------------------------------
(* The rule as a reviewer would write it, positively: every window is open,  *)
(* the classes nest, everything that was given is evidenced and covers the   *)
(* action.                                                                   *)
Open(from, until, t) == Parsed(from) /\ from <= t /\ (until = Null \/ (Parsed(until) /\ t < until))

Ladder(i) ==
  /\ i.action.minimumClass <= i.license.class
  /\ i.license.class <= i.mission.maxClass
  /\ i.delegation.given => /\ i.license.class <= i.delegation.class
                           /\ i.delegation.class <= i.mission.maxClass

Evidenced(i) ==
  /\ \A p \in {i.license, i.mission} : p.given /\ p.hashed /\ p.inScope
  /\ i.license.endorsed
  /\ i.delegation.given => i.delegation.hashed /\ i.delegation.inScope /\ i.delegation.endorsed
  /\ i.approval.required => i.approval.decision = "APPROVED" /\ i.approval.hashed
  /\ i.action.known
  /\ i.status = "ACTIVE"
  /\ i.freshness \in {"CURRENT", "NONE"}
  /\ i.budget \in {"WITHIN_BUDGET", "NONE"}
  /\ i.law \in {"SUPPORTED", "NOT_APPLICABLE", "NONE"}

InTime(i, t) ==
  /\ Open(i.license.from, i.license.until, t)
  /\ Open(i.mission.starts, i.mission.expires, t) /\ i.mission.expires # Null /\ i.mission.ended = Null
  /\ i.delegation.given => Parsed(i.delegation.expires) /\ t < i.delegation.expires
  /\ i.approval.required => 
       i.approval.until = Null \/ (Parsed(i.approval.until) /\ t < i.approval.until)

Establishes(i, t) == Ladder(i) /\ Evidenced(i) /\ InTime(i, t)

(* The code does not check that an approval's expiry is a time: one that     *)
(* Date.parse cannot read never comes (authority.ts:42).                     *)
AsRead(i) ==
  IF i.approval.until = Malformed THEN [i EXCEPT !.approval.until = Null] ELSE i

(* An action is AUTHORIZED exactly when every part of its authority is       *)
(* established, evidenced, in time and large enough; anything less, malformed*)
(* or boundary value included, is not.  The one exception is an approval     *)
(* whose expiry is malformed, which counts as one without expiry             *)
(* (authority.ts:20-53).                                                     *)
AuthorizedIffEstablished == Decision(input, Now) = "AUTHORIZED" <=> Establishes(AsRead(input), Now)

(* j is i with evidence lost: it went stale, a hash is gone, or what was     *)
(* known in favour of the action, never what was known against it, is        *)
(* UNKNOWN now.                                                              *)
EvidenceLost(i, j) ==
  /\ j = [i EXCEPT !.freshness = j.freshness, !.budget = j.budget, !.law = j.law, !.status = j.status,
                   !.license.hashed = j.license.hashed, !.mission.hashed = j.mission.hashed,
                   !.delegation.hashed = j.delegation.hashed,
                   !.approval.hashed = j.approval.hashed, !.approval.decision = j.approval.decision]
  /\ \A p \in {"license", "mission", "delegation", "approval"} : j[p].hashed => i[p].hashed
  /\ j.freshness \in {i.freshness, "STALE", "UNKNOWN"}
  /\ j.budget = i.budget \/ (j.budget = "UNKNOWN" /\ i.budget # "OVER_BUDGET")
  /\ j.law = i.law \/ (j.law \in {"UNKNOWN", "PARTIAL"} /\ i.law \notin {"UNSUPPORTED", "CONFLICTING"})
  /\ j.status = i.status \/ (j.status = "UNKNOWN" /\ i.status = "ACTIVE")
  /\ j.approval.decision = i.approval.decision
       \/ (j.approval.decision = "UNKNOWN" /\ i.approval.decision = "APPROVED")

(* The delegation would have to be still running for the action not to be    *)
(* denied: its expiry alone denies.                                          *)
ExpiryAloneDenies(i, t) == Denied(i, t) /\ ~Denied([i EXCEPT !.delegation.expires = t + 1], t)

(* A denial survives doubt: whatever evidence is lost, NOT_AUTHORIZED never  *)
(* softens into a mere UNKNOWN hold.  The one exception is a delegation whose*)
(* expiry alone denies: without its hash nobody looks at its expiry          *)
(* (authority.ts:22-25,39-53).                                               *)
DenialSurvivesDoubt ==
  [][(/\ Decision(input, Now) = "NOT_AUTHORIZED"
      /\ EvidenceLost(input, input')
      /\ ExpiryAloneDenies(input, Now) => input'.delegation.hashed = input.delegation.hashed)
     => Decision(input', Now) = "NOT_AUTHORIZED"]_vars
=============================================================================
