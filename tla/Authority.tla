------------------------------ MODULE Authority ------------------------------
(***************************************************************************)
(* evaluateAuthority and executionGate of src/src/authority.ts: one decision *)
(* out of a licence, a mission, an optional delegation and approval, and     *)
(* their status, freshness, budget and law evidence.                         *)
(*                                                                           *)
(* Data kept: times as numbers, Null or Malformed; a scope as whether it     *)
(* covers the action and its target (inScope); endorsements as whether they  *)
(* cover the policy's (endorsed); an evidence hash as whether it is 64 hex   *)
(* digits (hashed); EXPIRED, REVOKED and SUSPENDED as INACTIVE.  The         *)
(* evaluation time is the server's clock.                                    *)
(***************************************************************************)
EXTENDS Integers

CONSTANTS Null,      (* an absent time                                       *)
          Malformed  (* a time Date.parse cannot read                        *)

ASSUME TimesOK == Null \notin Int /\ Malformed \notin Int /\ Null # Malformed

Decisions == {"AUTHORIZED", "NOT_AUTHORIZED", "UNKNOWN"}

Parsed(x) == x \notin {Null, Malformed}

(* The inputs: the values of the type AuthorityInput.  Any time may be       *)
(* malformed: the policy simulation (server.ts:145) hands the rule licence,  *)
(* mission, delegation and approval as its caller sent them.                 *)
Time == Int \cup {Null, Malformed}

License == [given : BOOLEAN, class : Int, endorsed : BOOLEAN, inScope : BOOLEAN,
            hashed : BOOLEAN, from : Time, until : Time]
Mission == [given : BOOLEAN, maxClass : Int, inScope : BOOLEAN, hashed : BOOLEAN,
            starts : Time, expires : Time, ended : Time]
Delegation == [given : BOOLEAN, class : Int, endorsed : BOOLEAN, inScope : BOOLEAN,
               hashed : BOOLEAN, expires : Time]
Approval == [required : BOOLEAN, decision : {"APPROVED", "DENIED", "UNKNOWN"}, hashed : BOOLEAN,
             until : Time]
ActionPolicy == [known : BOOLEAN, minimumClass : Int]

AuthorityInput ==
  [license : License, mission : Mission, delegation : Delegation, approval : Approval, action : ActionPolicy,
   status : {"ACTIVE", "INACTIVE", "UNKNOWN"},
   freshness : {"CURRENT", "STALE", "UNKNOWN", "NONE"},
   budget : {"WITHIN_BUDGET", "OVER_BUDGET", "UNKNOWN", "NONE"},
   law : {"SUPPORTED", "NOT_APPLICABLE", "PARTIAL", "UNKNOWN", "CONFLICTING", "UNSUPPORTED", "NONE"}]

Granted(i) == i.license.given /\ i.mission.given

-----------------------------------------------------------------------------
(* Reasons: established facts that deny                                      *)

LicenceOutsideValidity(l, t) ==
  /\ Parsed(l.from) /\ l.until # Malformed
  /\ t < l.from \/ (Parsed(l.until) /\ t >= l.until)

MissionInactiveUntilExpiry(m, t) ==
  Parsed(m.starts) /\ Parsed(m.expires) /\ (t < m.starts \/ t >= m.expires)

MissionInactive(m, t) ==
  /\ Parsed(m.starts) /\ Parsed(m.expires) /\ m.ended # Malformed
  /\ t < m.starts \/ t >= m.expires \/ m.ended # Null

PolicyDenies(i) ==
  i.action.known /\ (i.license.class < i.action.minimumClass \/ ~i.license.endorsed)

DelegationEstablished(d) == d.hashed /\ Parsed(d.expires)

DelegationDenies(i, t) ==
  LET d == i.delegation
  IN d.given /\ \/ DelegationEstablished(d) /\ t >= d.expires
                \/ d.class > i.mission.maxClass
                \/ i.license.class > d.class
                \/ ~d.inScope
                \/ i.action.known /\ ~d.endorsed

Denied(i, t) ==
  \/ i.status = "INACTIVE"
  \/ /\ Granted(i)
     /\ \/ LicenceOutsideValidity(i.license, t)
        \/ MissionInactive(i.mission, t)
        \/ i.license.class > i.mission.maxClass
        \/ PolicyDenies(i)
        \/ ~i.license.inScope \/ ~i.mission.inScope
        \/ DelegationDenies(i, t)
        \/ i.approval.required /\ i.approval.decision = "DENIED"
        \/ i.budget = "OVER_BUDGET"
        \/ i.law \in {"UNSUPPORTED", "CONFLICTING"}

-----------------------------------------------------------------------------
(* Unknowns: facts that are not established                                  *)

GrantTimesMalformed(l, m) ==
  ~Parsed(l.from) \/ l.until = Malformed
    \/ ~Parsed(m.starts) \/ ~Parsed(m.expires) \/ m.ended = Malformed

(* An approval's validUntil is not checked: a malformed one compares like    *)
(* NaN and the approval does not expire.                                     *)
ApprovalUnestablished(p, t) ==
  p.required /\ (p.decision # "APPROVED" \/ ~p.hashed \/ (Parsed(p.until) /\ t >= p.until))

Unestablished(i, t) ==
  \/ ~Granted(i)
  \/ ~i.license.hashed \/ ~i.mission.hashed
  \/ GrantTimesMalformed(i.license, i.mission)
  \/ i.freshness \in {"STALE", "UNKNOWN"}
  \/ ~i.action.known
  \/ i.delegation.given /\ ~DelegationEstablished(i.delegation)
  \/ ApprovalUnestablished(i.approval, t) /\ i.approval.decision # "DENIED"
  \/ i.budget = "UNKNOWN"
  \/ i.law \in {"UNKNOWN", "PARTIAL"}
  \/ i.status = "UNKNOWN"

DecisionDoubtFirst(i, t) ==
  IF Unestablished(i, t) THEN "UNKNOWN"
  ELSE IF Denied(i, t) THEN "NOT_AUTHORIZED"
  ELSE "AUTHORIZED"

(* evaluateAuthority: a denial wins over every unknown.                      *)
Decision(i, t) ==
  IF Denied(i, t) THEN "NOT_AUTHORIZED"
  ELSE IF Unestablished(i, t) THEN "UNKNOWN"
  ELSE "AUTHORIZED"
=============================================================================
