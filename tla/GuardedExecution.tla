-------------------------- MODULE GuardedExecution --------------------------
(***************************************************************************)
(* runIdempotentGuardedAction (src/src/guarded-action.ts): concurrent calls, *)
(* retries and crashes of actions that must first claim an idempotency key,  *)
(* then pass the authority check, and only then reach an external executor.  *)
(*                                                                           *)
(* The calls share universe_execution_idempotency and the authority tables   *)
(* of one organization; licence and mission are established and every call   *)
(* is of one actor, mission and action type that requires an approval, while *)
(* status, freshness and approvals change underneath.  Every SELECT of       *)
(* PgAuthority.check is a step of its own: withTenant opens a READ COMMITTED *)
(* transaction, so each sees what is committed when it runs.  External: the  *)
(* executor, which may have its effect, answer, answer nonsense or throw.    *)
(***************************************************************************)
EXTENDS Authority, Sequences, FiniteSets

CONSTANTS Callers,       (* concurrent calls of runIdempotentGuardedAction   *)
          Keys,          (* idempotency keys                                 *)
          Actions,       (* action fingerprints                              *)
          NoAction, NoKey,
          MaxApprovals,  (* bound: approval decisions ever recorded          *)
          MaxFaults      (* bound: calls that throw or crash half-way        *)

ASSUME ConstantsOK ==
  /\ NoAction \notin Actions /\ NoKey \notin Keys
  /\ MaxApprovals \in Nat /\ MaxFaults \in Nat

VARIABLES keys,       (* universe_execution_idempotency by key               *)
          calls,      (* the local state of every running call               *)
          status,     (* latest universe_authority_status_events entry       *)
          freshness,  (* latest universe_authority_freshness entry           *)
          approvals,  (* universe_approvals, oldest first; append-only       *)
          effects,    (* external effects by key: the action and approval    *)
          told,       (* receipts callers were given, executed or replayed   *)
          withdrawn,  (* facts that never permitted the action since the claim *)
          faults      (* calls lost so far                                   *)

vars == <<keys, calls, status, freshness, approvals, effects, told, withdrawn, faults>>
facts == <<status, freshness, approvals, withdrawn>>

Outcomes == {"OBSERVED_SUCCEEDED", "OBSERVED_FAILED", "DENIED_NOT_EXECUTED", "UNKNOWN"}
Phases == {"idle", "claimed", "statusRead", "freshnessRead", "executing", "receipt"}

Idle == [phase |-> "idle", key |-> NoKey, action |-> NoAction, status |-> "UNKNOWN",
         freshness |-> "UNKNOWN", approval |-> 0, acted |-> FALSE, outcome |-> "NONE"]

Unused == [state |-> "ABSENT", action |-> NoAction, outcome |-> "NONE"]

-----------------------------------------------------------------------------
(* The authority check                                                       *)

OldestApproval == IF approvals = <<>> THEN 0 ELSE 1

LatestApproval == Len(approvals)

ApprovalDecision(n) == IF n = 0 THEN "UNKNOWN" ELSE approvals[n]

(* What check hands evaluateAuthority: no delegation, budget or law.         *)
CheckInput(s, f, d) ==
  [license |-> [given |-> TRUE, class |-> 2, endorsed |-> TRUE, inScope |-> TRUE,
                hashed |-> TRUE, from |-> 0, until |-> Null],
   mission |-> [given |-> TRUE, maxClass |-> 3, inScope |-> TRUE, hashed |-> TRUE,
                starts |-> 0, expires |-> 2, ended |-> Null],
   delegation |-> [given |-> FALSE],
   approval |-> [required |-> TRUE, decision |-> d, hashed |-> d # "UNKNOWN", until |-> Null],
   action |-> [known |-> TRUE, minimumClass |-> 2],
   status |-> s, freshness |-> f, budget |-> "NONE", law |-> "NONE"]

ClosedGateVerdict(decision) == decision

(* The receipt of an action the gate did not let through.                    *)
ClosedGateOutcome(decision) ==
  IF decision = "NOT_AUTHORIZED" THEN "DENIED_NOT_EXECUTED" ELSE "UNKNOWN"

(* The facts that, as they stand, do not permit the action.                  *)
Forbidding ==
  {x \in {"status", "freshness", "approval"} :
     CASE x = "status" -> status # "ACTIVE"
       [] x = "freshness" -> freshness # "CURRENT"
       [] x = "approval" -> approvals = <<>> \/ approvals[Len(approvals)] # "APPROVED"}

-----------------------------------------------------------------------------
Init ==
  /\ keys = [k \in Keys |-> Unused]
  /\ calls = [c \in Callers |-> Idle]
  /\ status \in {"ACTIVE", "UNKNOWN"}
  /\ freshness = "CURRENT"
  /\ approvals = <<>>
  /\ effects = [k \in Keys |-> <<>>]
  /\ told = {}
  /\ withdrawn = [c \in Callers |-> {}]
  /\ faults = 0

Move(c, from, to) ==
  /\ calls[c].phase = from
  /\ calls' = [calls EXCEPT ![c] = to]

ClaimableUnlessCompleted(k) == keys[k].state # "COMPLETED"

Claimable(k) == keys[k].state = "ABSENT"

(* claim: the INSERT that wins the key.                                      *)
Claim(c, k, a) ==
  /\ Claimable(k)
  /\ Move(c, "idle", [Idle EXCEPT !.phase = "claimed", !.key = k, !.action = a])
  /\ keys' = [keys EXCEPT ![k] = [state |-> "CLAIMED", action |-> a, outcome |-> "NONE"]]
  /\ withdrawn' = [withdrawn EXCEPT ![c] = Forbidding]
  /\ UNCHANGED <<status, freshness, approvals, effects, told, faults>>

ClaimAnswerStateFirst(k, a) ==
  IF keys[k].state = "COMPLETED" THEN "REPLAY"
  ELSE IF keys[k].action # a THEN "CONFLICT"
  ELSE "IN_PROGRESS"

ClaimAnswer(k, a) ==
  IF keys[k].action # a THEN "CONFLICT"
  ELSE IF keys[k].state = "COMPLETED" THEN "REPLAY"
  ELSE "IN_PROGRESS"

(* claim: ON CONFLICT DO NOTHING, then the SELECT decides; nothing runs.     *)
Refuse(c, k, a) ==
  /\ calls[c].phase = "idle"
  /\ ~Claimable(k)
  /\ told' = IF ClaimAnswer(k, a) = "REPLAY"
             THEN told \cup {[key |-> k, action |-> a, outcome |-> keys[k].outcome]}
             ELSE told
  /\ UNCHANGED <<keys, calls, effects, faults>> /\ UNCHANGED facts

ReadStatus(c) ==
  /\ Move(c, "claimed", [calls[c] EXCEPT !.phase = "statusRead", !.status = status])
  /\ UNCHANGED <<keys, effects, told, faults>> /\ UNCHANGED facts

ReadFreshness(c) ==
  /\ Move(c, "statusRead", [calls[c] EXCEPT !.phase = "freshnessRead", !.freshness = freshness])
  /\ UNCHANGED <<keys, effects, told, faults>> /\ UNCHANGED facts

(* The last read, evaluateAuthority, and executionGate: only AUTHORIZED      *)
(* reaches the executor.                                                     *)
Decide(c) ==
  LET n == LatestApproval
      decision == Decision(CheckInput(calls[c].status, calls[c].freshness, ApprovalDecision(n)), 1)
  IN /\ Move(c, "freshnessRead",
             IF decision = "AUTHORIZED"
             THEN [calls[c] EXCEPT !.phase = "executing", !.approval = n]
             ELSE [calls[c] EXCEPT !.phase = "receipt", !.outcome = ClosedGateOutcome(decision)])
     /\ UNCHANGED <<keys, effects, told, faults>> /\ UNCHANGED facts

(* External: the executor's side effect, at some time during the call.       *)
Effect(c) ==
  /\ calls[c].phase = "executing" /\ ~calls[c].acted
  /\ effects' = [effects EXCEPT ![calls[c].key] =
                   Append(@, [action |-> calls[c].action, approval |-> calls[c].approval])]
  /\ calls' = [calls EXCEPT ![c].acted = TRUE]
  /\ UNCHANGED <<keys, told, faults>> /\ UNCHANGED facts

(* The executor is honest: SUCCEEDED and FAILED say whether it acted.        *)
UsableAnswer(c) == IF calls[c].acted THEN "OBSERVED_SUCCEEDED" ELSE "OBSERVED_FAILED"

(* executeGoverned: a usable external receipt, or an unusable one, an        *)
(* untimely one and a throw, which all become UNKNOWN.                       *)
ExecutorReturns(c) ==
  \E o \in {UsableAnswer(c), "UNKNOWN"} :
    /\ Move(c, "executing", [calls[c] EXCEPT !.phase = "receipt", !.outcome = o])
    /\ UNCHANGED <<keys, effects, told, faults>> /\ UNCHANGED facts

ReceiptFailureWhenUnknown(c) ==
  IF calls[c].outcome = "UNKNOWN" THEN "OBSERVED_FAILED" ELSE calls[c].outcome

ReceiptOf(c) == calls[c].outcome

Holds(c) ==
  keys[calls[c].key].state = "CLAIMED" /\ keys[calls[c].key].action = calls[c].action

(* complete: the conditional UPDATE, then EXECUTED or                        *)
(* IDEMPOTENCY_COMPLETION_FAILED.                                            *)
Complete(c) ==
  /\ Move(c, "receipt", Idle)
  /\ IF Holds(c)
     THEN /\ keys' = [keys EXCEPT ![calls[c].key] =
                         [state |-> "COMPLETED", action |-> calls[c].action, outcome |-> ReceiptOf(c)]]
          /\ told' = told \cup {[key |-> calls[c].key, action |-> calls[c].action,
                                 outcome |-> ReceiptOf(c)]}
     ELSE UNCHANGED <<keys, told>>
  /\ UNCHANGED <<effects, faults>> /\ UNCHANGED facts

(* The process dies, the database fails, or executeGoverned throws on a      *)
(* blank key or an undigestible payload.  The key stays CLAIMED.             *)
Abort(c) ==
  /\ faults < MaxFaults /\ calls[c].phase # "idle"
  /\ calls' = [calls EXCEPT ![c] = Idle]
  /\ faults' = faults + 1
  /\ UNCHANGED <<keys, effects, told>> /\ UNCHANGED facts

-----------------------------------------------------------------------------
(* The authority facts change.  A freshness of UNKNOWN decides like STALE.   *)

Observe ==
  /\ withdrawn' = [c \in Callers |-> withdrawn[c] \cap Forbidding']
  /\ UNCHANGED <<keys, calls, effects, told, faults>>

SetStatus(s) ==
  /\ status' = s
  /\ UNCHANGED <<freshness, approvals>>
  /\ Observe

SetFreshness(f) ==
  /\ freshness' = f
  /\ UNCHANGED <<status, approvals>>
  /\ Observe

DecideApproval(d) ==
  /\ Len(approvals) < MaxApprovals
  /\ approvals' = Append(approvals, d)
  /\ UNCHANGED <<status, freshness>>
  /\ Observe

Next ==
  \/ \E c \in Callers :
       \/ \E k \in Keys, a \in Actions : Claim(c, k, a) \/ Refuse(c, k, a)
       \/ ReadStatus(c) \/ ReadFreshness(c) \/ Decide(c)
       \/ Effect(c) \/ ExecutorReturns(c) \/ Complete(c) \/ Abort(c)
  \/ \E s \in {"ACTIVE", "INACTIVE", "UNKNOWN"} : SetStatus(s)
  \/ \E f \in {"CURRENT", "STALE"} : SetFreshness(f)
  \/ \E d \in {"APPROVED", "DENIED"} : DecideApproval(d)

Spec == Init /\ [][Next]_vars

-----------------------------------------------------------------------------
KeyRow == [state : {"ABSENT", "CLAIMED", "COMPLETED"}, action : Actions \cup {NoAction},
           outcome : Outcomes \cup {"NONE"}]

CallState ==
  [phase : Phases, key : Keys \cup {NoKey}, action : Actions \cup {NoAction},
   status : {"ACTIVE", "INACTIVE", "UNKNOWN"}, freshness : {"CURRENT", "STALE", "UNKNOWN"},
   approval : Nat, acted : BOOLEAN, outcome : Outcomes \cup {"NONE"}]

(* The types of the tables and of the calls' local state.                    *)
TypeOK ==
  /\ keys \in [Keys -> KeyRow]
  /\ calls \in [Callers -> CallState]
  /\ status \in {"ACTIVE", "INACTIVE", "UNKNOWN"}
  /\ freshness \in {"CURRENT", "STALE"}
  /\ approvals \in Seq({"APPROVED", "DENIED"})
  /\ effects \in [Keys -> Seq([action : Actions, approval : Nat])]
  /\ withdrawn \in [Callers -> SUBSET {"status", "freshness", "approval"}]
  /\ faults \in 0..MaxFaults

(* One answer per key: whoever was told a receipt for a key asked for the    *)
(* action that ran, and every receipt told agrees with the external world,   *)
(* retries, crashes and rivals notwithstanding (guarded-action.ts:11-16).    *)
ToldTheTruth ==
  \A t \in told :
    /\ \A i \in DOMAIN effects[t.key] : effects[t.key][i].action = t.action
    /\ t.outcome = "OBSERVED_SUCCEEDED" => Len(effects[t.key]) = 1
    /\ t.outcome \in {"OBSERVED_FAILED", "DENIED_NOT_EXECUTED"} => effects[t.key] = <<>>
    /\ \A u \in told : u.key = t.key => u = t

(* No call reaches the executor when some authority fact has not permitted   *)
(* the action at any time since its claim: what was withdrawn before a call  *)
(* and not restored stops it (authority-store.ts:13-15, authority.ts:55-60). *)
WithdrawalHolds == \A c \in Callers : calls[c].phase = "executing" => withdrawn[c] = {}

(* db/063_approval_consumption.sql:1: an approval is consumed by one exact   *)
(* governed action.                                                          *)
ApprovalUsedOnce ==
  \A j, k \in Keys : \A m \in DOMAIN effects[j], n \in DOMAIN effects[k] :
    effects[j][m].approval = effects[k][n].approval => j = k /\ m = n

(* The whole implements the promise of an idempotency key.                   *)
Promise == INSTANCE OnceOnly WITH
  owner <- [k \in Keys |-> keys[k].action],
  performed <- [k \in Keys |-> Len(effects[k])],
  outcome <- [k \in Keys |-> keys[k].outcome]

ImplementsOnceOnly == Promise!Spec
=============================================================================
