----------------------- MODULE GuardedExecutionProofs -----------------------
(***************************************************************************)
(* For any number of callers, keys, actions, approvals and crashes: guarded  *)
(* execution keeps its types, tells every caller the truth about what its    *)
(* key did, and implements OnceOnly.                                         *)
(*                                                                           *)
(* The inductive invariant says who may still act on a key: a key is ABSENT, *)
(* or CLAIMED by at most one running call (none after a crash), or COMPLETED *)
(* with no running call left; and what the effects on it are in each case.   *)
(***************************************************************************)
EXTENDS GuardedExecution, TLAPS

KeysCoherent ==
  \A k \in Keys :
    /\ keys[k].state = "ABSENT" <=> keys[k].action = NoAction
    /\ keys[k].state = "COMPLETED" <=> keys[k].outcome # "NONE"
    /\ keys[k].state = "ABSENT" => effects[k] = <<>>
    /\ keys[k].state = "COMPLETED" => Promise!Honest(keys[k].outcome, Len(effects[k]))
    /\ \A i \in DOMAIN effects[k] : effects[k][i].action = keys[k].action

(* What a running call may rely on until it completes.                       *)
Owns(c) ==
  /\ calls[c].key \in Keys
  /\ Holds(c)
  /\ calls[c].phase \in {"claimed", "statusRead", "freshnessRead"} =>
       ~calls[c].acted /\ effects[calls[c].key] = <<>>
  /\ calls[c].phase = "executing" =>
       Len(effects[calls[c].key]) = IF calls[c].acted THEN 1 ELSE 0
  /\ calls[c].phase = "receipt" =>
       /\ calls[c].outcome \in Outcomes
       /\ Promise!Honest(calls[c].outcome, Len(effects[calls[c].key]))

CallsCoherent == \A c \in Callers : calls[c].phase # "idle" => Owns(c)

OneCallPerKey ==
  \A c, d \in Callers :
    c # d /\ calls[c].phase # "idle" /\ calls[d].phase # "idle" => calls[c].key # calls[d].key

ReceiptsOnRecord ==
  \A t \in told :
    /\ t \in [key : Keys, action : Actions, outcome : Outcomes]
    /\ keys[t.key] = [state |-> "COMPLETED", action |-> t.action, outcome |-> t.outcome]

IInv == TypeOK /\ KeysCoherent /\ CallsCoherent /\ OneCallPerKey /\ ReceiptsOnRecord

-----------------------------------------------------------------------------
(* The updates the steps make to a call's local state keep its type.         *)
LEMMA CallUpdate ==
  ASSUME NEW r \in CallState, NEW p \in Phases
  PROVE  /\ \A s \in {"ACTIVE", "INACTIVE", "UNKNOWN"} :
              [r EXCEPT !.phase = p, !.status = s] \in CallState
         /\ \A f \in {"CURRENT", "STALE", "UNKNOWN"} :
              [r EXCEPT !.phase = p, !.freshness = f] \in CallState
         /\ \A n \in Nat : [r EXCEPT !.phase = p, !.approval = n] \in CallState
         /\ \A o \in Outcomes : [r EXCEPT !.phase = p, !.outcome = o] \in CallState
         /\ [r EXCEPT !.acted = TRUE] \in CallState
  BY DEF CallState

(* Appending keeps a sequence over its set.                                  *)
LEMMA AppendType ==
  ASSUME NEW S, NEW q \in Seq(S), NEW e \in S
  PROVE  Append(q, e) \in Seq(S)
  OBVIOUS

(* A call that moves is the only one to change.                              *)
LEMMA Moved ==
  ASSUME NEW c \in Callers, NEW from, NEW r \in CallState,
         calls \in [Callers -> CallState], Move(c, from, r)
  PROVE  calls' \in [Callers -> CallState]
  BY DEF Move

(* Every step keeps the types.                                               *)
LEMMA TypeStep == TypeOK /\ KeysCoherent /\ CallsCoherent /\ [Next]_vars => TypeOK'
<1> SUFFICES ASSUME TypeOK, KeysCoherent, CallsCoherent, [Next]_vars
             PROVE  TypeOK'
  OBVIOUS
<1> USE ConstantsOK DEF TypeOK
<1>0. \A c \in Callers : calls[c] \in CallState
  OBVIOUS
<1>1. ASSUME NEW c \in Callers, NEW k \in Keys, NEW a \in Actions, Claim(c, k, a)
      PROVE  TypeOK'
  <2>1. calls' \in [Callers -> CallState]
    BY <1>1 DEF Claim, Move, CallState, Idle, Phases
  <2>2. keys' \in [Keys -> KeyRow]
    BY <1>1 DEF Claim, KeyRow
  <2>3. withdrawn' \in [Callers -> SUBSET {"status", "freshness", "approval"}]
    BY <1>1 DEF Claim, Forbidding
  <2>. QED
    BY <1>1, <2>1, <2>2, <2>3 DEF Claim
<1>2. ASSUME NEW c \in Callers, NEW k \in Keys, NEW a \in Actions, Refuse(c, k, a)
      PROVE  TypeOK'
  BY <1>2 DEF Refuse, facts
<1>3. ASSUME NEW c \in Callers, ReadStatus(c)
      PROVE  TypeOK'
  <2>1. [calls[c] EXCEPT !.phase = "statusRead", !.status = status] \in CallState
    BY <1>0, CallUpdate DEF Phases
  <2>2. calls' \in [Callers -> CallState]
    BY <1>3, <2>1, Moved DEF ReadStatus
  <2>. QED
    BY <1>3, <2>2 DEF ReadStatus, facts
<1>4. ASSUME NEW c \in Callers, ReadFreshness(c)
      PROVE  TypeOK'
  <2>1. [calls[c] EXCEPT !.phase = "freshnessRead", !.freshness = freshness] \in CallState
    BY <1>0, CallUpdate DEF Phases
  <2>2. calls' \in [Callers -> CallState]
    BY <1>4, <2>1, Moved DEF ReadFreshness
  <2>. QED
    BY <1>4, <2>2 DEF ReadFreshness, facts
<1>5. ASSUME NEW c \in Callers, Decide(c)
      PROVE  TypeOK'
  <2>1. LatestApproval \in Nat
    BY DEF LatestApproval
  <2>2. [calls[c] EXCEPT !.phase = "executing", !.approval = LatestApproval] \in CallState
    BY <1>0, <2>1, CallUpdate DEF Phases
  <2>3. \A o \in Outcomes : [calls[c] EXCEPT !.phase = "receipt", !.outcome = o] \in CallState
    BY <1>0, CallUpdate DEF Phases
  <2>4. \A decision : ClosedGateOutcome(decision) \in Outcomes
    BY DEF ClosedGateOutcome, Outcomes
  <2>5. calls' \in [Callers -> CallState]
    BY <1>5, <2>2, <2>3, <2>4 DEF Decide, Move
  <2>. QED
    BY <1>5, <2>5 DEF Decide, facts
<1>6. ASSUME NEW c \in Callers, Effect(c)
      PROVE  TypeOK'
  <2>1. calls[c].key \in Keys /\ calls[c].action \in Actions /\ calls[c].approval \in Nat
    <3>1. Owns(c)
      BY <1>6 DEF Effect, CallsCoherent
    <3>2. keys[calls[c].key].action # NoAction
      BY <3>1 DEF KeysCoherent, Owns, Holds
    <3>. QED
      BY <1>0, <3>1, <3>2 DEF Owns, Holds, CallState
  <2>2. [calls[c] EXCEPT !.acted = TRUE] \in CallState
    BY <1>0, CallUpdate DEF Phases, Outcomes
  <2>3. calls' \in [Callers -> CallState]
    BY <1>6, <2>2 DEF Effect
  <2>4. [action |-> calls[c].action, approval |-> calls[c].approval] \in [action : Actions, approval : Nat]
    BY <2>1
  <2>5. Append(effects[calls[c].key], [action |-> calls[c].action, approval |-> calls[c].approval])
          \in Seq([action : Actions, approval : Nat])
    BY <2>1, <2>4, AppendType
  <2>6. effects' \in [Keys -> Seq([action : Actions, approval : Nat])]
    BY <1>6, <2>1, <2>5 DEF Effect
  <2>. QED
    BY <1>6, <2>3, <2>6 DEF Effect, facts
<1>7. ASSUME NEW c \in Callers, ExecutorReturns(c)
      PROVE  TypeOK'
  <2>1. PICK o \in Outcomes :
          Move(c, "executing", [calls[c] EXCEPT !.phase = "receipt", !.outcome = o])
    BY <1>7 DEF ExecutorReturns, UsableAnswer, Outcomes
  <2>2. [calls[c] EXCEPT !.phase = "receipt", !.outcome = o] \in CallState
    BY <1>0, CallUpdate DEF Phases
  <2>3. calls' \in [Callers -> CallState]
    BY <2>1, <2>2, Moved
  <2>. QED
    BY <1>7, <2>3 DEF ExecutorReturns, facts
<1>8. ASSUME NEW c \in Callers, Complete(c)
      PROVE  TypeOK'
  <2>1. calls' \in [Callers -> CallState]
    BY <1>8 DEF Complete, Move, CallState, Idle, Phases
  <2>2. calls[c].outcome \in Outcomes \cup {"NONE"}
    BY <1>0 DEF CallState
  <2>3. calls[c].action \in Actions \cup {NoAction}
    BY <1>0 DEF CallState
  <2>4. [state |-> "COMPLETED", action |-> calls[c].action, outcome |-> ReceiptOf(c)] \in KeyRow
    BY <2>2, <2>3 DEF ReceiptOf, KeyRow
  <2>5. keys' \in [Keys -> KeyRow]
    BY <1>8, <2>4 DEF Complete
  <2>. QED
    BY <1>8, <2>1, <2>5 DEF Complete, facts
<1>9. ASSUME NEW c \in Callers, Abort(c)
      PROVE  TypeOK'
  <2>1. calls' \in [Callers -> CallState]
    BY <1>9 DEF Abort, CallState, Idle, Phases
  <2>2. faults' \in 0..MaxFaults
    BY <1>9 DEF Abort
  <2>. QED
    BY <1>9, <2>1, <2>2 DEF Abort, facts
<1>10. ASSUME Observe
       PROVE  withdrawn' \in [Callers -> SUBSET {"status", "freshness", "approval"}]
  BY <1>10 DEF Observe, Forbidding
<1>11. ASSUME NEW x \in {"ACTIVE", "INACTIVE", "UNKNOWN"}, SetStatus(x)
       PROVE  TypeOK'
  BY <1>10, <1>11 DEF SetStatus, Observe
<1>12. ASSUME NEW f \in {"CURRENT", "STALE"}, SetFreshness(f)
       PROVE  TypeOK'
  BY <1>10, <1>12 DEF SetFreshness, Observe
<1>13. ASSUME NEW d \in {"APPROVED", "DENIED"}, DecideApproval(d)
       PROVE  TypeOK'
  <2>1. Append(approvals, d) \in Seq({"APPROVED", "DENIED"})
    OBVIOUS
  <2>. QED
    BY <1>10, <1>13, <2>1 DEF DecideApproval, Observe
<1>14. CASE UNCHANGED vars
  BY <1>14 DEF vars
<1>. QED
  BY <1>1, <1>2, <1>3, <1>4, <1>5, <1>6, <1>7, <1>8, <1>9, <1>11, <1>12, <1>13, <1>14 DEF Next

-----------------------------------------------------------------------------
(* A call whose own state, key row and effects a step leaves alone still     *)
(* owns its key.                                                             *)
LEMMA Undisturbed ==
  ASSUME NEW d \in Callers, Owns(d), calls'[d] = calls[d],
         keys'[calls[d].key] = keys[calls[d].key],
         effects'[calls[d].key] = effects[calls[d].key]
  PROVE  Owns(d)'
  BY DEF Owns, Holds, Promise!Honest

(* Steps that only move one call on, to a state that still owns its key.     *)
LEMMA CallMoves ==
  ASSUME IInv, NEW c \in Callers, calls[c].phase # "idle",
         \A d \in Callers \ {c} : calls'[d] = calls[d],
         calls'[c].key = calls[c].key, Owns(c)',
         UNCHANGED <<keys, effects, told>>
  PROVE  KeysCoherent' /\ CallsCoherent' /\ OneCallPerKey' /\ ReceiptsOnRecord'
<1> USE DEF IInv
<1>1. KeysCoherent'
  BY DEF KeysCoherent, Promise!Honest
<1>2. CallsCoherent'
  <2> SUFFICES ASSUME NEW d \in Callers, d # c, calls'[d].phase # "idle"
               PROVE  Owns(d)'
    BY DEF CallsCoherent
  <2>. QED
    BY Undisturbed DEF CallsCoherent
<1>3. OneCallPerKey'
  BY DEF OneCallPerKey
<1>4. ReceiptsOnRecord'
  BY DEF ReceiptsOnRecord
<1>. QED
  BY <1>1, <1>2, <1>3, <1>4

(* Claiming an absent key makes this call its only owner.                    *)
LEMMA ClaimStep ==
  ASSUME IInv, NEW c \in Callers, NEW k \in Keys, NEW a \in Actions, Claim(c, k, a)
  PROVE  KeysCoherent' /\ CallsCoherent' /\ OneCallPerKey' /\ ReceiptsOnRecord'
<1> USE ConstantsOK DEF IInv
<1>1. /\ calls[c].phase = "idle"
      /\ calls'[c].phase = "claimed" /\ calls'[c].key = k /\ calls'[c].action = a
      /\ calls'[c].acted = FALSE
      /\ \A d \in Callers \ {c} : calls'[d] = calls[d]
  BY DEF TypeOK, Claim, Move, Idle
<1>2. /\ keys[k].state = "ABSENT" /\ effects[k] = <<>>
      /\ keys'[k] = [state |-> "CLAIMED", action |-> a, outcome |-> "NONE"]
      /\ \A j \in Keys \ {k} : keys'[j] = keys[j]
      /\ effects' = effects /\ told' = told
  BY DEF TypeOK, Claim, Claimable, KeysCoherent
<1>3. \A d \in Callers \ {c} : calls[d].phase # "idle" => calls[d].key # k /\ calls[d].key \in Keys
  BY <1>2 DEF CallsCoherent, Owns, Holds
<1>4. KeysCoherent'
  BY <1>2 DEF KeysCoherent, Promise!Honest
<1>5. CallsCoherent'
  <2>1. Owns(c)'
    BY <1>1, <1>2 DEF Owns, Holds
  <2>2. ASSUME NEW d \in Callers, d # c, calls'[d].phase # "idle"
        PROVE  Owns(d)'
    BY <1>1, <1>2, <1>3, <2>2, Undisturbed DEF CallsCoherent
  <2>. QED
    BY <2>1, <2>2 DEF CallsCoherent
<1>6. OneCallPerKey'
  BY <1>1, <1>3 DEF OneCallPerKey
<1>7. ReceiptsOnRecord'
  <2> SUFFICES ASSUME NEW t \in told
               PROVE  /\ t \in [key : Keys, action : Actions, outcome : Outcomes]
                      /\ keys'[t.key] = [state |-> "COMPLETED", action |-> t.action, outcome |-> t.outcome]
    BY <1>2 DEF ReceiptsOnRecord
  <2>1. /\ t \in [key : Keys, action : Actions, outcome : Outcomes]
        /\ keys[t.key] = [state |-> "COMPLETED", action |-> t.action, outcome |-> t.outcome]
    BY DEF ReceiptsOnRecord
  <2>2. t.key \in Keys /\ t.key # k
    BY <1>2, <2>1
  <2>. QED
    BY <1>2, <2>1, <2>2
<1>. QED
  BY <1>4, <1>5, <1>6, <1>7

(* Reads, the decision and the executor's answer move one call on.           *)
LEMMA LocalStep ==
  ASSUME IInv, NEW c \in Callers,
         ReadStatus(c) \/ ReadFreshness(c) \/ Decide(c) \/ ExecutorReturns(c)
  PROVE  KeysCoherent' /\ CallsCoherent' /\ OneCallPerKey' /\ ReceiptsOnRecord'
<1> USE DEF IInv
<1>0. calls \in [Callers -> CallState] /\ calls[c] \in CallState
  BY DEF TypeOK
<1>1. UNCHANGED <<keys, effects, told>>
  BY DEF ReadStatus, ReadFreshness, Decide, ExecutorReturns
<1>2. /\ calls[c].phase \in {"claimed", "statusRead", "freshnessRead", "executing"}
      /\ \A d \in Callers \ {c} : calls'[d] = calls[d]
  BY <1>0 DEF ReadStatus, ReadFreshness, Decide, ExecutorReturns, Move
<1>3. Owns(c)
  BY <1>2 DEF CallsCoherent
<1>4. /\ calls'[c].key = calls[c].key
      /\ Owns(c)'
  <2>1. CASE ReadStatus(c)
    <3>1. calls'[c] = [calls[c] EXCEPT !.phase = "statusRead", !.status = status]
      BY <1>0, <2>1 DEF ReadStatus, Move
    <3>2. /\ calls[c].phase = "claimed" /\ calls'[c].phase = "statusRead"
          /\ calls'[c].key = calls[c].key /\ calls'[c].action = calls[c].action
          /\ calls'[c].acted = calls[c].acted
      BY <1>0, <2>1, <3>1 DEF ReadStatus, Move, CallState
    <3>. QED
      BY <1>1, <1>3, <3>2 DEF Owns, Holds
  <2>2. CASE ReadFreshness(c)
    <3>1. calls'[c] = [calls[c] EXCEPT !.phase = "freshnessRead", !.freshness = freshness]
      BY <1>0, <2>2 DEF ReadFreshness, Move
    <3>2. /\ calls[c].phase = "statusRead" /\ calls'[c].phase = "freshnessRead"
          /\ calls'[c].key = calls[c].key /\ calls'[c].action = calls[c].action
          /\ calls'[c].acted = calls[c].acted
      BY <1>0, <2>2, <3>1 DEF ReadFreshness, Move, CallState
    <3>. QED
      BY <1>1, <1>3, <3>2 DEF Owns, Holds
  <2>3. CASE Decide(c)
    <3>1. PICK o \in {"DENIED_NOT_EXECUTED", "UNKNOWN"} :
            \/ calls'[c] = [calls[c] EXCEPT !.phase = "executing", !.approval = LatestApproval]
            \/ calls'[c] = [calls[c] EXCEPT !.phase = "receipt", !.outcome = o]
      BY <1>0, <2>3 DEF Decide, Move, ClosedGateOutcome
    <3>2. /\ calls[c].phase = "freshnessRead"
          /\ calls'[c].key = calls[c].key /\ calls'[c].action = calls[c].action
          /\ calls'[c].acted = calls[c].acted
          /\ calls'[c].phase = "executing" \/ (calls'[c].phase = "receipt" /\ calls'[c].outcome = o)
      BY ZenonT(60), <1>0, <2>3, <3>1 DEF Decide, Move, CallState
    <3>3. effects[calls[c].key] = <<>> /\ ~calls[c].acted
      BY <1>3, <3>2 DEF Owns
    <3>4. Promise!Honest(o, 0)
      BY DEF Promise!Honest
    <3>. QED
      BY <1>1, <1>3, <3>2, <3>3, <3>4 DEF Owns, Holds, Outcomes, Promise!Honest
  <2>4. CASE ExecutorReturns(c)
    <3>1. PICK o \in {UsableAnswer(c), "UNKNOWN"} :
            calls'[c] = [calls[c] EXCEPT !.phase = "receipt", !.outcome = o]
      BY <1>0, <2>4 DEF ExecutorReturns, Move
    <3>2. /\ calls[c].phase = "executing" /\ calls'[c].phase = "receipt"
          /\ calls'[c].key = calls[c].key /\ calls'[c].action = calls[c].action
          /\ calls'[c].outcome = o
      BY <1>0, <2>4, <3>1 DEF ExecutorReturns, Move, CallState
    <3>3. Len(effects[calls[c].key]) = IF calls[c].acted THEN 1 ELSE 0
      BY <1>3, <3>2 DEF Owns
    <3>4. o \in Outcomes /\ Promise!Honest(o, Len(effects[calls[c].key]))
      BY <3>1, <3>3 DEF UsableAnswer, Outcomes, Promise!Honest
    <3>. QED
      BY <1>1, <1>3, <3>2, <3>4 DEF Owns, Holds, Promise!Honest
  <2>. QED
    BY <2>1, <2>2, <2>3, <2>4
<1>. QED
  BY <1>1, <1>2, <1>4, CallMoves

(* The effect is the first on its key, and no other call works on that key.  *)
LEMMA EffectStep ==
  ASSUME IInv, NEW c \in Callers, Effect(c)
  PROVE  /\ KeysCoherent' /\ CallsCoherent' /\ OneCallPerKey' /\ ReceiptsOnRecord'
         /\ effects[calls[c].key] = <<>>
<1> USE DEF IInv
<1> DEFINE k == calls[c].key
           e == [action |-> calls[c].action, approval |-> calls[c].approval]
<1>0. calls \in [Callers -> CallState] /\ calls[c] \in CallState
  BY DEF TypeOK
<1>1. calls[c].phase = "executing" /\ ~calls[c].acted /\ Owns(c)
  BY DEF Effect, CallsCoherent
<1>2. /\ k \in Keys /\ keys[k].state = "CLAIMED" /\ keys[k].action = calls[c].action
      /\ effects[k] \in Seq([action : Actions, approval : Nat]) /\ Len(effects[k]) = 0
  BY <1>1 DEF Owns, Holds, TypeOK
<1>3. effects[k] = <<>>
  BY <1>2
<1>4. /\ effects'[k] = <<e>>
      /\ \A j \in Keys \ {k} : effects'[j] = effects[j]
      /\ keys' = keys /\ told' = told
  BY <1>2, <1>3 DEF Effect, TypeOK
<1>5. /\ calls'[c].phase = "executing" /\ calls'[c].acted = TRUE
      /\ calls'[c].key = k /\ calls'[c].action = calls[c].action
      /\ \A d \in Callers \ {c} : calls'[d] = calls[d]
  BY <1>0, <1>1 DEF Effect, CallState
<1>6. Len(effects'[k]) = 1 /\ \A i \in DOMAIN effects'[k] : effects'[k][i].action = keys[k].action
  BY <1>2, <1>4
<1>7. KeysCoherent'
  BY <1>2, <1>4, <1>6 DEF KeysCoherent, Promise!Honest
<1>8. CallsCoherent'
  <2>1. Owns(c)'
    BY <1>2, <1>4, <1>5, <1>6 DEF Owns, Holds
  <2>2. ASSUME NEW d \in Callers, d # c, calls'[d].phase # "idle"
        PROVE  Owns(d)'
    <3>1. Owns(d) /\ calls[d].key \in Keys /\ calls[d].key # k
      BY <1>1, <1>5, <2>2 DEF CallsCoherent, OneCallPerKey, Owns
    <3>. QED
      BY <1>4, <1>5, <2>2, <3>1, Undisturbed
  <2>. QED
    BY <2>1, <2>2 DEF CallsCoherent
<1>9. OneCallPerKey'
  BY <1>1, <1>5 DEF OneCallPerKey
<1>10. ReceiptsOnRecord'
  BY <1>4 DEF ReceiptsOnRecord
<1>. QED
  BY <1>3, <1>7, <1>8, <1>9, <1>10

(* Completing records an honest outcome and leaves the key without a call.   *)
LEMMA CompleteStep ==
  ASSUME IInv, NEW c \in Callers, Complete(c)
  PROVE  /\ KeysCoherent' /\ CallsCoherent' /\ OneCallPerKey' /\ ReceiptsOnRecord'
         /\ Owns(c) /\ calls[c].phase = "receipt"
         /\ keys' = [keys EXCEPT ![calls[c].key] =
                       [state |-> "COMPLETED", action |-> calls[c].action, outcome |-> calls[c].outcome]]
         /\ UNCHANGED effects
<1> USE DEF IInv
<1> DEFINE k == calls[c].key
           row == [state |-> "COMPLETED", action |-> calls[c].action, outcome |-> calls[c].outcome]
           t0 == [key |-> k, action |-> calls[c].action, outcome |-> calls[c].outcome]
<1>0. calls \in [Callers -> CallState] /\ calls[c] \in CallState
  BY DEF TypeOK
<1>1. calls[c].phase = "receipt" /\ Owns(c)
  BY DEF Complete, Move, CallsCoherent
<1>2. /\ k \in Keys /\ keys[k].state = "CLAIMED" /\ keys[k].action = calls[c].action
      /\ calls[c].outcome \in Outcomes /\ Promise!Honest(calls[c].outcome, Len(effects[k]))
  BY <1>1 DEF Owns, Holds
<1>3. keys' = [keys EXCEPT ![k] = row] /\ told' = told \cup {t0} /\ effects' = effects
  BY <1>1 DEF Complete, Owns, ReceiptOf
<1>4. keys'[k] = row /\ \A j \in Keys \ {k} : keys'[j] = keys[j]
  BY <1>2, <1>3 DEF TypeOK
<1>5. /\ calls'[c].phase = "idle"
      /\ \A d \in Callers \ {c} : calls'[d] = calls[d]
  BY <1>0 DEF Complete, Move, Idle
<1>6. calls[c].action \in Actions
  BY <1>0, <1>2 DEF KeysCoherent, CallState
<1>7. KeysCoherent'
  <2>1. \A j \in Keys \ {k} : keys'[j] = keys[j] /\ effects'[j] = effects[j]
    BY <1>3, <1>4
  <2>2. calls[c].outcome # "NONE" /\ calls[c].action # NoAction
    BY <1>2, <1>6, ConstantsOK DEF Outcomes
  <2>3. \A i \in DOMAIN effects'[k] : effects'[k][i].action = calls[c].action
    BY <1>2, <1>3 DEF KeysCoherent
  <2>. QED
    BY <1>2, <1>3, <1>4, <2>1, <2>2, <2>3 DEF KeysCoherent, Promise!Honest
<1>8. CallsCoherent'
  <2> SUFFICES ASSUME NEW d \in Callers, calls'[d].phase # "idle"
               PROVE  Owns(d)'
    BY DEF CallsCoherent
  <2>1. d # c /\ calls'[d] = calls[d]
    BY <1>5
  <2>2. Owns(d) /\ calls[d].key \in Keys /\ calls[d].key # k
    BY <1>1, <2>1 DEF CallsCoherent, OneCallPerKey, Owns
  <2>. QED
    BY <1>3, <1>4, <2>1, <2>2, Undisturbed
<1>9. OneCallPerKey'
  BY <1>5 DEF OneCallPerKey
<1>10. ReceiptsOnRecord'
  <2> SUFFICES ASSUME NEW t \in told'
               PROVE  /\ t \in [key : Keys, action : Actions, outcome : Outcomes]
                      /\ keys'[t.key] = [state |-> "COMPLETED", action |-> t.action, outcome |-> t.outcome]
    BY DEF ReceiptsOnRecord
  <2>1. CASE t = t0
    BY <1>2, <1>4, <1>6, <2>1
  <2>2. CASE t \in told
    <3>1. /\ t \in [key : Keys, action : Actions, outcome : Outcomes]
          /\ keys[t.key] = [state |-> "COMPLETED", action |-> t.action, outcome |-> t.outcome]
      BY <2>2 DEF ReceiptsOnRecord
    <3>2. t.key \in Keys /\ t.key # k
      BY <1>2, <3>1
    <3>. QED
      BY <1>4, <3>1, <3>2
  <2>. QED
    BY <1>3, <2>1, <2>2
<1>. QED
  BY <1>1, <1>3, <1>7, <1>8, <1>9, <1>10

(* A lost call leaves its key claimed, and nobody on it.                     *)
LEMMA AbortStep ==
  ASSUME IInv, NEW c \in Callers, Abort(c)
  PROVE  KeysCoherent' /\ CallsCoherent' /\ OneCallPerKey' /\ ReceiptsOnRecord'
<1> USE DEF IInv
<1>1. /\ calls'[c].phase = "idle"
      /\ \A d \in Callers \ {c} : calls'[d] = calls[d]
      /\ UNCHANGED <<keys, effects, told>>
  BY DEF TypeOK, Abort, Idle
<1>2. KeysCoherent'
  BY <1>1 DEF KeysCoherent, Promise!Honest
<1>3. CallsCoherent'
  <2> SUFFICES ASSUME NEW d \in Callers, calls'[d].phase # "idle"
               PROVE  Owns(d)'
    BY DEF CallsCoherent
  <2>. QED
    BY <1>1, Undisturbed DEF CallsCoherent
<1>4. OneCallPerKey'
  BY <1>1 DEF OneCallPerKey
<1>5. ReceiptsOnRecord'
  BY <1>1 DEF ReceiptsOnRecord
<1>. QED
  BY <1>2, <1>3, <1>4, <1>5

(* A replay tells the receipt that is on record.                             *)
LEMMA RefuseStep ==
  ASSUME IInv, NEW c \in Callers, NEW k \in Keys, NEW a \in Actions, Refuse(c, k, a)
  PROVE  KeysCoherent' /\ CallsCoherent' /\ OneCallPerKey' /\ ReceiptsOnRecord'
<1> USE DEF IInv
<1> DEFINE t0 == [key |-> k, action |-> a, outcome |-> keys[k].outcome]
<1>1. UNCHANGED <<keys, calls, effects>>
  BY DEF Refuse
<1>2. KeysCoherent' /\ OneCallPerKey'
  BY <1>1 DEF KeysCoherent, OneCallPerKey, Promise!Honest
<1>3. CallsCoherent'
  BY <1>1 DEF CallsCoherent, Owns, Holds, Promise!Honest
<1>4. ReceiptsOnRecord'
  <2>1. CASE ClaimAnswer(k, a) # "REPLAY"
    BY <1>1, <2>1 DEF Refuse, ReceiptsOnRecord
  <2>2. CASE ClaimAnswer(k, a) = "REPLAY"
    <3>1. keys[k].state = "COMPLETED" /\ keys[k].action = a /\ keys[k] \in KeyRow
      BY <2>2 DEF ClaimAnswer, TypeOK
    <3>2. keys[k].outcome \in Outcomes
      BY <3>1 DEF KeysCoherent, KeyRow
    <3>3. keys[k] = [state |-> "COMPLETED", action |-> a, outcome |-> keys[k].outcome]
      BY <3>1 DEF KeyRow
    <3>4. told' = told \cup {t0}
      BY <2>2 DEF Refuse
    <3>5. /\ t0 \in [key : Keys, action : Actions, outcome : Outcomes]
          /\ keys'[t0.key] = [state |-> "COMPLETED", action |-> t0.action, outcome |-> t0.outcome]
      BY <1>1, <3>2, <3>3
    <3>. QED
      BY <1>1, <3>4, <3>5 DEF ReceiptsOnRecord
  <2>. QED
    BY <2>1, <2>2
<1>. QED
  BY <1>2, <1>3, <1>4

(* The authority facts are no part of it.                                    *)
LEMMA FactsStep ==
  ASSUME IInv, UNCHANGED <<keys, calls, effects, told>>
  PROVE  KeysCoherent' /\ CallsCoherent' /\ OneCallPerKey' /\ ReceiptsOnRecord'
  BY DEF IInv, KeysCoherent, CallsCoherent, Owns, Holds, OneCallPerKey, ReceiptsOnRecord, Promise!Honest

-----------------------------------------------------------------------------
(* The initial states satisfy the whole invariant.                           *)
LEMMA InvInit == Init => IInv
<1> SUFFICES ASSUME Init PROVE IInv
  OBVIOUS
<1> USE ConstantsOK DEF Init
<1>1. TypeOK
  <2>1. Idle \in CallState /\ Unused \in KeyRow
    BY DEF Idle, Unused, CallState, KeyRow, Phases
  <2>2. /\ approvals \in Seq({"APPROVED", "DENIED"})
        /\ effects \in [Keys -> Seq([action : Actions, approval : Nat])]
    OBVIOUS
  <2>. QED
    BY <2>1, <2>2 DEF TypeOK
<1>2. KeysCoherent
  BY DEF KeysCoherent, Unused
<1>3. CallsCoherent /\ OneCallPerKey /\ ReceiptsOnRecord
  BY DEF CallsCoherent, OneCallPerKey, ReceiptsOnRecord, Idle
<1>. QED
  BY <1>1, <1>2, <1>3 DEF IInv

(* Every step preserves the whole invariant.                                 *)
LEMMA InvStep == IInv /\ [Next]_vars => IInv'
<1> SUFFICES ASSUME IInv, [Next]_vars PROVE IInv'
  OBVIOUS
<1>1. TypeOK'
  BY TypeStep DEF IInv
<1>2. KeysCoherent' /\ CallsCoherent' /\ OneCallPerKey' /\ ReceiptsOnRecord'
  <2>1. CASE \E c \in Callers, k \in Keys, a \in Actions : Claim(c, k, a) \/ Refuse(c, k, a)
    BY <2>1, ClaimStep, RefuseStep
  <2>2. CASE \E c \in Callers : ReadStatus(c) \/ ReadFreshness(c) \/ Decide(c) \/ ExecutorReturns(c)
    BY <2>2, LocalStep
  <2>3. CASE \E c \in Callers : Effect(c) \/ Complete(c) \/ Abort(c)
    BY <2>3, EffectStep, CompleteStep, AbortStep
  <2>4. CASE \/ \E x \in {"ACTIVE", "INACTIVE", "UNKNOWN"} : SetStatus(x)
             \/ \E f \in {"CURRENT", "STALE"} : SetFreshness(f)
             \/ \E d \in {"APPROVED", "DENIED"} : DecideApproval(d)
    <3>1. UNCHANGED <<keys, calls, effects, told>>
      BY <2>4 DEF SetStatus, SetFreshness, DecideApproval, Observe
    <3>. QED
      BY <3>1, FactsStep
  <2>5. CASE UNCHANGED vars
    <3>1. UNCHANGED <<keys, calls, effects, told>>
      BY <2>5 DEF vars
    <3>. QED
      BY <3>1, FactsStep
  <2>. QED
    BY <2>1, <2>2, <2>3, <2>4, <2>5 DEF Next
<1>. QED
  BY <1>1, <1>2 DEF IInv

(* The inductive invariant holds in every reachable state.                   *)
THEOREM Invariance == Spec => []IInv
  BY InvInit, InvStep, PTL DEF Spec

(* The tables and every call's local state always have their types.          *)
THEOREM TypeCorrect == Spec => []TypeOK
<1>1. IInv => TypeOK
  BY DEF IInv
<1>. QED
  BY <1>1, Invariance, PTL

(* Whatever callers race, retry or crash, every receipt anyone is told for a *)
(* key is the receipt on record for the action asked for, and agrees with    *)
(* what the executor really did (guarded-action.ts:11-16).                   *)
THEOREM ReceiptsAreTrue == Spec => []ToldTheTruth
<1>1. IInv => ToldTheTruth
  <2> SUFFICES ASSUME IInv, NEW t \in told
               PROVE  /\ \A i \in DOMAIN effects[t.key] : effects[t.key][i].action = t.action
                      /\ t.outcome = "OBSERVED_SUCCEEDED" => Len(effects[t.key]) = 1
                      /\ t.outcome \in {"OBSERVED_FAILED", "DENIED_NOT_EXECUTED"} => effects[t.key] = <<>>
                      /\ \A u \in told : u.key = t.key => u = t
    BY DEF ToldTheTruth
  <2>0. ASSUME NEW u \in told
        PROVE  /\ u \in [key : Keys, action : Actions, outcome : Outcomes]
               /\ keys[u.key].state = "COMPLETED" /\ keys[u.key].action = u.action
               /\ keys[u.key].outcome = u.outcome
    <3>1. /\ u \in [key : Keys, action : Actions, outcome : Outcomes]
          /\ keys[u.key] = [state |-> "COMPLETED", action |-> u.action, outcome |-> u.outcome]
      BY DEF IInv, ReceiptsOnRecord
    <3>. QED
      BY <3>1
  <2>1. /\ t \in [key : Keys, action : Actions, outcome : Outcomes]
        /\ keys[t.key].state = "COMPLETED" /\ keys[t.key].action = t.action
        /\ keys[t.key].outcome = t.outcome
    BY <2>0
  <2>2. effects[t.key] \in Seq([action : Actions, approval : Nat])
    BY <2>1 DEF IInv, TypeOK
  <2>3. Promise!Honest(t.outcome, Len(effects[t.key]))
    BY <2>1 DEF IInv, KeysCoherent
  <2>4. \A i \in DOMAIN effects[t.key] : effects[t.key][i].action = t.action
    BY <2>1 DEF IInv, KeysCoherent
  <2>5. ASSUME NEW u \in told, u.key = t.key
        PROVE  u = t
    <3>1. /\ u \in [key : Keys, action : Actions, outcome : Outcomes]
          /\ keys[u.key].action = u.action /\ keys[u.key].outcome = u.outcome
      BY <2>0
    <3>2. u.key = t.key /\ u.action = t.action /\ u.outcome = t.outcome
      BY <2>1, <2>5, <3>1
    <3>. QED
      BY <2>1, <3>1, <3>2
  <2>. QED
    BY <2>2, <2>3, <2>4, <2>5 DEF Promise!Honest
<1>. QED
  BY <1>1, Invariance, PTL

-----------------------------------------------------------------------------
(* Guarded execution implements the promise of an idempotency key: one       *)
(* owner, at most one effect, one honest outcome (OnceOnly).                 *)
THEOREM Refinement == Spec => ImplementsOnceOnly
<1>1. Init => Promise!Init
  BY DEF Init, Unused, Promise!Init
<1>2. IInv /\ [Next]_vars => [Promise!Next]_(Promise!vars)
  <2> SUFFICES ASSUME IInv, [Next]_vars PROVE [Promise!Next]_(Promise!vars)
    OBVIOUS
  <2> USE DEF IInv
  <2>1. ASSUME UNCHANGED <<keys, effects>>
        PROVE  UNCHANGED Promise!vars
    BY <2>1 DEF Promise!vars
  <2>2. ASSUME NEW c \in Callers, NEW k \in Keys, NEW a \in Actions, Claim(c, k, a)
        PROVE  Promise!Own(k, a)
    <3>1. keys[k].action = NoAction /\ keys[k].outcome = "NONE"
      BY <2>2 DEF Claim, Claimable, KeysCoherent
    <3>2. /\ keys' = [keys EXCEPT ![k] = [state |-> "CLAIMED", action |-> a, outcome |-> "NONE"]]
          /\ effects' = effects
      BY <2>2 DEF Claim
    <3>. QED
      BY <3>1, <3>2 DEF Promise!Own, TypeOK
  <2>3. ASSUME NEW c \in Callers, Effect(c)
        PROVE  \E k \in Keys : Promise!Perform(k)
    <3> DEFINE k == calls[c].key
    <3>1. k \in Keys /\ keys[k].state = "CLAIMED" /\ effects[k] = <<>>
      BY <2>3, EffectStep DEF Effect, CallsCoherent, Owns, Holds
    <3>2. keys[k].action # NoAction /\ keys[k].outcome = "NONE"
      BY <3>1 DEF KeysCoherent
    <3>3. /\ effects' = [effects EXCEPT ![k] = <<[action |-> calls[c].action, approval |-> calls[c].approval]>>]
          /\ keys' = keys
      BY <2>3, <3>1 DEF Effect
    <3>. QED
      BY <3>1, <3>2, <3>3 DEF Promise!Perform, TypeOK
  <2>4. ASSUME NEW c \in Callers, Complete(c)
        PROVE  \E k \in Keys, o \in Promise!Outcomes : Promise!Report(k, o)
    <3> DEFINE k == calls[c].key
    <3>1. /\ k \in Keys /\ keys[k].state = "CLAIMED" /\ keys[k].action = calls[c].action
          /\ calls[c].outcome \in Outcomes /\ Promise!Honest(calls[c].outcome, Len(effects[k]))
          /\ keys' = [keys EXCEPT ![k] =
                        [state |-> "COMPLETED", action |-> calls[c].action, outcome |-> calls[c].outcome]]
          /\ effects' = effects
      BY <2>4, CompleteStep DEF Owns, Holds
    <3>2. keys[k].action # NoAction /\ keys[k].outcome = "NONE"
      BY <3>1 DEF KeysCoherent
    <3>3. calls[c].outcome \in Promise!Outcomes
      BY <3>1 DEF Outcomes, Promise!Outcomes
    <3>. QED
      BY <3>1, <3>2, <3>3 DEF Promise!Report, TypeOK
  <2>5. CASE \E c \in Callers : Effect(c) \/ Complete(c)
    BY <2>3, <2>4, <2>5 DEF Promise!Next
  <2>6. CASE \E c \in Callers, k \in Keys, a \in Actions : Claim(c, k, a)
    BY <2>2, <2>6 DEF Promise!Next
  <2>7. CASE \/ \E c \in Callers :
                  \/ \E k \in Keys, a \in Actions : Refuse(c, k, a)
                  \/ ReadStatus(c) \/ ReadFreshness(c) \/ Decide(c)
                  \/ ExecutorReturns(c) \/ Abort(c)
             \/ \E x \in {"ACTIVE", "INACTIVE", "UNKNOWN"} : SetStatus(x)
             \/ \E f \in {"CURRENT", "STALE"} : SetFreshness(f)
             \/ \E d \in {"APPROVED", "DENIED"} : DecideApproval(d)
             \/ UNCHANGED vars
    <3>1. UNCHANGED <<keys, effects>>
      BY <2>7 DEF Refuse, ReadStatus, ReadFreshness, Decide, ExecutorReturns, Abort,
                  SetStatus, SetFreshness, DecideApproval, Observe, vars
    <3>. QED
      BY <2>1, <3>1
  <2>. QED
    BY <2>5, <2>6, <2>7 DEF Next
<1>. QED
  BY <1>1, <1>2, Invariance, PTL DEF Spec, ImplementsOnceOnly, Promise!Spec

-----------------------------------------------------------------------------
(* Withdrawals.  withdrawn[c] only shrinks after the claim, and loses each   *)
(* fact that a read found to permit the action.                              *)
ReadsObeyed ==
  \A c \in Callers :
    /\ withdrawn[c] \subseteq Forbidding
    /\ calls[c].phase \in {"statusRead", "freshnessRead"} /\ calls[c].status = "ACTIVE" =>
         "status" \notin withdrawn[c]
    /\ calls[c].phase = "freshnessRead" /\ calls[c].freshness = "CURRENT" =>
         "freshness" \notin withdrawn[c]
    /\ calls[c].phase = "executing" => withdrawn[c] = {}

LEMMA ForbiddingFacts ==
  /\ Forbidding \subseteq {"status", "freshness", "approval"}
  /\ "status" \in Forbidding <=> status # "ACTIVE"
  /\ "freshness" \in Forbidding <=> freshness # "CURRENT"
  /\ "approval" \in Forbidding <=> (approvals = <<>> \/ approvals[Len(approvals)] # "APPROVED")
  BY DEF Forbidding

(* The gate opens only on facts that all permit the action.                  *)
LEMMA GateOpens ==
  ASSUME NEW s \in {"ACTIVE", "INACTIVE", "UNKNOWN"}, NEW f \in {"CURRENT", "STALE", "UNKNOWN"}, NEW d,
         Decision(CheckInput(s, f, d), 1) = "AUTHORIZED"
  PROVE  s = "ACTIVE" /\ f = "CURRENT" /\ d = "APPROVED"
<1> DEFINE i == CheckInput(s, f, d)
<1>1. ~Denied(i, 1) /\ ~Unestablished(i, 1)
  BY DEF Decision
<1>2. /\ i.status = s /\ i.freshness = f
      /\ i.approval.required /\ i.approval.decision = d
      /\ i.license.given /\ i.mission.given
  BY DEF CheckInput
<1> HIDE DEF i
<1>3. s = "ACTIVE" /\ f = "CURRENT"
  BY <1>1, <1>2 DEF Denied, Unestablished
<1>4. d # "DENIED"
  BY <1>1, <1>2 DEF Denied, Granted
<1>5. d = "APPROVED"
  BY <1>1, <1>2, <1>4 DEF Unestablished, ApprovalUnestablished
<1>. QED
  BY <1>3, <1>5

LEMMA ReadsObeyedStep == IInv /\ ReadsObeyed /\ [Next]_vars => ReadsObeyed'
<1> SUFFICES ASSUME IInv, ReadsObeyed, [Next]_vars PROVE ReadsObeyed'
  OBVIOUS
<1>0. /\ calls \in [Callers -> CallState] /\ withdrawn \in [Callers -> SUBSET {"status", "freshness", "approval"}]
      /\ status \in {"ACTIVE", "INACTIVE", "UNKNOWN"} /\ freshness \in {"CURRENT", "STALE"}
      /\ approvals \in Seq({"APPROVED", "DENIED"})
  BY DEF IInv, TypeOK
<1>1. CASE UNCHANGED <<calls, status, freshness, approvals, withdrawn>>
  BY <1>1 DEF ReadsObeyed, Forbidding
<1>2. ASSUME NEW c \in Callers, NEW k \in Keys, NEW a \in Actions, Claim(c, k, a)
      PROVE  ReadsObeyed'
  <2>1. /\ Forbidding' = Forbidding
        /\ withdrawn'[c] = Forbidding /\ calls'[c].phase = "claimed"
        /\ \A d \in Callers \ {c} : withdrawn'[d] = withdrawn[d] /\ calls'[d] = calls[d]
    BY <1>0, <1>2 DEF Claim, Move, Idle, Forbidding
  <2>. QED
    BY <2>1 DEF ReadsObeyed
<1>3. ASSUME NEW c \in Callers, UNCHANGED facts, \A d \in Callers \ {c} : calls'[d] = calls[d],
             /\ calls'[c].phase \in {"statusRead", "freshnessRead"} /\ calls'[c].status = "ACTIVE" =>
                  "status" \notin withdrawn[c]
             /\ calls'[c].phase = "freshnessRead" /\ calls'[c].freshness = "CURRENT" =>
                  "freshness" \notin withdrawn[c]
             /\ calls'[c].phase = "executing" => withdrawn[c] = {}
      PROVE  ReadsObeyed'
  <2>1. Forbidding' = Forbidding /\ withdrawn' = withdrawn
    BY <1>3 DEF facts, Forbidding
  <2>. QED
    BY <1>3, <2>1 DEF ReadsObeyed
<1>4. ASSUME NEW c \in Callers, ReadStatus(c)
      PROVE  ReadsObeyed'
  <2>1. /\ calls'[c] = [calls[c] EXCEPT !.phase = "statusRead", !.status = status]
        /\ \A d \in Callers \ {c} : calls'[d] = calls[d]
        /\ UNCHANGED facts
    BY <1>0, <1>4 DEF ReadStatus, Move
  <2>2. calls'[c].phase = "statusRead" /\ calls'[c].status = status
    BY <1>0, <2>1 DEF CallState
  <2>3. status = "ACTIVE" => "status" \notin withdrawn[c]
    BY ForbiddingFacts DEF ReadsObeyed
  <2>. QED
    BY <1>3, <2>1, <2>2, <2>3
<1>5. ASSUME NEW c \in Callers, ReadFreshness(c)
      PROVE  ReadsObeyed'
  <2>1. /\ calls[c].phase = "statusRead"
        /\ calls'[c] = [calls[c] EXCEPT !.phase = "freshnessRead", !.freshness = freshness]
        /\ \A d \in Callers \ {c} : calls'[d] = calls[d]
        /\ UNCHANGED facts
    BY <1>0, <1>5 DEF ReadFreshness, Move
  <2>2. calls'[c].phase = "freshnessRead" /\ calls'[c].freshness = freshness /\ calls'[c].status = calls[c].status
    BY <1>0, <2>1 DEF CallState
  <2>3. /\ freshness = "CURRENT" => "freshness" \notin withdrawn[c]
        /\ calls[c].status = "ACTIVE" => "status" \notin withdrawn[c]
    BY <2>1, ForbiddingFacts DEF ReadsObeyed
  <2>. QED
    BY <1>3, <2>1, <2>2, <2>3
<1>6. ASSUME NEW c \in Callers, Decide(c)
      PROVE  ReadsObeyed'
  <2> DEFINE d == ApprovalDecision(LatestApproval)
             opens == Decision(CheckInput(calls[c].status, calls[c].freshness, d), 1) = "AUTHORIZED"
  <2>1. /\ calls[c].phase = "freshnessRead"
        /\ \A e \in Callers \ {c} : calls'[e] = calls[e]
        /\ UNCHANGED facts
    BY <1>0, <1>6 DEF Decide, Move
  <2>2. \/ opens /\ calls'[c].phase = "executing"
        \/ calls'[c].phase = "receipt"
    <3> DEFINE o == ClosedGateOutcome(Decision(CheckInput(calls[c].status, calls[c].freshness, d), 1))
               x == [calls[c] EXCEPT !.phase = "executing", !.approval = LatestApproval]
               y == [calls[c] EXCEPT !.phase = "receipt", !.outcome = o]
    <3>1. calls'[c] = IF opens THEN x ELSE y
      BY <1>0, <1>6 DEF Decide, Move
    <3>2. x.phase = "executing" /\ y.phase = "receipt"
      BY <1>0 DEF CallState
    <3> HIDE DEF x, y, opens
    <3>. QED
      BY <3>1, <3>2
  <2>3. opens => withdrawn[c] = {}
    <3> SUFFICES ASSUME opens PROVE withdrawn[c] = {}
      OBVIOUS
    <3>1. /\ calls[c].status \in {"ACTIVE", "INACTIVE", "UNKNOWN"}
          /\ calls[c].freshness \in {"CURRENT", "STALE", "UNKNOWN"}
      BY <1>0 DEF CallState
    <3>2. calls[c].status = "ACTIVE" /\ calls[c].freshness = "CURRENT" /\ d = "APPROVED"
      BY <3>1, GateOpens
    <3>3. "status" \notin withdrawn[c] /\ "freshness" \notin withdrawn[c]
      BY <2>1, <3>2 DEF ReadsObeyed
    <3>4. "approval" \notin Forbidding
      BY <1>0, <3>2, ForbiddingFacts DEF ApprovalDecision, LatestApproval
    <3>. QED
      BY <3>3, <3>4, ForbiddingFacts DEF ReadsObeyed
  <2> HIDE DEF opens
  <2>. QED
    BY <1>3, <2>1, <2>2, <2>3
<1>7. ASSUME NEW c \in Callers, Effect(c) \/ ExecutorReturns(c) \/ Complete(c) \/ Abort(c)
      PROVE  ReadsObeyed'
  <2>1. /\ \A d \in Callers \ {c} : calls'[d] = calls[d]
        /\ UNCHANGED facts
    BY <1>0, <1>7 DEF Effect, ExecutorReturns, Complete, Abort, Move
  <2>2. \/ calls'[c].phase \in {"idle", "receipt"}
        \/ calls[c].phase = "executing" /\ calls'[c].phase = "executing"
    <3>1. CASE Effect(c)
      BY <1>0, <3>1 DEF Effect, CallState
    <3>2. CASE ExecutorReturns(c)
      BY <1>0, <3>2 DEF ExecutorReturns, Move, CallState
    <3>3. CASE Complete(c) \/ Abort(c)
      BY <1>0, <3>3 DEF Complete, Abort, Move, Idle
    <3>. QED
      BY <1>7, <3>1, <3>2, <3>3
  <2>3. calls[c].phase = "executing" => withdrawn[c] = {}
    BY DEF ReadsObeyed
  <2>. QED
    BY <1>3, <2>1, <2>2, <2>3
<1>8. CASE \E c \in Callers, k \in Keys, a \in Actions : Refuse(c, k, a)
  BY <1>1, <1>8 DEF Refuse, facts
<1>9. CASE \/ \E s \in {"ACTIVE", "INACTIVE", "UNKNOWN"} : SetStatus(s)
           \/ \E f \in {"CURRENT", "STALE"} : SetFreshness(f)
           \/ \E d \in {"APPROVED", "DENIED"} : DecideApproval(d)
  <2>1. /\ withdrawn' = [c \in Callers |-> withdrawn[c] \cap Forbidding']
        /\ calls' = calls
    BY <1>9 DEF SetStatus, SetFreshness, DecideApproval, Observe
  <2>2. \A c \in Callers : withdrawn'[c] = withdrawn[c] \cap Forbidding'
    BY <2>1
  <2>. QED
    BY <2>1, <2>2 DEF ReadsObeyed
<1>10. CASE UNCHANGED vars
  BY <1>1, <1>10 DEF vars
<1>. QED
  BY <1>2, <1>4, <1>5, <1>6, <1>7, <1>8, <1>9, <1>10 DEF Next

(* No call reaches the executor while a fact that had not permitted the      *)
(* action since its claim still does not (authority-store.ts:13-15).         *)
THEOREM WithdrawalsHold == Spec => []WithdrawalHolds
<1>1. Init => ReadsObeyed
  BY DEF Init, Idle, ReadsObeyed
<1>2. ReadsObeyed => WithdrawalHolds
  BY DEF ReadsObeyed, WithdrawalHolds
<1>. QED
  BY <1>1, <1>2, ReadsObeyedStep, Invariance, PTL DEF Spec
=============================================================================
