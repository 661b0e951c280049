----------------------- MODULE WebhookDeliveryProofs -----------------------
(***************************************************************************)
(* For any number of rows, workers, requeues and crashes, and any receivers: *)
(* the lease protocol of the webhook workers keeps its types, loses a lease  *)
(* only to time, counts attempts from a current copy, settles rows only on   *)
(* evidence, and implements WebhookOutbox.                                   *)
(*                                                                           *)
(* The properties lean on one another: a finish is harmless to the other     *)
(* workers because no two of them hold the same token, a requeue because a   *)
(* settled row is not leased, a claim because it takes only lapsed leases.   *)
(***************************************************************************)
EXTENDS WebhookDelivery, TLAPS

(* A worker without a claim is idle; one with a claim has a row of its batch *)
(* in hand, or none.                                                         *)
JobsCoherent ==
  \A w \in Workers :
    /\ job[w].token = NoToken => job[w] = Idle
    /\ job[w].current \in job[w].rows \cup {NoRow}

TokensUnique ==
  \A v, w \in Workers : v # w /\ job[v].token = job[w].token => job[v].token = NoToken

OnlyOpenRowsLeased ==
  \A r \in Rows : outbox[r].lease_token # NoToken => outbox[r].status \in {"PENDING", "FAILED"}

SuccessInHandIsReal ==
  \A w \in Workers :
    job[w].current # NoRow /\ Accepted(job[w].result) => job[w].current \in acknowledged

Protocol ==
  /\ JobsCoherent
  /\ TokensUnique
  /\ OnlyOpenRowsLeased
  /\ SuccessInHandIsReal
  /\ LeaseLostOnlyByExpiry
  /\ ClaimedCountIsCurrent
  /\ OutcomeBacked

IInv == TypeOK /\ Protocol

USE ConstantsOK

-----------------------------------------------------------------------------
(* What the types say of one row or one worker.                              *)
LEMMA Shapes ==
  ASSUME TypeOK
  PROVE  /\ \A r \in Rows : outbox[r] \in OutboxRow /\ attempts[r] \in SUBSET Attempt
         /\ \A w \in Workers : job[w] \in Job
  BY DEF TypeOK

(* An idle worker is typed.                                                  *)
LEMMA IdleIsJob == Idle \in Job
  BY DEF Idle, Job, NoCounts, Results, NoResponse

(* Every outcome is one of the three verdicts.                               *)
LEMMA DecisionType ==
  ASSUME NEW n, NEW x
  PROVE  Decision(n, x) \in {"DELIVERED", "DEAD", "FAILED"}
  BY DEF Decision

(* Appending keeps a sequence over its set.                                  *)
LEMMA AppendType ==
  ASSUME NEW S, NEW q \in Seq(S), NEW e \in S
  PROVE  Append(q, e) \in Seq(S)
  OBVIOUS

(* The row a finish writes, and the worker's state after it.                 *)
LEMMA FinishedType ==
  ASSUME TypeOK, NEW r \in Rows, NEW n \in Nat, NEW x
  PROVE  /\ FinishedRow(r, n, x) \in OutboxRow
         /\ FinishedRow(r, n, x).status = Decision(n, x)
         /\ FinishedRow(r, n, x).lease_token = NoToken
<1>1. outbox[r] \in OutboxRow
  BY Shapes
<1>2. Decision(n, x) \in {"DELIVERED", "DEAD", "FAILED"}
  BY DecisionType
<1>. QED
  BY <1>1, <1>2 DEF FinishedRow, OutboxRow

(* The worker left after a row is typed.                                     *)
LEMMA NextJobType ==
  ASSUME TypeOK, NEW w \in Workers
  PROVE  NextJob(w) \in Job
<1>1. job[w] \in Job
  BY Shapes
<1>. QED
  BY <1>1, IdleIsJob DEF NextJob, Job, Results, NoResponse

(* Every step keeps the types.                                               *)
LEMMA TypeStep == TypeOK /\ JobsCoherent /\ [Next]_vars => TypeOK'
<1> SUFFICES ASSUME TypeOK, JobsCoherent, [Next]_vars
             PROVE  TypeOK'
  OBVIOUS
<1>1. ASSUME NEW w \in Workers, NEW batch \in SUBSET Rows, NEW t \in Tokens, Claim(w, batch, t)
      PROVE  TypeOK'
  <2>1. \A r \in Rows : [outbox[r] EXCEPT !.lease_token = t] \in OutboxRow
    BY Shapes DEF OutboxRow
  <2>2. outbox' \in [Rows -> OutboxRow]
    BY <1>1, <2>1, Shapes DEF Claim
  <2>3. [r \in Rows |-> IF r \in batch THEN outbox[r].attempt_count ELSE 0] \in [Rows -> Nat]
    BY Shapes DEF OutboxRow
  <2>4. [Idle EXCEPT !.token = t, !.rows = batch,
           !.counts = [r \in Rows |-> IF r \in batch THEN outbox[r].attempt_count ELSE 0]] \in Job
    BY <2>3, IdleIsJob DEF Job
  <2>5. job' \in [Workers -> Job]
    BY <1>1, <2>4 DEF Claim, TypeOK
  <2>. QED
    BY <1>1, <2>2, <2>5 DEF Claim, TypeOK
<1>2. ASSUME NEW w \in Workers, NEW r \in Rows, NEW answer \in Results, NEW x \in Results,
             Deliver(w, r, answer, x)
      PROVE  TypeOK'
  <2>1. [job[w] EXCEPT !.current = r, !.result = x] \in Job
    BY Shapes DEF Job
  <2>2. job' \in [Workers -> Job]
    BY <1>2, <2>1 DEF Deliver, TypeOK
  <2>. QED
    BY <1>2, <2>2 DEF Deliver, TypeOK
<1>3. ASSUME NEW w \in Workers, FinishRecorded(w)
      PROVE  TypeOK'
  <2> DEFINE r == job[w].current
             n == AttemptOf(w)
             x == job[w].result
  <2>1. r \in Rows /\ x \in Results /\ n \in Nat \ {0}
    BY <1>3, Shapes DEF FinishRecorded, AttemptOf, Job
  <2>2. outbox' \in [Rows -> OutboxRow]
    BY <1>3, <2>1, FinishedType DEF FinishRecorded, TypeOK
  <2>3. [attempt_number |-> n, response_status |-> x] \in Attempt
    BY <2>1 DEF Attempt
  <2>4. attempts' \in [Rows -> SUBSET Attempt]
    BY <1>3, <2>1, <2>3 DEF FinishRecorded, TypeOK
  <2>5. Append(deadLetters[r], "DEAD") \in Seq({"DEAD", "REQUEUED"})
    BY <2>1, AppendType DEF TypeOK
  <2>6. deadLetters' \in [Rows -> Seq({"DEAD", "REQUEUED"})]
    BY <1>3, <2>1, <2>5 DEF FinishRecorded, TypeOK
  <2>7. job' \in [Workers -> Job]
    BY <1>3, NextJobType DEF FinishRecorded, TypeOK
  <2>. QED
    BY <1>3, <2>2, <2>4, <2>6, <2>7 DEF FinishRecorded, TypeOK
<1>4. ASSUME NEW w \in Workers, FinishThrows(w) \/ Crash(w)
      PROVE  TypeOK'
  <2>1. job' \in [Workers -> Job]
    BY <1>4, IdleIsJob DEF FinishThrows, Crash, TypeOK
  <2>2. crashes' \in 0..MaxCrashes
    BY <1>4 DEF FinishThrows, Crash, TypeOK
  <2>. QED
    BY <1>4, <2>1, <2>2 DEF FinishThrows, Crash, TypeOK
<1>5. ASSUME NEW r \in Rows, Requeue(r)
      PROVE  TypeOK'
  <2>1. [status |-> "PENDING", attempt_count |-> 0, requeue_count |-> outbox[r].requeue_count + 1,
         lease_token |-> NoToken, due |-> TRUE] \in OutboxRow
    BY Shapes DEF OutboxRow
  <2>2. outbox' \in [Rows -> OutboxRow]
    BY <1>5, <2>1 DEF Requeue, TypeOK
  <2>3. Append(deadLetters[r], "REQUEUED") \in Seq({"DEAD", "REQUEUED"})
    BY AppendType DEF TypeOK
  <2>4. deadLetters' \in [Rows -> Seq({"DEAD", "REQUEUED"})]
    BY <1>5, <2>3 DEF Requeue, TypeOK
  <2>. QED
    BY <1>5, <2>2, <2>4 DEF Requeue, TypeOK
<1>6. ASSUME NEW r \in Rows, BecomesDue(r)
      PROVE  TypeOK'
  <2>1. [outbox[r] EXCEPT !.due = TRUE] \in OutboxRow
    BY Shapes DEF OutboxRow
  <2>. QED
    BY <1>6, <2>1 DEF BecomesDue, TypeOK
<1>7. ASSUME NEW t \in Tokens, LeaseLapses(t)
      PROVE  TypeOK'
  BY <1>7 DEF LeaseLapses, TypeOK
<1>8. CASE UNCHANGED vars
  BY <1>8 DEF vars, TypeOK
<1>. QED
  BY <1>1, <1>2, <1>3, <1>4, <1>5, <1>6, <1>7, <1>8 DEF Next

-----------------------------------------------------------------------------
(* A lease changes only the token of a row.                                  *)
LEMMA LeasedRow ==
  ASSUME NEW row \in OutboxRow, NEW t
  PROVE  /\ [row EXCEPT !.lease_token = t].status = row.status
         /\ [row EXCEPT !.lease_token = t].attempt_count = row.attempt_count
         /\ [row EXCEPT !.lease_token = t].lease_token = t
  BY DEF OutboxRow

(* A claim takes free or lapsed rows under a token nobody has.               *)
LEMMA ClaimStep ==
  ASSUME IInv, NEW w \in Workers, NEW batch \in SUBSET Rows, NEW t \in Tokens, Claim(w, batch, t)
  PROVE  Protocol'
<1> USE DEF IInv, Protocol
<1>1. /\ job[w].token = NoToken /\ t # NoToken
      /\ \A r \in Rows : outbox[r].lease_token # t
      /\ \A v \in Workers : job[v].token # t
  BY DEF Claim, FreshTokens, TokensInUse
<1>2. /\ job'[w].token = t /\ job'[w].rows = batch /\ job'[w].current = NoRow
      /\ \A r \in batch : job'[w].counts[r] = outbox[r].attempt_count
      /\ \A v \in Workers \ {w} : job'[v] = job[v]
  BY DEF Claim, TypeOK, Idle
<1>3. /\ \A r \in Rows : r \in batch => outbox'[r] = [outbox[r] EXCEPT !.lease_token = t]
      /\ \A r \in Rows : r \notin batch => outbox'[r] = outbox[r]
      /\ \A r \in Rows : r \in batch => Claimable(r)
      /\ UNCHANGED <<attempts, acknowledged>>
  BY DEF Claim
<1>4. \A r \in Rows : /\ outbox'[r].status = outbox[r].status
                      /\ outbox'[r].attempt_count = outbox[r].attempt_count
                      /\ (r \in batch => outbox'[r].lease_token = t)
                      /\ (r \notin batch => outbox'[r].lease_token = outbox[r].lease_token)
  <2> SUFFICES ASSUME NEW r \in Rows
               PROVE  /\ outbox'[r].status = outbox[r].status
                      /\ outbox'[r].attempt_count = outbox[r].attempt_count
                      /\ r \in batch => outbox'[r].lease_token = t
                      /\ r \notin batch => outbox'[r].lease_token = outbox[r].lease_token
    OBVIOUS
  <2>1. outbox[r] \in OutboxRow
    BY Shapes
  <2>2. CASE r \in batch
    <3>1. outbox'[r] = [outbox[r] EXCEPT !.lease_token = t]
      BY <1>3, <2>2
    <3>2. /\ outbox'[r].status = outbox[r].status
          /\ outbox'[r].attempt_count = outbox[r].attempt_count
          /\ outbox'[r].lease_token = t
      <4> HIDE DEF IInv, Protocol
      <4>. QED
        BY <2>1, <3>1, LeasedRow
    <3>. QED
      BY <2>2, <3>2
  <2>3. CASE r \notin batch
    BY <1>3, <2>3
  <2>. QED
    BY <2>2, <2>3
<1>5. \A r \in Rows : r \in batch => /\ outbox[r].status \in {"PENDING", "FAILED"}
                                     /\ outbox[r].lease_token = NoToken \/ outbox[r].lease_token \in lapsed
  BY <1>3 DEF Claimable
<1>6. \A v \in Workers \ {w} : job[v].token \in lapsed => job[v].token \in lapsed'
  BY <1>1, Shapes DEF Claim, TokensInUse, TypeOK
<1>7. \A v \in Workers \ {w} : \A r \in job[v].rows : r \in Rows /\ job[v].token # NoToken
  BY Shapes DEF JobsCoherent, Job, Idle
<1>8. JobsCoherent'
  BY <1>1, <1>2 DEF JobsCoherent
<1>9. TokensUnique'
  BY <1>1, <1>2 DEF TokensUnique
<1>10. OnlyOpenRowsLeased'
  BY <1>4, <1>5 DEF OnlyOpenRowsLeased
<1>11. SuccessInHandIsReal'
  BY <1>2, <1>3 DEF SuccessInHandIsReal
<1>12. LeaseLostOnlyByExpiry'
  <2>1. \A r \in batch : outbox'[r].lease_token = job'[w].token
    BY <1>2, <1>4
  <2>2. ASSUME NEW v \in Workers \ {w}, NEW r \in job[v].rows
        PROVE  outbox'[r].lease_token = job[v].token \/ job[v].token \in lapsed'
    <3>1. outbox[r].lease_token = job[v].token \/ job[v].token \in lapsed
      BY DEF LeaseLostOnlyByExpiry, HoldsLease
    <3>2. CASE r \in batch
      BY <1>5, <1>6, <1>7, <3>1, <3>2
    <3>3. CASE r \notin batch
      BY <1>4, <1>6, <1>7, <3>1, <3>3
    <3>. QED
      BY <3>2, <3>3
  <2>. QED
    BY <1>2, <2>1, <2>2 DEF LeaseLostOnlyByExpiry, HoldsLease
<1>13. ClaimedCountIsCurrent'
  <2>1. \A r \in batch : job'[w].counts[r] = outbox'[r].attempt_count
    BY <1>2, <1>4
  <2>2. ASSUME NEW v \in Workers \ {w}, NEW r \in job[v].rows, outbox'[r].lease_token = job[v].token
        PROVE  job[v].counts[r] = outbox'[r].attempt_count
    BY <1>1, <1>4, <1>7, <2>2 DEF ClaimedCountIsCurrent
  <2>. QED
    BY <1>2, <2>1, <2>2 DEF ClaimedCountIsCurrent
<1>14. OutcomeBacked'
  BY <1>3, <1>4 DEF OutcomeBacked
<1>. QED
  BY <1>8, <1>9, <1>10, <1>11, <1>12, <1>13, <1>14

(* A delivery changes only the worker and what the receiver knows.           *)
LEMMA DeliverStep ==
  ASSUME IInv, NEW w \in Workers, NEW r \in Rows, NEW answer \in Results, NEW x \in Results,
         Deliver(w, r, answer, x)
  PROVE  Protocol'
<1> USE DEF IInv, Protocol
<1>1. /\ job'[w].token = job[w].token /\ job'[w].rows = job[w].rows
      /\ job'[w].counts = job[w].counts
      /\ job'[w].current = r /\ job'[w].result = x /\ r \in job[w].rows
      /\ \A v \in Workers \ {w} : job'[v] = job[v]
      /\ UNCHANGED <<outbox, attempts, lapsed>>
  BY Shapes DEF Deliver, TypeOK, Job
<1>2. job[w].token # NoToken
  BY <1>1 DEF JobsCoherent, Idle
<1>3. acknowledged \subseteq acknowledged' /\ (Accepted(x) => r \in acknowledged')
  BY DEF Deliver, Accepted, NoResponse
<1>4. JobsCoherent' /\ TokensUnique'
  BY <1>1, <1>2 DEF JobsCoherent, TokensUnique
<1>5. OnlyOpenRowsLeased'
  BY <1>1 DEF OnlyOpenRowsLeased
<1>6. SuccessInHandIsReal'
  BY <1>1, <1>3 DEF SuccessInHandIsReal
<1>7. LeaseLostOnlyByExpiry'
  BY <1>1 DEF LeaseLostOnlyByExpiry, HoldsLease
<1>8. ClaimedCountIsCurrent'
  BY <1>1 DEF ClaimedCountIsCurrent
<1>9. OutcomeBacked'
  BY <1>1, <1>3 DEF OutcomeBacked
<1>. QED
  BY <1>4, <1>5, <1>6, <1>7, <1>8, <1>9

(* A worker that drops its claim, whole or in part, harms nobody.            *)
LEMMA Dropped ==
  ASSUME TypeOK, JobsCoherent, TokensUnique, SuccessInHandIsReal, NEW w \in Workers,
         \/ job'[w] = Idle
         \/ /\ job'[w].token = job[w].token /\ job[w].token # NoToken
            /\ job'[w].current = NoRow,
         \A v \in Workers \ {w} : job'[v] = job[v],
         UNCHANGED acknowledged
  PROVE  JobsCoherent' /\ TokensUnique' /\ SuccessInHandIsReal'
<1>1. Idle.token = NoToken /\ Idle.current = NoRow
  BY DEF Idle
<1>2. Idle' = Idle
  BY DEF Idle, NoCounts, NoResponse
<1>3. JobsCoherent'
  BY <1>1, <1>2 DEF JobsCoherent
<1>4. TokensUnique'
  BY <1>1 DEF TokensUnique
<1>5. SuccessInHandIsReal'
  BY <1>1 DEF SuccessInHandIsReal
<1>. QED
  BY <1>3, <1>4, <1>5

(* Losing a claim to an exception or a crash touches no row.                 *)
LEMMA ThrowsOrCrashStep ==
  ASSUME IInv, NEW w \in Workers, FinishThrows(w) \/ Crash(w)
  PROVE  Protocol'
<1> USE DEF IInv, Protocol
<1>1. /\ job'[w] = Idle /\ \A v \in Workers \ {w} : job'[v] = job[v]
      /\ UNCHANGED <<outbox, attempts, lapsed, acknowledged>>
  BY DEF FinishThrows, Crash, TypeOK
<1>2. Idle.rows = {}
  BY DEF Idle
<1>3. JobsCoherent' /\ TokensUnique' /\ SuccessInHandIsReal'
  BY <1>1, Dropped
<1>4. LeaseLostOnlyByExpiry'
  BY <1>1, <1>2 DEF LeaseLostOnlyByExpiry, HoldsLease
<1>5. ClaimedCountIsCurrent'
  BY <1>1, <1>2 DEF ClaimedCountIsCurrent
<1>6. OnlyOpenRowsLeased' /\ OutcomeBacked'
  BY <1>1 DEF OnlyOpenRowsLeased, OutcomeBacked
<1>. QED
  BY <1>3, <1>4, <1>5, <1>6

(* What the policy's verdicts rest on.                                       *)
LEMMA DecisionMeans ==
  ASSUME NEW n, NEW x
  PROVE  /\ Decision(n, x) = "DELIVERED" => Accepted(x)
         /\ Decision(n, x) = "DEAD" => /\ ~Accepted(x)
                                       /\ n >= MaxAttempts \/ x \in 400..499 \ Transient
  BY DEF Decision

(* The worker after a row: idle, or the same claim without that row.         *)
LEMMA NextJobFields ==
  ASSUME TypeOK, NEW w \in Workers
  PROVE  \/ NextJob(w) = Idle
         \/ /\ NextJob(w).token = job[w].token /\ NextJob(w).counts = job[w].counts
            /\ NextJob(w).rows = job[w].rows \ {job[w].current}
            /\ NextJob(w).current = NoRow
<1>1. job[w] \in Job
  BY Shapes
<1>. QED
  BY <1>1 DEF NextJob, Job

(* A recorded outcome releases the row; whoever else still lists it holds a  *)
(* lapsed token, because no other worker has the token that just matched.    *)
LEMMA FinishStep ==
  ASSUME IInv, NEW w \in Workers, FinishRecorded(w)
  PROVE  Protocol'
<1> USE DEF IInv, Protocol
<1> DEFINE r == job[w].current
           n == AttemptOf(w)
           x == job[w].result
<1>1. r \in Rows /\ r \in job[w].rows /\ n \in Nat /\ r # NoRow
  BY Shapes DEF FinishRecorded, AttemptOf, Job, JobsCoherent
<1>2. outbox[r].lease_token = job[w].token /\ job[w].token # NoToken
  BY <1>1 DEF FinishRecorded, HoldsLease, JobsCoherent, Idle
<1>3. /\ outbox'[r] = FinishedRow(r, n, x)
      /\ \A q \in Rows \ {r} : outbox'[q] = outbox[q] /\ attempts'[q] = attempts[q]
      /\ attempts'[r] = attempts[r] \cup {[attempt_number |-> n, response_status |-> x]}
      /\ UNCHANGED <<lapsed, acknowledged>>
  BY <1>1 DEF FinishRecorded, TypeOK
<1>4. outbox'[r].status = Decision(n, x) /\ outbox'[r].lease_token = NoToken
  BY <1>1, <1>3, FinishedType
<1>5. job'[w] = NextJob(w) /\ \A v \in Workers \ {w} : job'[v] = job[v]
  BY DEF FinishRecorded, TypeOK
<1>6. \/ job'[w] = Idle
      \/ /\ job'[w].token = job[w].token /\ job'[w].counts = job[w].counts
         /\ job'[w].rows = job[w].rows \ {r}
         /\ job'[w].current = NoRow
  BY <1>5, NextJobFields
<1>7. Idle.rows = {} /\ Idle.token = NoToken
  BY DEF Idle
<1>8. \A v \in Workers : \A q \in job'[v].rows : /\ q \in Rows /\ q \in job[v].rows
                                                 /\ (v = w => q # r)
                                                 /\ job'[v].token = job[v].token
                                                 /\ job'[v].counts = job[v].counts
  BY <1>5, <1>6, <1>7, Shapes DEF Job
<1>9. \A v \in Workers \ {w} : \A q \in job[v].rows : job[v].token # NoToken
  BY <1>7 DEF JobsCoherent
<1>10. \A v \in Workers : \A q \in job'[v].rows : job'[v].token # NoToken
  BY <1>2, <1>8, <1>9
<1>11. JobsCoherent' /\ TokensUnique' /\ SuccessInHandIsReal'
  BY <1>2, <1>3, <1>5, <1>6, Dropped
<1>12. OnlyOpenRowsLeased'
  BY <1>3, <1>4 DEF OnlyOpenRowsLeased
<1>13. LeaseLostOnlyByExpiry'
  <2> SUFFICES ASSUME NEW v \in Workers, NEW q \in job'[v].rows
               PROVE  outbox'[q].lease_token = job'[v].token \/ job'[v].token \in lapsed'
    BY DEF LeaseLostOnlyByExpiry, HoldsLease
  <2>1. /\ q \in Rows /\ q \in job[v].rows /\ job'[v].token = job[v].token
        /\ outbox[q].lease_token = job[v].token \/ job[v].token \in lapsed
    BY <1>8 DEF LeaseLostOnlyByExpiry, HoldsLease
  <2>2. CASE q # r
    BY <1>3, <2>1, <2>2
  <2>3. CASE q = r
    <3>1. v # w
      BY <1>8, <2>3
    <3>2. job[v].token # job[w].token
      BY <1>2, <3>1 DEF TokensUnique
    <3>. QED
      BY <1>2, <1>3, <2>1, <2>3, <3>2
  <2>. QED
    BY <2>2, <2>3
<1>14. ClaimedCountIsCurrent'
  <2> SUFFICES ASSUME NEW v \in Workers, NEW q \in job'[v].rows, outbox'[q].lease_token = job'[v].token
               PROVE  job'[v].counts[q] = outbox'[q].attempt_count
    BY DEF ClaimedCountIsCurrent
  <2>1. q # r
    BY <1>4, <1>10
  <2>. QED
    BY <1>3, <1>8, <2>1 DEF ClaimedCountIsCurrent
<1>15. OutcomeBacked'
  <2>1. [attempt_number |-> n, response_status |-> x] \in attempts'[r]
    BY <1>3
  <2>2. outbox'[r].status = "DELIVERED" => r \in acknowledged' /\ Accepted(x)
    BY <1>1, <1>3, <1>4, DecisionMeans DEF SuccessInHandIsReal
  <2>3. outbox'[r].status = "DEAD" => ~Accepted(x) /\ (n >= MaxAttempts \/ x \in 400..499 \ Transient)
    BY <1>4, DecisionMeans
  <2>4. /\ outbox'[r].status = "DELIVERED" =>
             r \in acknowledged' /\ \E a \in attempts'[r] : Accepted(a.response_status)
        /\ outbox'[r].status = "DEAD" =>
             \E a \in attempts'[r] : /\ ~Accepted(a.response_status)
                                     /\ \/ a.attempt_number >= MaxAttempts
                                        \/ a.response_status \in 400..499 \ Transient
    BY <2>1, <2>2, <2>3
  <2>. QED
    BY <1>3, <2>4 DEF OutcomeBacked
<1>. QED
  BY <1>11, <1>12, <1>13, <1>14, <1>15

(* An operator takes back a settled row, which nobody leases: whoever still  *)
(* lists it holds a lapsed token already.                                    *)
LEMMA RequeueStep ==
  ASSUME IInv, NEW r \in Rows, Requeue(r)
  PROVE  Protocol'
<1> USE DEF IInv, Protocol
<1>1. /\ outbox[r].status = "DEAD"
      /\ outbox'[r].status = "PENDING" /\ outbox'[r].lease_token = NoToken
      /\ \A q \in Rows \ {r} : outbox'[q] = outbox[q]
      /\ UNCHANGED <<attempts, lapsed, job, acknowledged>>
  BY DEF Requeue, Requeueable, TypeOK
<1>2. outbox[r].lease_token = NoToken
  BY <1>1 DEF OnlyOpenRowsLeased
<1>3. \A v \in Workers : \A q \in job[v].rows : q \in Rows /\ job[v].token # NoToken
  BY Shapes DEF JobsCoherent, Job, Idle
<1>4. JobsCoherent' /\ TokensUnique' /\ SuccessInHandIsReal'
  BY <1>1 DEF JobsCoherent, TokensUnique, SuccessInHandIsReal, Idle, NoCounts, NoResponse
<1>5. OnlyOpenRowsLeased' /\ OutcomeBacked'
  BY <1>1 DEF OnlyOpenRowsLeased, OutcomeBacked
<1>6. LeaseLostOnlyByExpiry'
  BY <1>1, <1>2, <1>3 DEF LeaseLostOnlyByExpiry, HoldsLease
<1>7. ClaimedCountIsCurrent'
  BY <1>1, <1>2, <1>3 DEF ClaimedCountIsCurrent
<1>. QED
  BY <1>4, <1>5, <1>6, <1>7

(* The clock only makes rows due and leases lapse.                           *)
LEMMA ClockStep ==
  ASSUME IInv, \/ \E r \in Rows : BecomesDue(r)
               \/ \E t \in Tokens : LeaseLapses(t)
               \/ UNCHANGED vars
  PROVE  Protocol'
<1> USE DEF IInv, Protocol
<1>1. /\ \A q \in Rows : /\ outbox'[q].status = outbox[q].status
                         /\ outbox'[q].lease_token = outbox[q].lease_token
                         /\ outbox'[q].attempt_count = outbox[q].attempt_count
      /\ lapsed \subseteq lapsed'
      /\ UNCHANGED <<attempts, job, acknowledged>>
  <2>1. CASE \E r \in Rows : BecomesDue(r)
    BY <2>1, Shapes DEF BecomesDue, OutboxRow, TypeOK
  <2>2. CASE \E t \in Tokens : LeaseLapses(t)
    BY <2>2 DEF LeaseLapses
  <2>3. CASE UNCHANGED vars
    BY <2>3 DEF vars
  <2>. QED
    BY <2>1, <2>2, <2>3
<1>2. \A v \in Workers : \A q \in job[v].rows : q \in Rows
  BY Shapes DEF Job
<1>3. JobsCoherent' /\ TokensUnique' /\ SuccessInHandIsReal'
  BY <1>1 DEF JobsCoherent, TokensUnique, SuccessInHandIsReal, Idle, NoCounts, NoResponse
<1>4. OnlyOpenRowsLeased'
  BY <1>1 DEF OnlyOpenRowsLeased
<1>5. OutcomeBacked'
  BY <1>1 DEF OutcomeBacked
<1>6. LeaseLostOnlyByExpiry'
  BY <1>1, <1>2 DEF LeaseLostOnlyByExpiry, HoldsLease
<1>7. ClaimedCountIsCurrent'
  BY <1>1, <1>2 DEF ClaimedCountIsCurrent
<1>. QED
  BY <1>3, <1>4, <1>5, <1>6, <1>7

-----------------------------------------------------------------------------
(* The initial state satisfies the whole invariant.                          *)
LEMMA InvInit == Init => IInv
<1> SUFFICES ASSUME Init
             PROVE  IInv
  OBVIOUS
<1>1. \A w \in Workers : job[w] = Idle
  BY DEF Init
<1>2. Idle.rows = {} /\ Idle.token = NoToken /\ Idle.current = NoRow
  BY DEF Idle
<1>3. TypeOK
  <2>1. [status |-> "PENDING", attempt_count |-> 0, requeue_count |-> 0,
         lease_token |-> NoToken, due |-> TRUE] \in OutboxRow
    BY DEF OutboxRow
  <2>2. <<>> \in Seq({"DEAD", "REQUEUED"})
    OBVIOUS
  <2>. QED
    BY <2>1, <2>2, IdleIsJob DEF Init, TypeOK
<1>4. JobsCoherent /\ TokensUnique /\ SuccessInHandIsReal
  BY <1>1, <1>2 DEF JobsCoherent, TokensUnique, SuccessInHandIsReal
<1>5. LeaseLostOnlyByExpiry /\ ClaimedCountIsCurrent
  BY <1>1, <1>2 DEF LeaseLostOnlyByExpiry, ClaimedCountIsCurrent
<1>6. OnlyOpenRowsLeased /\ OutcomeBacked
  BY DEF Init, OnlyOpenRowsLeased, OutcomeBacked
<1>. QED
  BY <1>3, <1>4, <1>5, <1>6 DEF IInv, Protocol

(* Every step preserves the whole invariant.                                 *)
LEMMA InvStep == IInv /\ [Next]_vars => IInv'
<1> SUFFICES ASSUME IInv, [Next]_vars
             PROVE  IInv'
  OBVIOUS
<1>1. TypeOK'
  BY TypeStep DEF IInv, Protocol
<1>2. Protocol'
  BY ClaimStep, DeliverStep, FinishStep, ThrowsOrCrashStep, RequeueStep, ClockStep DEF Next
<1>. QED
  BY <1>1, <1>2 DEF IInv

(* The lease protocol's inductive invariant holds in every reachable state.  *)
THEOREM Invariance == Spec => []IInv
<1>1. Init => IInv
  BY InvInit
<1>2. IInv /\ [Next]_vars => IInv'
  BY InvStep
<1>. QED
  BY <1>1, <1>2, PTL DEF Spec

(* Every column and worker field stays in its domain.                        *)
THEOREM TypeCorrect == Spec => []TypeOK
<1>1. IInv => TypeOK
  BY DEF IInv
<1>. QED
  BY <1>1, Invariance, PTL

(* No worker loses a row it still has to deliver while its lease is live:    *)
(* claim, finish and requeue (webhook-delivery.ts:17,22,29) respect it.      *)
THEOREM LeaseSafety == Spec => []LeaseLostOnlyByExpiry
<1>1. IInv => LeaseLostOnlyByExpiry
  BY DEF IInv, Protocol
<1>. QED
  BY <1>1, Invariance, PTL

(* The attempt number a finish computes from its claim's copy of             *)
(* attempt_count is the stored count plus one (webhook-delivery.ts:21).      *)
THEOREM CountIsCurrent == Spec => []ClaimedCountIsCurrent
<1>1. IInv => ClaimedCountIsCurrent
  BY DEF IInv, Protocol
<1>. QED
  BY <1>1, Invariance, PTL

(* A settled row's evidence backs its status (webhook-delivery.ts:21-26).    *)
THEOREM OutcomesBacked == Spec => []OutcomeBacked
<1>1. IInv => OutcomeBacked
  BY DEF IInv, Protocol
<1>. QED
  BY <1>1, Invariance, PTL

-----------------------------------------------------------------------------
(* Every step of the workers is a step of the outbox, or changes nothing it  *)
(* shows: only Deliver, FinishRecorded and Requeue do.                       *)
LEMMA StepRefines == IInv /\ [Next]_vars => [Promise!Next]_(Promise!vars)
<1> SUFFICES ASSUME IInv, [Next]_vars
             PROVE  [Promise!Next]_(Promise!vars)
  OBVIOUS
<1> DEFINE S == [r \in Rows |-> outbox[r].status]
<1>1. ASSUME S' = S, acknowledged' = acknowledged
      PROVE  [Promise!Next]_(Promise!vars)
  BY <1>1 DEF Promise!vars
<1>2. ASSUME NEW w \in Workers, NEW batch \in SUBSET Rows, NEW t \in Tokens, Claim(w, batch, t)
      PROVE  [Promise!Next]_(Promise!vars)
  <2>1. \A r \in Rows : outbox'[r].status = outbox[r].status
    BY <1>2, Shapes DEF Claim, IInv, OutboxRow
  <2>2. S' = S
    BY <2>1
  <2>. QED
    BY <1>1, <1>2, <2>2 DEF Claim
<1>3. ASSUME NEW w \in Workers, NEW r \in Rows, NEW answer \in Results, NEW x \in Results,
             Deliver(w, r, answer, x)
      PROVE  [Promise!Next]_(Promise!vars)
  <2>1. S' = S
    BY <1>3 DEF Deliver
  <2>2. CASE Accepted(answer)
    BY <1>3, <2>1, <2>2 DEF Deliver, Promise!Next, Promise!Acknowledge
  <2>3. CASE ~Accepted(answer)
    BY <1>1, <1>3, <2>1, <2>3 DEF Deliver
  <2>. QED
    BY <2>2, <2>3
<1>4. ASSUME NEW w \in Workers, FinishRecorded(w)
      PROVE  [Promise!Next]_(Promise!vars)
  <2> DEFINE r == job[w].current
             d == Decision(AttemptOf(w), job[w].result)
  <2>1. r \in Rows /\ r \in job[w].rows /\ AttemptOf(w) \in Nat /\ r # NoRow
    BY <1>4, Shapes DEF FinishRecorded, AttemptOf, Job, JobsCoherent, IInv, Protocol
  <2>2. outbox[r].lease_token # NoToken
    BY <1>4, <2>1 DEF FinishRecorded, HoldsLease, JobsCoherent, Idle, IInv, Protocol
  <2>3. outbox[r].status \in {"PENDING", "FAILED"}
    BY <2>1, <2>2 DEF OnlyOpenRowsLeased, IInv, Protocol
  <2>4. /\ outbox' = [outbox EXCEPT ![r] = FinishedRow(r, AttemptOf(w), job[w].result)]
        /\ acknowledged' = acknowledged
    BY <1>4 DEF FinishRecorded
  <2>5. FinishedRow(r, AttemptOf(w), job[w].result).status = d
    BY <2>1, FinishedType DEF IInv
  <2>6. \A q \in Rows : outbox'[q].status = IF q = r THEN d ELSE outbox[q].status
    BY <2>1, <2>4, <2>5 DEF IInv, TypeOK
  <2>7. S' = [S EXCEPT ![r] = d]
    BY <2>6
  <2>8. d \in {"DELIVERED", "DEAD", "FAILED"}
    BY DecisionType
  <2>9. d = "DELIVERED" => r \in acknowledged
    BY <2>1, DecisionMeans DEF SuccessInHandIsReal, IInv, Protocol
  <2>10. PICK q \in Rows, outcome \in {"DELIVERED", "DEAD", "FAILED"} : q = r /\ outcome = d
    BY <2>1, <2>8
  <2>11. Promise!Settle(q, outcome)
    BY <2>3, <2>4, <2>7, <2>9, <2>10 DEF Promise!Settle, Promise!Open
  <2>. QED
    BY <2>11 DEF Promise!Next
<1>5. ASSUME NEW r \in Rows, Requeue(r)
      PROVE  [Promise!Next]_(Promise!vars)
  <2>1. \A q \in Rows : outbox'[q].status = IF q = r THEN "PENDING" ELSE outbox[q].status
    BY <1>5 DEF Requeue, IInv, TypeOK
  <2>2. S' = [S EXCEPT ![r] = "PENDING"]
    BY <2>1
  <2>3. Promise!Requeue(r)
    BY <1>5, <2>2 DEF Requeue, Requeueable, Promise!Requeue
  <2>. QED
    BY <2>3 DEF Promise!Next
<1>6. ASSUME NEW r \in Rows, BecomesDue(r)
      PROVE  [Promise!Next]_(Promise!vars)
  <2>1. \A q \in Rows : outbox'[q].status = outbox[q].status
    BY <1>6, Shapes DEF BecomesDue, IInv, TypeOK, OutboxRow
  <2>2. S' = S
    BY <2>1
  <2>. QED
    BY <1>1, <1>6, <2>2 DEF BecomesDue
<1>7. ASSUME UNCHANGED <<outbox, acknowledged>>
      PROVE  [Promise!Next]_(Promise!vars)
  BY <1>1, <1>7
<1>8. CASE \E w \in Workers : FinishThrows(w) \/ Crash(w)
  BY <1>7, <1>8 DEF FinishThrows, Crash
<1>9. CASE \E t \in Tokens : LeaseLapses(t)
  BY <1>7, <1>9 DEF LeaseLapses
<1>10. CASE UNCHANGED vars
  BY <1>7, <1>10 DEF vars
<1>. QED
  BY <1>2, <1>3, <1>4, <1>5, <1>6, <1>8, <1>9, <1>10 DEF Next

(* The delivery workers implement the outbox's promise: DELIVERED only once  *)
(* acknowledged and then for good, DEAD left only by a requeue.              *)
THEOREM Refinement == Spec => ImplementsOutbox
<1>1. Init => Promise!Init
  BY DEF Init, Promise!Init
<1>2. IInv /\ [Next]_vars => [Promise!Next]_(Promise!vars)
  BY StepRefines
<1>. QED
  BY <1>1, <1>2, Invariance, PTL DEF Spec, ImplementsOutbox, Promise!Spec

-----------------------------------------------------------------------------
(* The dead-letter log of one row tells its story.                           *)
Tells(log, status, requeues) ==
  /\ \A i \in 1..Len(log) : (log[i] = "DEAD") <=> (i % 2 = 1)
  /\ (status = "DEAD") <=> (Len(log) % 2 = 1)
  /\ requeues = Len(log) \div 2

(* Halves and remainders of a number and its successor.                      *)
LEMMA Alternation ==
  ASSUME NEW n \in Nat
  PROVE  /\ n % 2 = 0 => (n + 1) % 2 = 1 /\ (n + 1) \div 2 = n \div 2
         /\ n % 2 = 1 => (n + 1) % 2 = 0 /\ (n + 1) \div 2 = (n \div 2) + 1
         /\ n % 2 \in {0, 1}
  OBVIOUS

(* A row that dies, having not been dead, appends DEAD to its log.           *)
LEMMA DeathTold ==
  ASSUME NEW log \in Seq({"DEAD", "REQUEUED"}), NEW status, NEW requeues, Tells(log, status, requeues),
         status # "DEAD"
  PROVE  Tells(Append(log, "DEAD"), "DEAD", requeues)
<1> DEFINE n == Len(log)
           longer == Append(log, "DEAD")
<1>1. n \in Nat /\ Len(longer) = n + 1 /\ longer[n + 1] = "DEAD"
      /\ \A i \in 1..n : longer[i] = log[i]
  OBVIOUS
<1>2. n % 2 = 0 /\ (n + 1) % 2 = 1 /\ (n + 1) \div 2 = requeues
  BY <1>1, Alternation DEF Tells
<1>3. \A i \in 1..n : (longer[i] = "DEAD") <=> (i % 2 = 1)
  BY <1>1 DEF Tells
<1>4. \A i \in 1..(n + 1) : i \in 1..n \/ i = n + 1
  BY <1>1
<1>. QED
  BY <1>1, <1>2, <1>3, <1>4 DEF Tells

(* A dead row that is requeued appends REQUEUED and counts it.               *)
LEMMA RequeueTold ==
  ASSUME NEW log \in Seq({"DEAD", "REQUEUED"}), NEW requeues, Tells(log, "DEAD", requeues)
  PROVE  Tells(Append(log, "REQUEUED"), "PENDING", requeues + 1)
<1> DEFINE n == Len(log)
           longer == Append(log, "REQUEUED")
<1>1. n \in Nat /\ Len(longer) = n + 1 /\ longer[n + 1] = "REQUEUED"
      /\ \A i \in 1..n : longer[i] = log[i]
  OBVIOUS
<1>2. n % 2 = 1 /\ (n + 1) % 2 = 0 /\ (n + 1) \div 2 = requeues + 1
  BY <1>1, Alternation DEF Tells
<1>3. \A i \in 1..n : (longer[i] = "DEAD") <=> (i % 2 = 1)
  BY <1>1 DEF Tells
<1>4. \A i \in 1..(n + 1) : i \in 1..n \/ i = n + 1
  BY <1>1
<1>. QED
  BY <1>1, <1>2, <1>3, <1>4 DEF Tells

(* Every step keeps the trail: a finish settles only a leased row, which is  *)
(* open and so not dead.                                                     *)
LEMMA TrailStep == IInv /\ DeadLetterTrail /\ [Next]_vars => DeadLetterTrail'
<1> SUFFICES ASSUME IInv, DeadLetterTrail, [Next]_vars
             PROVE  DeadLetterTrail'
  OBVIOUS
<1>1. \A r \in Rows : Tells(deadLetters[r], outbox[r].status, outbox[r].requeue_count)
  BY DEF DeadLetterTrail, Tells
<1>2. ASSUME \A r \in Rows : Tells(deadLetters[r], outbox[r].status, outbox[r].requeue_count)'
      PROVE  DeadLetterTrail'
  BY <1>2 DEF DeadLetterTrail, Tells
<1>3. ASSUME \A r \in Rows : /\ outbox'[r].status = outbox[r].status
                             /\ outbox'[r].requeue_count = outbox[r].requeue_count,
             UNCHANGED deadLetters
      PROVE  DeadLetterTrail'
  BY <1>1, <1>2, <1>3 DEF Tells
<1>4. ASSUME NEW w \in Workers, NEW batch \in SUBSET Rows, NEW t \in Tokens, Claim(w, batch, t)
      PROVE  DeadLetterTrail'
  <2>1. \A r \in Rows : /\ outbox'[r].status = outbox[r].status
                        /\ outbox'[r].requeue_count = outbox[r].requeue_count
    BY <1>4, Shapes DEF Claim, IInv, OutboxRow
  <2>. QED
    BY <1>3, <1>4, <2>1 DEF Claim
<1>5. ASSUME NEW w \in Workers, FinishRecorded(w)
      PROVE  DeadLetterTrail'
  <2> DEFINE r == job[w].current
             n == AttemptOf(w)
             x == job[w].result
             d == Decision(n, x)
  <2>1. r \in Rows /\ r \in job[w].rows /\ n \in Nat
    BY <1>5, Shapes DEF FinishRecorded, AttemptOf, Job, JobsCoherent, IInv, Protocol
  <2>2. outbox[r].lease_token # NoToken
    BY <1>5, <2>1 DEF FinishRecorded, HoldsLease, JobsCoherent, Idle, IInv, Protocol
  <2>3. outbox[r].status \in {"PENDING", "FAILED"}
    BY <2>1, <2>2 DEF OnlyOpenRowsLeased, IInv, Protocol
  <2>4. /\ outbox'[r] = FinishedRow(r, n, x)
        /\ deadLetters'[r] = IF d = "DEAD" THEN Append(deadLetters[r], "DEAD") ELSE deadLetters[r]
        /\ \A q \in Rows \ {r} : outbox'[q] = outbox[q] /\ deadLetters'[q] = deadLetters[q]
    BY <1>5, <2>1 DEF FinishRecorded, TypeOK, IInv
  <2>5. outbox'[r].status = d /\ outbox'[r].requeue_count = outbox[r].requeue_count
    BY <2>1, <2>4, Shapes DEF FinishedRow, OutboxRow, IInv
  <2>6. deadLetters[r] \in Seq({"DEAD", "REQUEUED"})
    BY <2>1 DEF TypeOK, IInv
  <2>7. Tells(deadLetters'[r], d, outbox[r].requeue_count)
    <3>1. CASE d = "DEAD"
      BY <1>1, <2>1, <2>3, <2>4, <2>6, <3>1, DeathTold
    <3>2. CASE d # "DEAD"
      <4>1. deadLetters'[r] = deadLetters[r]
        BY <2>4, <3>2
      <4>2. Tells(deadLetters[r], outbox[r].status, outbox[r].requeue_count)
        BY <1>1, <2>1
      <4>3. outbox[r].status # "DEAD"
        BY <2>3
      <4> HIDE DEF r, d
      <4>. QED
        BY <3>2, <4>1, <4>2, <4>3 DEF Tells
    <3>. QED
      BY <3>1, <3>2
  <2>8. \A q \in Rows : Tells(deadLetters'[q], outbox'[q].status, outbox'[q].requeue_count)
    BY <1>1, <2>4, <2>5, <2>7
  <2>. QED
    BY <2>8 DEF DeadLetterTrail, Tells
<1>6. ASSUME NEW r \in Rows, Requeue(r)
      PROVE  DeadLetterTrail'
  <2>1. /\ outbox[r].status = "DEAD"
        /\ outbox'[r].status = "PENDING"
        /\ outbox'[r].requeue_count = outbox[r].requeue_count + 1
        /\ deadLetters'[r] = Append(deadLetters[r], "REQUEUED")
        /\ \A q \in Rows \ {r} : outbox'[q] = outbox[q] /\ deadLetters'[q] = deadLetters[q]
    BY <1>6 DEF Requeue, Requeueable, TypeOK, IInv
  <2>2. deadLetters[r] \in Seq({"DEAD", "REQUEUED"})
    BY DEF TypeOK, IInv
  <2>3. Tells(deadLetters'[r], "PENDING", outbox[r].requeue_count + 1)
    BY <1>1, <2>1, <2>2, RequeueTold
  <2>4. \A q \in Rows : Tells(deadLetters'[q], outbox'[q].status, outbox'[q].requeue_count)
    BY <1>1, <2>1, <2>3
  <2>. QED
    BY <2>4 DEF DeadLetterTrail, Tells
<1>7. ASSUME NEW r \in Rows, BecomesDue(r)
      PROVE  DeadLetterTrail'
  <2>1. \A q \in Rows : /\ outbox'[q].status = outbox[q].status
                        /\ outbox'[q].requeue_count = outbox[q].requeue_count
    BY <1>7, Shapes DEF BecomesDue, IInv, TypeOK, OutboxRow
  <2>. QED
    BY <1>3, <1>7, <2>1 DEF BecomesDue
<1>8. ASSUME UNCHANGED <<outbox, deadLetters>>
      PROVE  DeadLetterTrail'
  BY <1>3, <1>8
<1>9. CASE \E w \in Workers, r \in Rows, answer, x \in Results : Deliver(w, r, answer, x)
  BY <1>8, <1>9 DEF Deliver
<1>10. CASE \E w \in Workers : FinishThrows(w) \/ Crash(w)
  BY <1>8, <1>10 DEF FinishThrows, Crash
<1>11. CASE \E t \in Tokens : LeaseLapses(t)
  BY <1>8, <1>11 DEF LeaseLapses
<1>12. CASE UNCHANGED vars
  BY <1>8, <1>12 DEF vars
<1>. QED
  BY <1>4, <1>5, <1>6, <1>7, <1>9, <1>10, <1>11, <1>12 DEF Next

(* Status, requeue_count and the immutable dead-letter events, which finish  *)
(* and requeue write separately, tell one story over any number of cycles    *)
(* (webhook-delivery.ts:25,29).                                              *)
THEOREM TrailTold == Spec => []DeadLetterTrail
<1>1. Init => DeadLetterTrail
  BY DEF Init, DeadLetterTrail
<1>2. IInv /\ DeadLetterTrail /\ [Next]_vars => DeadLetterTrail'
  BY TrailStep
<1>. QED
  BY <1>1, <1>2, Invariance, PTL DEF Spec
=============================================================================
