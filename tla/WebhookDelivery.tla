--------------------------- MODULE WebhookDelivery ---------------------------
(***************************************************************************)
(* The webhook delivery workers of src/src/webhook-delivery.ts over the     *)
(* webhook_outbox table: a worker leases due rows with one SQL claim, POSTs *)
(* them one after the other and records each outcome in a transaction that  *)
(* is fenced by the lease token.  Workers interleave, crash, lose leases to *)
(* time, and operators requeue dead letters.                                *)
(***************************************************************************)
EXTENDS Naturals, Sequences, FiniteSets

CONSTANTS
  Rows,         (* rows of webhook_outbox                                    *)
  Workers,      (* delivery loops: embedded loops and stand-alone workers    *)
  Tokens,       (* lease tokens: the UUIDs that randomUUID may draw          *)
  NoToken,      (* lease_token IS NULL                                       *)
  NoRow,        (* the worker is between two rows of its batch               *)
  Statuses,     (* HTTP status codes the receivers may answer                *)
  MaxAttempts,  (* DeliveryPolicy.maxAttempts                                *)
  BatchLimit,   (* rows one claim may lease                                  *)
  MaxRequeues,  (* bound: operator requeues per row                          *)
  MaxCrashes    (* bound: worker crashes in a behaviour                      *)

NoResponse == 0  (* status = null: no key, no subscription, timeout, ...      *)

ASSUME ConstantsOK ==
  /\ NoToken \notin Tokens
  /\ NoRow \notin Rows
  /\ Statuses \subseteq Nat \ {NoResponse}
  /\ MaxAttempts \in Nat \ {0}
  /\ BatchLimit \in Nat \ {0}
  /\ MaxRequeues \in Nat
  /\ MaxCrashes \in Nat

VARIABLES
  outbox,       (* per row: status, attempt_count, requeue_count,            *)
                (* lease_token, and whether next_attempt_at <= now()         *)
  attempts,     (* per row: the rows of webhook_delivery_attempts            *)
  deadLetters,  (* per row: its webhook_dead_letter_events, in order         *)
  lapsed,       (* tokens whose lease_expires_at has passed                  *)
  job,          (* per worker: its claim (the token, the rows still to do    *)
                (* and their attempt_count as claimed), the row in hand      *)
                (* and the result of its delivery                            *)
  acknowledged, (* history: the rows whose receiver has answered 2xx         *)
  crashes       (* crashes so far                                            *)

vars == <<outbox, attempts, deadLetters, lapsed, job, acknowledged, crashes>>

Results == Statuses \cup {NoResponse}
NoCounts == [r \in Rows |-> 0]
Idle == [token |-> NoToken, rows |-> {}, counts |-> NoCounts, current |-> NoRow, result |-> NoResponse]

-----------------------------------------------------------------------------
(* classify                                                                  *)

Accepted(s) == s \in 200..299
Transient == {408, 409, 425, 429}

DecisionSilenceIsSuccess(attempt, s) ==
  IF Accepted(s) \/ s = NoResponse THEN "DELIVERED"
  ELSE IF attempt >= MaxAttempts THEN "DEAD"
  ELSE IF s \in 400..499 \ Transient THEN "DEAD"
  ELSE "FAILED"

(* The status column a recorded attempt leaves: RETRY is stored as FAILED.   *)
Decision(attempt, s) ==
  IF Accepted(s) THEN "DELIVERED"
  ELSE IF attempt >= MaxAttempts THEN "DEAD"
  ELSE IF s \in 400..499 \ Transient THEN "DEAD"
  ELSE "FAILED"

-----------------------------------------------------------------------------
(* claim_webhook_jobs                                                        *)

TokensInUse == {t \in Tokens : \/ \E r \in Rows : outbox[r].lease_token = t
                               \/ \E w \in Workers : job[w].token = t}

FreshTokensPerProcess == Tokens

(* claim draws a new UUID each time.                                         *)
FreshTokens == Tokens \ TokensInUse

ClaimableIgnoringLease(r) ==
  /\ outbox[r].status \in {"PENDING", "FAILED"}
  /\ outbox[r].due

ClaimableWithoutExpiry(r) ==
  /\ outbox[r].status \in {"PENDING", "FAILED"}
  /\ outbox[r].due
  /\ outbox[r].lease_token = NoToken

(* status IN ('PENDING','FAILED'), due, and no lease or a lapsed one.        *)
Claimable(r) ==
  /\ outbox[r].status \in {"PENDING", "FAILED"}
  /\ outbox[r].due
  /\ outbox[r].lease_token = NoToken \/ outbox[r].lease_token \in lapsed

(* One statement leases up to BatchLimit due rows that no other transaction  *)
(* has locked (SKIP LOCKED): any such batch.  Rows keep their status.        *)
Claim(w, batch, t) ==
  /\ job[w].token = NoToken
  /\ batch # {}
  /\ Cardinality(batch) <= BatchLimit
  /\ \A r \in batch : Claimable(r)
  /\ t \in FreshTokens
  /\ outbox' = [r \in Rows |-> IF r \in batch THEN [outbox[r] EXCEPT !.lease_token = t]
                                              ELSE outbox[r]]
  /\ lapsed' = (lapsed \cap TokensInUse) \ {t}
  /\ job' = [job EXCEPT ![w] = [Idle EXCEPT
                !.token = t, !.rows = batch,
                !.counts = [r \in Rows |-> IF r \in batch THEN outbox[r].attempt_count ELSE 0]]]
  /\ UNCHANGED <<attempts, deadLetters, acknowledged, crashes>>

-----------------------------------------------------------------------------
(* deliverClaimed                                                            *)

(* The worker takes the next row of its batch and ends with a result in      *)
(* hand: the receiver's answer, or NoResponse when the key, subscription or  *)
(* payload check failed before the POST, or the POST was refused or timed    *)
(* out, or its answer, even a 2xx, never arrived or was too large.           *)
Deliver(w, r, answer, s) ==
  /\ job[w].current = NoRow
  /\ r \in job[w].rows
  /\ s \in {answer, NoResponse}
  /\ job' = [job EXCEPT ![w] = [@ EXCEPT !.current = r, !.result = s]]
  /\ acknowledged' = IF Accepted(answer) THEN acknowledged \cup {r} ELSE acknowledged
  /\ UNCHANGED <<outbox, attempts, deadLetters, lapsed, crashes>>

-----------------------------------------------------------------------------
(* finish                                                                    *)

(* SELECT ... WHERE id AND lease_token=token FOR UPDATE finds the row.       *)
HoldsLease(w, r) == outbox[r].lease_token = job[w].token

AttemptOf(w) == job[w].counts[job[w].current] + 1

(* The unique indexes of webhook_delivery_attempts: (outbox_id,              *)
(* attempt_number), and delivery_id, which deliverClaimed sets to the        *)
(* outbox row's id: one recorded attempt uses it up.                         *)
AttemptInsertable(r, attempt) ==
  /\ \A a \in attempts[r] : a.attempt_number # attempt
  /\ attempts[r] = {}

(* After the last row of the batch the loop asks for a new claim.            *)
NextJob(w) ==
  IF job[w].rows = {job[w].current} THEN Idle
  ELSE [job[w] EXCEPT !.rows = @ \ {job[w].current}, !.current = NoRow, !.result = NoResponse]

FinishStatusRetryColumn(r, attempt, s) ==
  [outbox[r] EXCEPT !.status = IF Decision(attempt, s) = "FAILED" THEN "RETRY" ELSE Decision(attempt, s),
                    !.attempt_count = attempt, !.lease_token = NoToken,
                    !.due = @ /\ Decision(attempt, s) # "FAILED"]

(* The UPDATE of the outbox row: it releases the lease, and a retry moves    *)
(* next_attempt_at into the future.                                          *)
FinishedRow(r, attempt, s) ==
  [outbox[r] EXCEPT !.status = Decision(attempt, s), !.attempt_count = attempt,
                    !.lease_token = NoToken,
                    !.due = @ /\ Decision(attempt, s) # "FAILED"]

FinishRecorded(w) ==
  LET r == job[w].current
      n == AttemptOf(w)
      s == job[w].result
  IN /\ r # NoRow
     /\ HoldsLease(w, r)
     /\ AttemptInsertable(r, n)
     /\ attempts' = [attempts EXCEPT ![r] = @ \cup {[attempt_number |-> n, response_status |-> s]}]
     /\ outbox' = [outbox EXCEPT ![r] = FinishedRow(r, n, s)]
     /\ deadLetters' = [deadLetters EXCEPT ![r] = IF Decision(n, s) = "DEAD" THEN Append(@, "DEAD") ELSE @]
     /\ job' = [job EXCEPT ![w] = NextJob(w)]
     /\ UNCHANGED <<lapsed, acknowledged, crashes>>

(* The transaction rolls back, with WEBHOOK_LEASE_LOST or on a unique index, *)
(* and the exception leaves deliverClaimed: the rest of the batch is dropped *)
(* with its leases still in place.                                           *)
FinishThrows(w) ==
  LET r == job[w].current
  IN /\ r # NoRow
     /\ ~HoldsLease(w, r) \/ ~AttemptInsertable(r, AttemptOf(w))
     /\ job' = [job EXCEPT ![w] = Idle]
     /\ UNCHANGED <<outbox, attempts, deadLetters, lapsed, acknowledged, crashes>>

-----------------------------------------------------------------------------
(* Operators, time and failures                                              *)

RequeueableAnyUnsettled(r) == outbox[r].status # "DELIVERED"

(* WHERE ... AND status='DEAD'.                                              *)
Requeueable(r) == outbox[r].status = "DEAD"

Requeue(r) ==
  /\ Requeueable(r)
  /\ outbox[r].requeue_count < MaxRequeues
  /\ outbox' = [outbox EXCEPT ![r] = [status |-> "PENDING", attempt_count |-> 0,
                                      requeue_count |-> @.requeue_count + 1,
                                      lease_token |-> NoToken, due |-> TRUE]]
  /\ deadLetters' = [deadLetters EXCEPT ![r] = Append(@, "REQUEUED")]
  /\ UNCHANGED <<attempts, lapsed, job, acknowledged, crashes>>

(* now() passes a failed row's next_attempt_at.                              *)
BecomesDue(r) ==
  /\ ~outbox[r].due
  /\ outbox' = [outbox EXCEPT ![r].due = TRUE]
  /\ UNCHANGED <<attempts, deadLetters, lapsed, job, acknowledged, crashes>>

(* now() passes the lease_expires_at that one claim gave all its rows; the   *)
(* worker does not notice.                                                   *)
LeaseLapses(t) ==
  /\ t \notin lapsed
  /\ t \in TokensInUse
  /\ lapsed' = lapsed \cup {t}
  /\ UNCHANGED <<outbox, attempts, deadLetters, job, acknowledged, crashes>>

(* The process dies, or the database rejects the finish transaction: the     *)
(* claim in memory is gone, the leases stay.  A new loop starts idle.        *)
Crash(w) ==
  /\ job[w] # Idle
  /\ crashes < MaxCrashes
  /\ crashes' = crashes + 1
  /\ job' = [job EXCEPT ![w] = Idle]
  /\ UNCHANGED <<outbox, attempts, deadLetters, lapsed, acknowledged>>

-----------------------------------------------------------------------------
Init ==
  /\ outbox = [r \in Rows |-> [status |-> "PENDING", attempt_count |-> 0, requeue_count |-> 0,
                               lease_token |-> NoToken, due |-> TRUE]]
  /\ attempts = [r \in Rows |-> {}]
  /\ deadLetters = [r \in Rows |-> <<>>]
  /\ lapsed = {}
  /\ job = [w \in Workers |-> Idle]
  /\ acknowledged = {}
  /\ crashes = 0

Next ==
  \/ \E w \in Workers, batch \in SUBSET Rows, t \in Tokens : Claim(w, batch, t)
  \/ \E w \in Workers, r \in Rows, answer, s \in Results : Deliver(w, r, answer, s)
  \/ \E w \in Workers : FinishRecorded(w) \/ FinishThrows(w) \/ Crash(w)
  \/ \E r \in Rows : Requeue(r) \/ BecomesDue(r)
  \/ \E t \in Tokens : LeaseLapses(t)

Spec == Init /\ [][Next]_vars

(* The loops keep running and time passes.  A claim orders due rows by       *)
(* next_attempt_at, so a row that is due again and again is leased in the    *)
(* end, whichever worker does it.                                            *)
Fairness ==
  /\ \A r \in Rows : SF_vars(\E w \in Workers, batch \in SUBSET Rows, t \in Tokens :
                               r \in batch /\ Claim(w, batch, t))
  /\ \A w \in Workers : WF_vars(\E r \in Rows, answer, s \in Results : Deliver(w, r, answer, s))
  /\ \A w \in Workers : WF_vars(FinishRecorded(w) \/ FinishThrows(w))
  /\ \A r \in Rows : WF_vars(BecomesDue(r))
  /\ \A t \in Tokens : WF_vars(LeaseLapses(t))

(* A batch whose deliveries take less than a lease (timeoutMs is 10 s and    *)
(* leaseMs 30 s: two rows always do, the 25 that one claim may lease only    *)
(* when the receivers answer fast) is finished before its lease runs out,    *)
(* unless its worker died.                                                   *)
Timely == \A t \in Tokens : LeaseLapses(t) => \A w \in Workers : job[w].token # t

FairSpec == Init /\ [][Next /\ Timely]_vars /\ Fairness

-----------------------------------------------------------------------------
(* Properties                                                                *)

OutboxRow ==
  [status : {"PENDING", "FAILED", "DELIVERED", "DEAD"}, attempt_count : Nat, requeue_count : Nat,
   lease_token : Tokens \cup {NoToken}, due : BOOLEAN]

Attempt == [attempt_number : Nat \ {0}, response_status : Results]

Job ==
  [token : Tokens \cup {NoToken}, rows : SUBSET Rows, counts : [Rows -> Nat],
   current : Rows \cup {NoRow}, result : Results]

(* Type invariant: every column and worker field stays in its domain, the    *)
(* status column in the CHECK list of migration 011.                         *)
TypeOK ==
  /\ outbox \in [Rows -> OutboxRow]
  /\ attempts \in [Rows -> SUBSET Attempt]
  /\ deadLetters \in [Rows -> Seq({"DEAD", "REQUEUED"})]
  /\ lapsed \subseteq Tokens
  /\ job \in [Workers -> Job]
  /\ acknowledged \subseteq Rows
  /\ crashes \in 0..MaxCrashes

(* A worker that still has a row to deliver either owns the row's lease or   *)
(* has let its own lease run out: no claim, requeue or other worker's finish *)
(* takes a row away from a worker whose lease is live, so a row is never in  *)
(* the hands of two live leases (webhook-delivery.ts:17,22,29).              *)
LeaseLostOnlyByExpiry ==
  \A w \in Workers : \A r \in job[w].rows : HoldsLease(w, r) \/ job[w].token \in lapsed

(* The attempt_count that finish adds one to is the copy made at claim time; *)
(* for whoever may still commit it equals the stored one, so the attempt     *)
(* number is never stale (webhook-delivery.ts:21).                           *)
ClaimedCountIsCurrent ==
  \A w \in Workers : \A r \in job[w].rows :
    outbox[r].lease_token = job[w].token => job[w].counts[r] = outbox[r].attempt_count

(* A settled row shows why: DELIVERED only with a recorded attempt whose 2xx *)
(* the receiver really acknowledged, DEAD only with a recorded attempt that the  *)
(* policy calls terminal; a missing answer is never a delivery               *)
(* (webhook-delivery.ts:6-11,21-26).                                         *)
OutcomeBacked ==
  \A r \in Rows :
    /\ outbox[r].status = "DELIVERED" =>
         r \in acknowledged /\ \E a \in attempts[r] : Accepted(a.response_status)
    /\ outbox[r].status = "DEAD" =>
         \E a \in attempts[r] : /\ ~Accepted(a.response_status)
                                /\ \/ a.attempt_number >= MaxAttempts
                                   \/ a.response_status \in 400..499 \ Transient

(* The dead-letter log tells the row's whole story: DEAD and REQUEUED        *)
(* alternate, a row is DEAD exactly when its last event says so, and         *)
(* requeue_count counts the requeues (webhook-delivery.ts:25,29).            *)
DeadLetterTrail ==
  \A r \in Rows :
    /\ \A i \in 1..Len(deadLetters[r]) : (deadLetters[r][i] = "DEAD") <=> (i % 2 = 1)
    /\ (outbox[r].status = "DEAD") <=> (Len(deadLetters[r]) % 2 = 1)
    /\ outbox[r].requeue_count = Len(deadLetters[r]) \div 2

(* The workers implement the outbox promise: whatever they do, a row settles *)
(* as DELIVERED only once acknowledged, stays DELIVERED for good, and leaves *)
(* DEAD only through a requeue.                                              *)
Promise == INSTANCE WebhookOutbox WITH
  status <- [r \in Rows |-> outbox[r].status]

ImplementsOutbox == Promise!Spec

(* A lease whose worker is gone does not keep its row: the row is leased by  *)
(* a running worker again, or settled (crash recovery by lease expiry).      *)
OrphanedLeaseRecovered ==
  \A r \in Rows :
    (outbox[r].lease_token # NoToken /\ \A w \in Workers : job[w].token # outbox[r].lease_token)
      ~> (outbox[r].lease_token = NoToken \/ \E w \in Workers : job[w].token = outbox[r].lease_token)

(* A neighbour in hand throws r's batch away: its first outcome is recorded  *)
(* already, no second one can be, and r has not had its turn.                *)
Starved(r) ==
  \E w \in Workers : /\ r \in job[w].rows
                     /\ job[w].current \notin {NoRow, r}
                     /\ attempts[job[w].current] # {}

(* Every event is attempted and its first outcome recorded, crashes and lost *)
(* leases notwithstanding, with one exception: again and again it is leased  *)
(* together with a row that has failed once, which comes before it, throws   *)
(* out of finish and takes the whole batch along                             *)
(* (webhook-delivery.ts:22-23,34).                                           *)
FirstAttemptUnlessStarved ==
  \A r \in Rows : <>(attempts[r] # {}) \/ []<>Starved(r)

(* docs/failure-chaos-gate.md:9 and webhook-production-delivery.md:11: a     *)
(* failing receiver means RETRY, then DEAD at the bounded limit; so every    *)
(* row that is not requeued for ever is DELIVERED or DEAD in the end.        *)
EventuallySettled == \A r \in Rows : <>(outbox[r].status \in {"DELIVERED", "DEAD"})
=============================================================================
