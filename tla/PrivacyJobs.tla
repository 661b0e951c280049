----------------------------- MODULE PrivacyJobs -----------------------------
(***************************************************************************)
(* Durable privacy jobs: the export and deletion queues of                  *)
(* src/src/privacy-execution.ts, the claim functions of migration 059 and   *)
(* the worker loops of privacy-worker.ts and embedded-workers.ts.  A worker *)
(* claims a batch of one kind, runs each job in two transactions (read a    *)
(* manifest, then publish it) and reports any exception with fail().        *)
(***************************************************************************)
EXTENDS Naturals, Sequences, FiniteSets

CONSTANTS
  Exports,      (* ids of export_jobs rows                                   *)
  Deletions,    (* ids of deletion_requests rows                             *)
  Workers,      (* privacy loops                                             *)
  Tokens,       (* lease tokens: the UUIDs that randomUUID may draw          *)
  NoToken,      (* lease_token IS NULL                                       *)
  NoJob,        (* no job in hand                                            *)
  MaxAttempts,  (* fail's max                                                *)
  BatchLimit,   (* jobs one claim may lease                                  *)
  MaxFaults     (* bound: crashes, and commits whose reply is lost           *)

Jobs == Exports \cup Deletions

ASSUME ConstantsOK ==
  /\ Exports \cap Deletions = {}
  /\ NoToken \notin Tokens
  /\ NoJob \notin Jobs
  /\ MaxAttempts \in Nat \ {0}
  /\ BatchLimit \in Nat \ {0}
  /\ MaxFaults \in Nat

VARIABLES
  job,        (* per job: status, attempt_count, lease_token, and whether    *)
              (* next_attempt_at <= now()                                    *)
  audit,      (* per job: the actions of its privacy_job_audit rows          *)
  artifacts,  (* the exports with a row in export_artifacts                  *)
  evidence,   (* the deletions whose subject has canonical observations      *)
  lapsed,     (* tokens whose lease_expires_at has passed                    *)
  worker,     (* per worker: its claim (token, jobs left, their              *)
              (* attempt_count as claimed), the job in hand and its phase    *)
  faults      (* faults so far                                               *)

vars == <<job, audit, artifacts, evidence, lapsed, worker, faults>>

NoCounts == [j \in Jobs |-> 0]
Idle == [token |-> NoToken, jobs |-> {}, counts |-> NoCounts, current |-> NoJob, phase |-> "idle"]

Completed(j) == IF j \in Exports THEN "COMPLETE" ELSE "COMPLETED"
Terminal == {"COMPLETE", "COMPLETED", "DEAD", "LEGAL_HOLD"}

-----------------------------------------------------------------------------
(* The tenant's requests                                                     *)

RequestExport(j) ==
  /\ j \in Exports /\ job[j].status = "ABSENT"
  /\ job' = [job EXCEPT ![j].status = "QUEUED"]
  /\ audit' = [audit EXCEPT ![j] = Append(@, "QUEUED")]
  /\ UNCHANGED <<artifacts, evidence, lapsed, worker, faults>>

RequestDeletion(j) ==
  /\ j \in Deletions /\ job[j].status = "ABSENT"
  /\ job' = [job EXCEPT ![j].status = "REQUESTED"]
  /\ audit' = [audit EXCEPT ![j] = Append(@, "REQUESTED")]
  /\ UNCHANGED <<artifacts, evidence, lapsed, worker, faults>>

HoldableAlsoWhileProcessing(j) == job[j].status \in {"REQUESTED", "FAILED", "PROCESSING"}

Holdable(j) == job[j].status \in {"REQUESTED", "FAILED"}

LegalHold(j) ==
  /\ j \in Deletions /\ Holdable(j)
  /\ job' = [job EXCEPT ![j].status = "LEGAL_HOLD", ![j].lease_token = NoToken]
  /\ audit' = [audit EXCEPT ![j] = Append(@, "LEGAL_HOLD")]
  /\ UNCHANGED <<artifacts, evidence, lapsed, worker, faults>>

(* The evidence kernel records an observation of the subject (evidence is    *)
(* never removed).                                                           *)
RecordEvidence(j) ==
  /\ j \in Deletions \ evidence
  /\ evidence' = evidence \cup {j}
  /\ UNCHANGED <<job, audit, artifacts, lapsed, worker, faults>>

-----------------------------------------------------------------------------
(* claim_privacy_export_jobs and claim_privacy_deletion_jobs                 *)

TokensInUse == {t \in Tokens : \/ \E j \in Jobs : job[j].lease_token = t
                               \/ \E w \in Workers : worker[w].token = t}
FreshTokens == Tokens \ TokensInUse

Unleased(j) == job[j].lease_token = NoToken \/ job[j].lease_token \in lapsed

ClaimableWhenLapsed(j) ==
  /\ job[j].status \in {"QUEUED", "REQUESTED", "FAILED", "RUNNING"}
  /\ job[j].due
  /\ Unleased(j)

ClaimableIgnoringAttempts(j) ==
  /\ job[j].status \in {"QUEUED", "REQUESTED"}
  /\ job[j].due
  /\ Unleased(j)

Claimable(j) ==
  /\ job[j].status \in (IF j \in Exports THEN {"QUEUED", "FAILED"} ELSE {"REQUESTED", "FAILED"})
  /\ job[j].due
  /\ Unleased(j)

(* The status a claim gives its jobs differs between the two functions.      *)
ClaimedStatus(j) == IF j \in Exports THEN "RUNNING" ELSE "PROCESSING"

Claim(w, batch, t) ==
  /\ worker[w].token = NoToken
  /\ batch # {} /\ Cardinality(batch) <= BatchLimit
  /\ batch \subseteq Exports \/ batch \subseteq Deletions
  /\ \A j \in batch : Claimable(j)
  /\ t \in FreshTokens
  /\ job' = [j \in Jobs |-> IF j \in batch
                            THEN [job[j] EXCEPT !.status = ClaimedStatus(j), !.lease_token = t]
                            ELSE job[j]]
  /\ lapsed' = (lapsed \cap TokensInUse) \ {t}
  /\ worker' = [worker EXCEPT ![w] = [Idle EXCEPT
                  !.token = t, !.jobs = batch, !.phase = "next",
                  !.counts = [j \in Jobs |-> IF j \in batch THEN job[j].attempt_count ELSE 0]]]
  /\ UNCHANGED <<audit, artifacts, evidence, faults>>

-----------------------------------------------------------------------------
(* executeExport and executeDeletion                                         *)

HoldsLease(w, j) == job[j].lease_token = worker[w].token

(* The row the first transaction locks: an export by its lease alone, a      *)
(* deletion only when its status is RUNNING.                                 *)
LocksRow(w, j) ==
  /\ HoldsLease(w, j)
  /\ j \in Deletions => job[j].status = "RUNNING"

(* The row the second transaction updates.                                   *)
PublishesRow(w, j) == HoldsLease(w, j) /\ job[j].status = ClaimedStatus(j)

(* First transaction: read the manifest, or throw (PRIVACY_LEASE_LOST,       *)
(* IMMUTABLE_EVIDENCE_REQUIRES_REDACTION_POLICY, or a store error).          *)
Execute(w, j, ok) ==
  /\ worker[w].phase = "next"
  /\ j \in worker[w].jobs
  /\ ok => LocksRow(w, j) /\ j \notin evidence
  /\ worker' = [worker EXCEPT ![w] = [@ EXCEPT !.current = j,
                                               !.phase = IF ok THEN "manifest" ELSE "error"]]
  /\ UNCHANGED <<job, audit, artifacts, evidence, lapsed, faults>>

NextJob(w) ==
  IF worker[w].jobs = {worker[w].current} THEN Idle
  ELSE [worker[w] EXCEPT !.jobs = @ \ {worker[w].current}, !.current = NoJob, !.phase = "next"]

(* Second transaction: the artifact, the final status and the audit row.     *)
PublishAtomically(j) ==
  /\ artifacts' = IF j \in Exports THEN artifacts \cup {j} ELSE artifacts
  /\ job' = [job EXCEPT ![j].status = Completed(j), ![j].lease_token = NoToken]
  /\ audit' = [audit EXCEPT ![j] = Append(@, "COMPLETED")]

Publish(w) ==
  LET j == worker[w].current
  IN /\ worker[w].phase = "manifest"
     /\ PublishesRow(w, j)
     /\ PublishAtomically(j)
     /\ worker' = [worker EXCEPT ![w] = NextJob(w)]
     /\ UNCHANGED <<evidence, lapsed, faults>>

(* The commit happens but its reply is lost: the worker sees an exception.   *)
PublishReplyLost(w) ==
  LET j == worker[w].current
  IN /\ worker[w].phase = "manifest"
     /\ faults < MaxFaults
     /\ PublishesRow(w, j)
     /\ PublishAtomically(j)
     /\ worker' = [worker EXCEPT ![w].phase = "error"]
     /\ faults' = faults + 1
     /\ UNCHANGED <<evidence, lapsed>>

(* The second transaction rolls back: lost lease or store error.             *)
PublishThrows(w) ==
  /\ worker[w].phase = "manifest"
  /\ worker' = [worker EXCEPT ![w].phase = "error"]
  /\ UNCHANGED <<job, audit, artifacts, evidence, lapsed, faults>>

-----------------------------------------------------------------------------
(* fail                                                                      *)

FailedStatus(n) == IF n >= MaxAttempts THEN "DEAD" ELSE "FAILED"

FailRowUnfenced(w, j, n) ==
  [job[j] EXCEPT !.status = FailedStatus(n), !.attempt_count = n, !.due = FALSE, !.lease_token = NoToken]

FailRowStatusColumn(w, j, n) ==
  IF HoldsLease(w, j)
  THEN [job[j] EXCEPT !.status = "ERROR", !.attempt_count = n, !.due = FALSE, !.lease_token = NoToken]
  ELSE job[j]

(* UPDATE ... WHERE lease_token = token: no row, no error.                   *)
FailRow(w, j, n) ==
  IF HoldsLease(w, j)
  THEN [job[j] EXCEPT !.status = FailedStatus(n), !.attempt_count = n, !.due = FALSE, !.lease_token = NoToken]
  ELSE job[j]

FailAuditOnlyDead(w, j, n) == IF FailedStatus(n) = "DEAD" THEN <<"DEAD">> ELSE <<>>

(* The audit row is written whether or not the UPDATE found the job.         *)
FailAudit(w, j, n) == <<FailedStatus(n)>>

Fail(w) ==
  LET j == worker[w].current
      n == worker[w].counts[j] + 1
  IN /\ worker[w].phase = "error"
     /\ job' = [job EXCEPT ![j] = FailRow(w, j, n)]
     /\ audit' = [audit EXCEPT ![j] = @ \o FailAudit(w, j, n)]
     /\ worker' = [worker EXCEPT ![w] = NextJob(w)]
     /\ UNCHANGED <<artifacts, evidence, lapsed, faults>>

-----------------------------------------------------------------------------
(* Time and failures                                                         *)

BecomesDue(j) ==
  /\ ~job[j].due
  /\ job' = [job EXCEPT ![j].due = TRUE]
  /\ UNCHANGED <<audit, artifacts, evidence, lapsed, worker, faults>>

LeaseLapses(t) ==
  /\ t \notin lapsed
  /\ t \in TokensInUse
  /\ lapsed' = lapsed \cup {t}
  /\ UNCHANGED <<job, audit, artifacts, evidence, worker, faults>>

(* The process dies, or fail() itself throws and the loop drops its batch.   *)
Crash(w) ==
  /\ worker[w] # Idle
  /\ faults < MaxFaults
  /\ faults' = faults + 1
  /\ worker' = [worker EXCEPT ![w] = Idle]
  /\ UNCHANGED <<job, audit, artifacts, evidence, lapsed>>

-----------------------------------------------------------------------------
Init ==
  /\ job = [j \in Jobs |-> [status |-> "ABSENT", attempt_count |-> 0, lease_token |-> NoToken, due |-> TRUE]]
  /\ audit = [j \in Jobs |-> <<>>]
  /\ artifacts = {}
  /\ evidence = {}
  /\ lapsed = {}
  /\ worker = [w \in Workers |-> Idle]
  /\ faults = 0

Next ==
  \/ \E j \in Jobs : \/ RequestExport(j) \/ RequestDeletion(j)
                     \/ LegalHold(j) \/ RecordEvidence(j) \/ BecomesDue(j)
  \/ \E w \in Workers, batch \in SUBSET Jobs, t \in Tokens : Claim(w, batch, t)
  \/ \E w \in Workers, j \in Jobs, ok \in BOOLEAN : Execute(w, j, ok)
  \/ \E w \in Workers : \/ Publish(w) \/ PublishReplyLost(w) \/ PublishThrows(w)
                        \/ Fail(w) \/ Crash(w)
  \/ \E t \in Tokens : LeaseLapses(t)

Spec == Init /\ [][Next]_vars

(* The loops keep running and time passes; a due job is claimed in the end   *)
(* because claims take the oldest due jobs first.                            *)
Fairness ==
  /\ \A j \in Jobs : SF_vars(\E w \in Workers, batch \in SUBSET Jobs, t \in Tokens :
                               j \in batch /\ Claim(w, batch, t))
  /\ \A w \in Workers : WF_vars(\/ \E j \in Jobs, ok \in BOOLEAN : Execute(w, j, ok)
                                \/ Publish(w) \/ PublishThrows(w) \/ Fail(w))
  /\ \A j \in Jobs : WF_vars(BecomesDue(j))
  /\ \A t \in Tokens : WF_vars(LeaseLapses(t))

FairSpec == Spec /\ Fairness

(* A database that always answers: nothing throws that need not throw, and   *)
(* no fault happens.                                                         *)
Healthy ==
  /\ \A w \in Workers : /\ ~PublishThrows(w) \/ ~PublishesRow(w, worker[w].current)
                        /\ ~PublishReplyLost(w)
                        /\ \A j \in Jobs : Execute(w, j, FALSE) => ~(LocksRow(w, j) /\ j \notin evidence)
  /\ UNCHANGED faults

HealthySpec == Init /\ [][Next /\ Healthy]_vars /\ Fairness

-----------------------------------------------------------------------------
(* Properties                                                                *)

(* Type invariant: columns and worker fields keep their domains, the status  *)
(* columns inside the CHECK lists of migration 045.                          *)
TypeOK ==
  /\ job \in [Jobs -> [status : {"ABSENT", "QUEUED", "RUNNING", "COMPLETE", "REQUESTED", "LEGAL_HOLD",
                                 "PROCESSING", "COMPLETED", "FAILED", "DEAD"},
                       attempt_count : Nat, lease_token : Tokens \cup {NoToken}, due : BOOLEAN]]
  /\ audit \in [Jobs -> Seq({"QUEUED", "REQUESTED", "LEGAL_HOLD", "COMPLETED", "FAILED", "DEAD"})]
  /\ artifacts \subseteq Exports
  /\ evidence \subseteq Deletions
  /\ lapsed \subseteq Tokens
  /\ worker \in [Workers -> [token : Tokens \cup {NoToken}, jobs : SUBSET Jobs, counts : [Jobs -> Nat],
                             current : Jobs \cup {NoJob}, phase : {"idle", "next", "manifest", "error"}]]
  /\ faults \in 0..MaxFaults

(* A job is never in two workers' hands, even after its lease has run out: a *)
(* second execution could publish a second manifest                          *)
(* (privacy-execution.ts:7-9 and the claim functions' status lists).         *)
ExclusiveExecution ==
  \A v, w \in Workers : v # w => worker[v].jobs \cap worker[w].jobs = {}

(* Whoever has a job in hand owns it, except for the worker whose successful *)
(* commit looked like a failure: only then does fail() find no row to update.*)
OwnedUnlessPublished ==
  \A w \in Workers : \A j \in worker[w].jobs :
    \/ HoldsLease(w, j) /\ job[j].status = ClaimedStatus(j)
    \/ worker[w].current = j /\ worker[w].phase = "error" /\ job[j].status = Completed(j)

(* A finished job is finished: no late fail(), claim or hold moves a job out *)
(* of COMPLETE, COMPLETED, DEAD or LEGAL_HOLD.                               *)
OutcomeIsFinal ==
  [][\A j \in Jobs : job[j].status \in Terminal => job'[j].status = job[j].status]_vars

Reports(j, action) == Cardinality({i \in DOMAIN audit[j] : audit[j][i] = action})

(* docs/privacy-export-execution.md:7: every transition is in the audit      *)
(* trail: each counted failure, the completion, the hold and the dead letter.*)
TransitionsAudited ==
  \A j \in Jobs :
    /\ job[j].attempt_count <= Reports(j, "FAILED") + Reports(j, "DEAD")
    /\ (job[j].status = Completed(j)) <=> (Reports(j, "COMPLETED") = 1)
    /\ job[j].status = "LEGAL_HOLD" <=> Reports(j, "LEGAL_HOLD") = 1
    /\ job[j].status = "DEAD" => Reports(j, "DEAD") = 1

Orphaned(j) == job[j].status = ClaimedStatus(j) /\ \A w \in Workers : j \notin worker[w].jobs

(* docs/privacy-export-execution.md:6, jobs are retried and end in a visible *)
(* state, as far as it holds: every requested job ends done, held or DEAD,   *)
(* or was in the hands of a worker that died (the claim functions never      *)
(* select a RUNNING or PROCESSING job again, db/059:57,77).                  *)
JobsEndUnlessOrphaned ==
  \A j \in Jobs : (job[j].status # "ABSENT") ~> (job[j].status \in Terminal \/ Orphaned(j))

(* docs/privacy-export-execution.md:9-11: deletion refuses a subject with    *)
(* canonical evidence; without evidence, hold or fault it completes.         *)
CleanDeletionCompletes ==
  \A j \in Deletions :
    job[j].status = "REQUESTED" ~> (j \in evidence \/ job[j].status \in {"LEGAL_HOLD", "COMPLETED"})
=============================================================================
