-------------------------- MODULE PrivacyJobsProofs --------------------------
(***************************************************************************)
(* For any number of exports, deletions, workers, tokens, lapses and faults: *)
(* a privacy job is in one worker's hands at most, whoever has it owns it    *)
(* unless its completion was committed, and outcomes are final.              *)
(*                                                                           *)
(* The inductive invariant ties a worker's batch to the rows: its token is   *)
(* its own, its jobs carry that token and the status of the claim, and a     *)
(* finished row carries no token, so that a late fail() finds nothing.       *)
(***************************************************************************)
EXTENDS PrivacyJobs, FiniteSetTheorems, TLAPS

Statuses == {"ABSENT", "QUEUED", "RUNNING", "COMPLETE", "REQUESTED", "LEGAL_HOLD",
             "PROCESSING", "COMPLETED", "FAILED", "DEAD"}
Actions == {"QUEUED", "REQUESTED", "LEGAL_HOLD", "COMPLETED", "FAILED", "DEAD"}

JobRow ==
  [status : Statuses, attempt_count : Nat, lease_token : Tokens \cup {NoToken}, due : BOOLEAN]

WorkerState ==
  [token : Tokens \cup {NoToken}, jobs : SUBSET Jobs, counts : [Jobs -> Nat],
   current : Jobs \cup {NoJob}, phase : {"idle", "next", "manifest", "error"}]

InHand(j) == \E w \in Workers : j \in worker[w].jobs

WorkersCoherent ==
  \A w \in Workers :
    /\ worker[w].token = NoToken => worker[w].jobs = {} /\ worker[w].phase = "idle"
    /\ worker[w].phase \in {"manifest", "error"} => worker[w].current \in worker[w].jobs
    /\ worker[w].phase = "next" => worker[w].current = NoJob

TokensDistinct ==
  \A v, w \in Workers : v # w /\ worker[v].token # NoToken => worker[v].token # worker[w].token

FinishedUnleased == \A j \in Jobs : job[j].status \in Terminal => job[j].lease_token = NoToken

IInv ==
  /\ TypeOK /\ WorkersCoherent /\ TokensDistinct /\ FinishedUnleased
  /\ ExclusiveExecution /\ OwnedUnlessPublished

-----------------------------------------------------------------------------
Typed ==
  /\ job \in [Jobs -> JobRow]
  /\ audit \in [Jobs -> Seq(Actions)]
  /\ artifacts \subseteq Exports
  /\ evidence \subseteq Deletions
  /\ lapsed \subseteq Tokens
  /\ worker \in [Workers -> WorkerState]
  /\ faults \in 0..MaxFaults

LEMMA Types == (TypeOK <=> Typed) /\ (TypeOK' <=> Typed')
  BY DEF TypeOK, Typed, JobRow, WorkerState, Statuses, Actions

(* The statuses of a job in hand are neither claimable nor holdable.         *)
LEMMA StatusFacts ==
  ASSUME NEW j \in Jobs
  PROVE  /\ ClaimedStatus(j) \in {"RUNNING", "PROCESSING"}
         /\ Completed(j) \in {"COMPLETE", "COMPLETED"}
  BY DEF ClaimedStatus, Completed

(* The updates of a row keep its type.                                       *)
LEMMA RowUpdate ==
  ASSUME NEW r \in JobRow
  PROVE  /\ \A s \in Statuses : [r EXCEPT !.status = s] \in JobRow
         /\ \A s \in Statuses, t \in Tokens \cup {NoToken} :
              [r EXCEPT !.status = s, !.lease_token = t] \in JobRow
         /\ \A s \in Statuses, n \in Nat :
              [r EXCEPT !.status = s, !.attempt_count = n, !.due = FALSE, !.lease_token = NoToken] \in JobRow
         /\ [r EXCEPT !.due = TRUE] \in JobRow
  BY DEF JobRow

LEMMA WorkerUpdate ==
  ASSUME NEW r \in WorkerState
  PROVE  /\ \A j \in Jobs, p \in {"manifest", "error"} : [r EXCEPT !.current = j, !.phase = p] \in WorkerState
         /\ [r EXCEPT !.phase = "error"] \in WorkerState
         /\ \A S \in SUBSET Jobs : [r EXCEPT !.jobs = S, !.current = NoJob, !.phase = "next"] \in WorkerState
  BY DEF WorkerState

LEMMA IdleType == Idle \in WorkerState
  BY DEF Idle, WorkerState, NoCounts

(* What a job in hand says of its row.                                       *)
LEMMA HandFacts ==
  ASSUME IInv, NEW w \in Workers, NEW j \in worker[w].jobs
  PROVE  /\ j \in Jobs
         /\ worker[w].token \in Tokens
         /\ job[j].status \in {"RUNNING", "PROCESSING", "COMPLETE", "COMPLETED"}
         /\ HoldsLease(w, j) => job[j].status = ClaimedStatus(j)
         /\ ~HoldsLease(w, j) => /\ worker[w].current = j /\ worker[w].phase = "error"
                                 /\ job[j].status = Completed(j)
<1>1. j \in Jobs /\ worker[w] \in WorkerState
  BY Types DEF IInv, Typed, WorkerState
<1>2. worker[w].token \in Tokens
  BY <1>1 DEF IInv, WorkersCoherent, WorkerState
<1>3. \/ HoldsLease(w, j) /\ job[j].status = ClaimedStatus(j)
      \/ worker[w].current = j /\ worker[w].phase = "error" /\ job[j].status = Completed(j)
  BY DEF IInv, OwnedUnlessPublished
<1>4. job[j].status = Completed(j) => ~HoldsLease(w, j)
  BY <1>1, <1>2, StatusFacts, ConstantsOK DEF IInv, FinishedUnleased, Terminal, HoldsLease
<1>. QED
  BY <1>1, <1>2, <1>3, <1>4, StatusFacts

-----------------------------------------------------------------------------
(* Steps that leave the workers, and the rows in their hands, alone.         *)
LEMMA HandsOff ==
  ASSUME IInv, TypeOK', worker' = worker,
         \A j \in Jobs : InHand(j) => /\ job'[j].status = job[j].status
                                      /\ job'[j].lease_token = job[j].lease_token,
         \A j \in Jobs : job'[j].status \in Terminal => job'[j].lease_token = NoToken
  PROVE  IInv'
<1>1. WorkersCoherent' /\ TokensDistinct' /\ ExclusiveExecution'
  BY DEF IInv, WorkersCoherent, TokensDistinct, ExclusiveExecution
<1>2. OwnedUnlessPublished'
  <2> SUFFICES ASSUME NEW w \in Workers, NEW j \in worker[w].jobs
               PROVE  \/ HoldsLease(w, j)' /\ job'[j].status = ClaimedStatus(j)
                      \/ worker[w].current = j /\ worker[w].phase = "error" /\ job'[j].status = Completed(j)
    BY DEF OwnedUnlessPublished, ClaimedStatus, Completed
  <2>1. j \in Jobs /\ InHand(j)
    BY HandFacts DEF InHand
  <2>. QED
    BY <2>1 DEF IInv, OwnedUnlessPublished, HoldsLease
<1>3. FinishedUnleased'
  BY DEF FinishedUnleased
<1>. QED
  BY <1>1, <1>2, <1>3 DEF IInv

(* Steps of one worker that keep its batch: it goes on to a phase, on a job. *)
LEMMA PhaseMoves ==
  ASSUME IInv, TypeOK', job' = job, NEW w \in Workers,
         NEW r \in WorkerState, worker' = [worker EXCEPT ![w] = r],
         r.token = worker[w].token, r.jobs = worker[w].jobs,
         r.phase \in {"manifest", "error"}, r.current \in r.jobs,
         \A j \in r.jobs : HoldsLease(w, j) \/ (r.current = j /\ r.phase = "error")
  PROVE  IInv'
<1>1. /\ \A v \in Workers : worker'[v].token = worker[v].token /\ worker'[v].jobs = worker[v].jobs
      /\ \A v \in Workers : v # w => worker'[v] = worker[v]
      /\ worker'[w] = r
  BY Types DEF IInv, Typed
<1>2. WorkersCoherent' /\ TokensDistinct' /\ ExclusiveExecution' /\ FinishedUnleased'
  BY <1>1 DEF IInv, WorkersCoherent, TokensDistinct, ExclusiveExecution, FinishedUnleased
<1>3. OwnedUnlessPublished'
  <2> SUFFICES ASSUME NEW v \in Workers, NEW j \in worker[v].jobs
               PROVE  \/ HoldsLease(v, j)' /\ job[j].status = ClaimedStatus(j)
                      \/ worker'[v].current = j /\ worker'[v].phase = "error" /\ job[j].status = Completed(j)
    BY <1>1 DEF OwnedUnlessPublished, ClaimedStatus, Completed
  <2>1. HoldsLease(v, j)' <=> HoldsLease(v, j)
    BY <1>1 DEF HoldsLease
  <2>. QED
    BY <1>1, <2>1, HandFacts
<1>. QED
  BY <1>2, <1>3 DEF IInv

(* A worker leaves its job in hand, whose row may change, for the next one.  *)
LEMMA WorkerMovesOn ==
  ASSUME IInv, TypeOK', NEW w \in Workers, worker[w].phase \in {"manifest", "error"},
         worker' = [worker EXCEPT ![w] = NextJob(w)],
         \A j \in Jobs \ {worker[w].current} : job'[j] = job[j],
         job'[worker[w].current].status \in Terminal => job'[worker[w].current].lease_token = NoToken
  PROVE  IInv'
<1> DEFINE j == worker[w].current
<1>1. j \in worker[w].jobs /\ j \in Jobs /\ worker[w] \in WorkerState
  BY Types DEF IInv, Typed, WorkersCoherent, WorkerState
<1>2. /\ worker'[w] = NextJob(w)
      /\ \A v \in Workers : v # w => worker'[v] = worker[v]
  BY Types DEF IInv, Typed
<1>3. /\ NextJob(w).jobs = worker[w].jobs \ {j}
      /\ NextJob(w).token \in {NoToken, worker[w].token}
      /\ NextJob(w).token = NoToken => NextJob(w).jobs = {} /\ NextJob(w).phase = "idle"
      /\ NextJob(w).phase \in {"next", "idle"}
      /\ NextJob(w).phase = "next" => NextJob(w).current = NoJob /\ NextJob(w).token = worker[w].token
  <2>1. CASE worker[w].jobs = {j}
    BY <2>1 DEF NextJob, Idle
  <2>2. CASE worker[w].jobs # {j}
    <3>1. NextJob(w) = [worker[w] EXCEPT !.jobs = worker[w].jobs \ {j}, !.current = NoJob, !.phase = "next"]
      BY <2>2 DEF NextJob
    <3>2. worker[w].token # NoToken
      BY <1>1, HandFacts, ConstantsOK
    <3>. QED
      BY <1>1, <3>1, <3>2 DEF WorkerState
  <2>. QED
    BY <2>1, <2>2
<1>4. \A v \in Workers : v # w => j \notin worker[v].jobs
  BY <1>1 DEF IInv, ExclusiveExecution
<1>5. WorkersCoherent' /\ TokensDistinct' /\ ExclusiveExecution'
  BY <1>2, <1>3 DEF IInv, WorkersCoherent, TokensDistinct, ExclusiveExecution
<1>6. OwnedUnlessPublished'
  <2> SUFFICES ASSUME NEW v \in Workers, NEW i \in worker'[v].jobs
               PROVE  \/ HoldsLease(v, i)' /\ job'[i].status = ClaimedStatus(i)
                      \/ worker'[v].current = i /\ worker'[v].phase = "error" /\ job'[i].status = Completed(i)
    BY DEF OwnedUnlessPublished, ClaimedStatus, Completed
  <2>1. i \in worker[v].jobs /\ i # j
    BY <1>2, <1>3, <1>4
  <2>2. i \in Jobs /\ job'[i] = job[i]
    BY <2>1, HandFacts
  <2>3. CASE v # w
    BY <1>2, <2>1, <2>2, <2>3 DEF IInv, OwnedUnlessPublished, HoldsLease
  <2>4. CASE v = w
    <3>1. HoldsLease(w, i) /\ job[i].status = ClaimedStatus(i)
      BY <2>1, <2>4, HandFacts
    <3>2. worker'[w].token = worker[w].token
      BY <1>2, <1>3, <2>4
    <3>. QED
      BY <2>2, <2>4, <3>1, <3>2 DEF HoldsLease
  <2>. QED
    BY <2>3, <2>4
<1>7. FinishedUnleased'
  BY DEF IInv, FinishedUnleased
<1>. QED
  BY <1>5, <1>6, <1>7 DEF IInv

LEMMA NextJobType ==
  ASSUME TypeOK, NEW w \in Workers PROVE NextJob(w) \in WorkerState
<1>1. worker[w] \in WorkerState
  BY Types DEF Typed
<1>2. [worker[w] EXCEPT !.jobs = worker[w].jobs \ {worker[w].current}, !.current = NoJob, !.phase = "next"]
        \in WorkerState
  BY <1>1, WorkerUpdate DEF WorkerState
<1>. QED
  BY <1>2, IdleType DEF NextJob

-----------------------------------------------------------------------------
(* The tenant's requests: one row that no worker has, and one audit row.     *)
LEMMA RequestStep ==
  ASSUME IInv, NEW j \in Jobs, NEW r \in JobRow, NEW a \in Actions,
         job' = [job EXCEPT ![j] = r], audit' = [audit EXCEPT ![j] = Append(audit[j], a)],
         UNCHANGED <<artifacts, evidence, lapsed, worker, faults>>,
         ~InHand(j), r.status \in Terminal => r.lease_token = NoToken
  PROVE  IInv'
<1>1. TypeOK'
  <2>1. Append(audit[j], a) \in Seq(Actions)
    BY Types DEF IInv, Typed
  <2>. QED
    BY <2>1, Types DEF IInv, Typed
<1>2. \A i \in Jobs : IF i = j THEN job'[i] = r ELSE job'[i] = job[i]
  BY Types DEF IInv, Typed
<1>3. \A i \in Jobs : InHand(i) => i # j
  OBVIOUS
<1>4. \A i \in Jobs : job'[i].status \in Terminal => job'[i].lease_token = NoToken
  BY <1>2 DEF IInv, FinishedUnleased
<1>5. \A i \in Jobs : InHand(i) => job'[i].status = job[i].status /\ job'[i].lease_token = job[i].lease_token
  BY <1>2, <1>3
<1>. QED
  BY <1>1, <1>4, <1>5, HandsOff

(* A job with one of these statuses is in no worker's hands.                 *)
LEMMA NotInHand ==
  ASSUME IInv, NEW j \in Jobs,
         job[j].status \notin {"RUNNING", "PROCESSING", "COMPLETE", "COMPLETED"}
  PROVE  ~InHand(j)
  BY HandFacts DEF InHand

LEMMA RequestSteps ==
  ASSUME IInv, NEW j \in Jobs, RequestExport(j) \/ RequestDeletion(j) \/ LegalHold(j)
  PROVE  IInv'
<1>0. job[j] \in JobRow
  BY Types DEF IInv, Typed
<1>1. CASE RequestExport(j)
  <2> DEFINE r == [job[j] EXCEPT !.status = "QUEUED"]
  <2>1. /\ job[j].status = "ABSENT"
        /\ job' = [job EXCEPT ![j] = r]
        /\ audit' = [audit EXCEPT ![j] = Append(audit[j], "QUEUED")]
        /\ UNCHANGED <<artifacts, evidence, lapsed, worker, faults>>
    BY <1>1 DEF RequestExport
  <2>2. r \in JobRow /\ r.status = "QUEUED"
    <3>1. "QUEUED" \in Statuses
      BY DEF Statuses
    <3>2. r \in JobRow
      BY <1>0, <3>1, RowUpdate
    <3>. QED
      BY <1>0, <3>2 DEF JobRow
  <2>3. "QUEUED" \in Actions /\ ~InHand(j)
    BY <2>1, NotInHand DEF Actions
  <2>4. r.status \notin Terminal
    BY <2>2 DEF Terminal
  <2> HIDE DEF r
  <2>. QED
    BY <2>1, <2>2, <2>3, <2>4, RequestStep
<1>2. CASE RequestDeletion(j)
  <2> DEFINE r == [job[j] EXCEPT !.status = "REQUESTED"]
  <2>1. /\ job[j].status = "ABSENT"
        /\ job' = [job EXCEPT ![j] = r]
        /\ audit' = [audit EXCEPT ![j] = Append(audit[j], "REQUESTED")]
        /\ UNCHANGED <<artifacts, evidence, lapsed, worker, faults>>
    BY <1>2 DEF RequestDeletion
  <2>2. r \in JobRow /\ r.status = "REQUESTED"
    <3>1. "REQUESTED" \in Statuses
      BY DEF Statuses
    <3>2. r \in JobRow
      BY <1>0, <3>1, RowUpdate
    <3>. QED
      BY <1>0, <3>2 DEF JobRow
  <2>3. "REQUESTED" \in Actions /\ ~InHand(j)
    BY <2>1, NotInHand DEF Actions
  <2>4. r.status \notin Terminal
    BY <2>2 DEF Terminal
  <2> HIDE DEF r
  <2>. QED
    BY <2>1, <2>2, <2>3, <2>4, RequestStep
<1>3. CASE LegalHold(j)
  <2> DEFINE r == [job[j] EXCEPT !.status = "LEGAL_HOLD", !.lease_token = NoToken]
  <2>1. /\ job[j].status \in {"REQUESTED", "FAILED"}
        /\ job' = [job EXCEPT ![j] = r]
        /\ audit' = [audit EXCEPT ![j] = Append(audit[j], "LEGAL_HOLD")]
        /\ UNCHANGED <<artifacts, evidence, lapsed, worker, faults>>
    BY <1>3 DEF LegalHold, Holdable
  <2>2. r \in JobRow /\ r.lease_token = NoToken
    <3>1. "LEGAL_HOLD" \in Statuses /\ NoToken \in Tokens \cup {NoToken}
      BY DEF Statuses
    <3>2. r \in JobRow
      BY <1>0, <3>1, RowUpdate
    <3>. QED
      BY <1>0, <3>2 DEF JobRow
  <2>3. "LEGAL_HOLD" \in Actions /\ ~InHand(j)
    BY <2>1, NotInHand DEF Actions
  <2> HIDE DEF r
  <2>. QED
    BY <2>1, <2>2, <2>3, RequestStep
<1>. QED
  BY <1>1, <1>2, <1>3

(* Time: evidence, leases that lapse, retries that become due.               *)
LEMMA TimeSteps ==
  ASSUME IInv, \/ \E j \in Jobs : RecordEvidence(j) \/ BecomesDue(j)
               \/ \E t \in Tokens : LeaseLapses(t)
  PROVE  IInv'
<1>1. CASE \E j \in Jobs : BecomesDue(j)
  <2>1. PICK j \in Jobs : BecomesDue(j)
    BY <1>1
  <2>2. job' = [job EXCEPT ![j] = [job[j] EXCEPT !.due = TRUE]]
    BY <2>1 DEF BecomesDue
  <2>3. [job[j] EXCEPT !.due = TRUE] \in JobRow
    BY RowUpdate, Types DEF IInv, Typed
  <2>4. TypeOK'
    BY <2>1, <2>2, <2>3, Types DEF IInv, Typed, BecomesDue
  <2>5. \A i \in Jobs : job'[i].status = job[i].status /\ job'[i].lease_token = job[i].lease_token
    BY <2>2, Types DEF IInv, Typed, JobRow
  <2>. QED
    BY <2>1, <2>4, <2>5, HandsOff DEF BecomesDue, IInv, FinishedUnleased
<1>2. CASE \/ \E j \in Jobs : RecordEvidence(j)
           \/ \E t \in Tokens : LeaseLapses(t)
  <2>1. TypeOK' /\ worker' = worker /\ job' = job
    BY <1>2, Types DEF IInv, Typed, RecordEvidence, LeaseLapses
  <2>. QED
    BY <2>1, HandsOff DEF IInv, FinishedUnleased
<1>. QED
  BY <1>1, <1>2

-----------------------------------------------------------------------------
(* A claim takes jobs no worker has, under a token nobody uses.              *)
LEMMA ClaimStep ==
  ASSUME IInv, NEW w \in Workers, NEW batch \in SUBSET Jobs, NEW t \in Tokens, Claim(w, batch, t)
  PROVE  IInv'
<1> DEFINE counts == [j \in Jobs |-> IF j \in batch THEN job[j].attempt_count ELSE 0]
           hand == [Idle EXCEPT !.token = t, !.jobs = batch, !.phase = "next", !.counts = counts]
           row(j) == [job[j] EXCEPT !.status = ClaimedStatus(j), !.lease_token = t]
<1>1. /\ worker[w].token = NoToken
      /\ \A j \in batch : job[j].status \in {"QUEUED", "REQUESTED", "FAILED"}
      /\ \A v \in Workers : worker[v].token # t
      /\ job' = [j \in Jobs |-> IF j \in batch THEN row(j) ELSE job[j]]
      /\ lapsed' = (lapsed \cap TokensInUse) \ {t}
      /\ worker' = [worker EXCEPT ![w] = hand]
      /\ UNCHANGED <<audit, artifacts, evidence, faults>>
  BY DEF Claim, Claimable, FreshTokens, TokensInUse
<1>2. /\ job \in [Jobs -> JobRow] /\ worker \in [Workers -> WorkerState]
      /\ t # NoToken
  BY Types, ConstantsOK DEF IInv, Typed
<1>3. /\ hand \in WorkerState
      /\ hand.token = t /\ hand.jobs = batch /\ hand.phase = "next" /\ hand.current = NoJob
  <2>1. counts \in [Jobs -> Nat]
    BY <1>2 DEF JobRow
  <2> HIDE DEF counts
  <2>. QED
    BY <2>1 DEF WorkerState, Idle
<1>4. \A j \in batch : row(j) \in JobRow /\ row(j).status = ClaimedStatus(j) /\ row(j).lease_token = t
  <2> SUFFICES ASSUME NEW j \in batch
               PROVE  row(j) \in JobRow /\ row(j).status = ClaimedStatus(j) /\ row(j).lease_token = t
    OBVIOUS
  <2>1. ClaimedStatus(j) \in Statuses /\ job[j] \in JobRow
    BY <1>2, StatusFacts DEF Statuses
  <2>2. row(j) \in JobRow
    BY <2>1, RowUpdate
  <2>. QED
    BY <2>1, <2>2 DEF JobRow
<1> HIDE DEF counts, hand, row
<1>5. /\ \A j \in batch : job'[j] = row(j)
      /\ \A j \in Jobs \ batch : job'[j] = job[j]
      /\ worker'[w] = hand
      /\ \A v \in Workers : v # w => worker'[v] = worker[v]
  BY <1>1, <1>2
<1>6. TypeOK'
  <2>1. job' \in [Jobs -> JobRow]
    BY <1>1, <1>2, <1>4
  <2>2. worker' \in [Workers -> WorkerState]
    BY <1>1, <1>2, <1>3
  <2>. QED
    BY <1>1, <2>1, <2>2, Types DEF IInv, Typed
<1>7. \A j \in batch : ~InHand(j)
  BY <1>1, NotInHand
<1>8. WorkersCoherent' /\ TokensDistinct'
  BY <1>1, <1>2, <1>3, <1>5 DEF IInv, WorkersCoherent, TokensDistinct
<1>9. ExclusiveExecution'
  BY <1>3, <1>5, <1>7 DEF IInv, ExclusiveExecution, InHand
<1>10. FinishedUnleased'
  <2>1. \A j \in batch : ClaimedStatus(j) \notin Terminal
    BY StatusFacts DEF Terminal
  <2>. QED
    BY <1>4, <1>5, <2>1 DEF IInv, FinishedUnleased
<1>11. OwnedUnlessPublished'
  <2> SUFFICES ASSUME NEW v \in Workers, NEW j \in worker'[v].jobs
               PROVE  \/ HoldsLease(v, j)' /\ job'[j].status = ClaimedStatus(j)
                      \/ worker'[v].current = j /\ worker'[v].phase = "error" /\ job'[j].status = Completed(j)
    BY DEF OwnedUnlessPublished, ClaimedStatus, Completed
  <2>1. CASE v = w
    BY <1>3, <1>4, <1>5, <2>1 DEF HoldsLease
  <2>2. CASE v # w
    <3>1. j \in worker[v].jobs /\ j \in Jobs
      BY <1>5, <2>2, HandFacts
    <3>2. j \notin batch
      BY <1>7, <3>1 DEF InHand
    <3>. QED
      BY <1>5, <2>2, <3>1, <3>2 DEF IInv, OwnedUnlessPublished, HoldsLease
  <2>. QED
    BY <2>1, <2>2
<1>. QED
  BY <1>6, <1>8, <1>9, <1>10, <1>11 DEF IInv

(* The first transaction of a job: its worker goes on to it.                 *)
LEMMA ExecuteStep ==
  ASSUME IInv, NEW w \in Workers, NEW j \in Jobs, NEW ok \in BOOLEAN, Execute(w, j, ok)
  PROVE  IInv'
<1> DEFINE phase == IF ok THEN "manifest" ELSE "error"
           r == [worker[w] EXCEPT !.current = j, !.phase = phase]
<1>1. /\ worker[w].phase = "next" /\ j \in worker[w].jobs
      /\ worker' = [worker EXCEPT ![w] = r]
      /\ UNCHANGED <<job, audit, artifacts, evidence, lapsed, faults>>
  BY DEF Execute
<1>2. worker \in [Workers -> WorkerState] /\ phase \in {"manifest", "error"}
  BY Types DEF IInv, Typed
<1> HIDE DEF phase
<1>3. r \in WorkerState
  BY <1>2, WorkerUpdate
<1>4. r.token = worker[w].token /\ r.jobs = worker[w].jobs /\ r.current = j /\ r.phase = phase
  BY <1>2, <1>3 DEF WorkerState
<1> HIDE DEF r
<1>5. TypeOK'
  BY <1>1, <1>2, <1>3, Types DEF IInv, Typed
<1>6. \A i \in worker[w].jobs : HoldsLease(w, i)
  BY <1>1, HandFacts
<1>. QED
  <2>1. r.phase \in {"manifest", "error"} /\ r.current \in r.jobs
    BY <1>1, <1>2, <1>4
  <2>2. job' = job /\ \A i \in r.jobs : HoldsLease(w, i)
    BY <1>1, <1>4, <1>6
  <2>3. /\ worker' = [worker EXCEPT ![w] = r]
        /\ r.token = worker[w].token /\ r.jobs = worker[w].jobs
    BY <1>1, <1>4
  <2>. QED
    BY <1>3, <1>5, <2>1, <2>2, <2>3, PhaseMoves

(* The second transaction rolls back.                                        *)
LEMMA PublishThrowsStep ==
  ASSUME IInv, NEW w \in Workers, PublishThrows(w)
  PROVE  IInv'
<1> DEFINE r == [worker[w] EXCEPT !.phase = "error"]
<1>1. /\ worker[w].phase = "manifest"
      /\ worker' = [worker EXCEPT ![w] = r]
      /\ UNCHANGED <<job, audit, artifacts, evidence, lapsed, faults>>
  BY DEF PublishThrows
<1>2. worker \in [Workers -> WorkerState]
  BY Types DEF IInv, Typed
<1>3. r \in WorkerState
  BY <1>2, WorkerUpdate
<1>4. r.token = worker[w].token /\ r.jobs = worker[w].jobs /\ r.current = worker[w].current /\ r.phase = "error"
  BY <1>2, <1>3 DEF WorkerState
<1> HIDE DEF r
<1>5. TypeOK'
  BY <1>1, <1>2, <1>3, Types DEF IInv, Typed
<1>6. \A i \in worker[w].jobs : HoldsLease(w, i)
  BY <1>1, HandFacts
<1>7. r.current \in r.jobs
  BY <1>1, <1>4 DEF IInv, WorkersCoherent
<1>. QED
  BY <1>1, <1>3, <1>4, <1>5, <1>6, <1>7, PhaseMoves

-----------------------------------------------------------------------------
(* What a commit does to the rows.                                           *)
LEMMA CommitFacts ==
  ASSUME IInv, NEW j \in Jobs, PublishAtomically(j)
  PROVE  /\ job' \in [Jobs -> JobRow]
         /\ audit' \in [Jobs -> Seq(Actions)]
         /\ artifacts' \subseteq Exports
         /\ job'[j].status = Completed(j) /\ job'[j].lease_token = NoToken
         /\ \A i \in Jobs \ {j} : job'[i] = job[i]
<1> DEFINE r == [job[j] EXCEPT !.status = Completed(j), !.lease_token = NoToken]
<1>1. /\ job' = [job EXCEPT ![j] = r]
      /\ audit' = [audit EXCEPT ![j] = Append(audit[j], "COMPLETED")]
      /\ artifacts' = IF j \in Exports THEN artifacts \cup {j} ELSE artifacts
  BY DEF PublishAtomically
<1>2. /\ job \in [Jobs -> JobRow] /\ audit \in [Jobs -> Seq(Actions)] /\ artifacts \subseteq Exports
  BY Types DEF IInv, Typed
<1>3. Completed(j) \in Statuses /\ "COMPLETED" \in Actions
  BY DEF Completed, Statuses, Actions
<1>4. r \in JobRow
  BY <1>2, <1>3, RowUpdate
<1>5. r.status = Completed(j) /\ r.lease_token = NoToken
  BY <1>2, <1>4 DEF JobRow
<1> HIDE DEF r
<1>6. Append(audit[j], "COMPLETED") \in Seq(Actions)
  BY <1>2, <1>3
<1>. QED
  BY <1>1, <1>2, <1>4, <1>5, <1>6

(* The second transaction publishes.                                         *)
LEMMA PublishStep ==
  ASSUME IInv, NEW w \in Workers, Publish(w)
  PROVE  IInv'
<1> DEFINE j == worker[w].current
<1>1. /\ worker[w].phase = "manifest"
      /\ PublishAtomically(j)
      /\ worker' = [worker EXCEPT ![w] = NextJob(w)]
      /\ UNCHANGED <<evidence, lapsed, faults>>
  BY DEF Publish
<1>2. j \in worker[w].jobs /\ j \in Jobs
  BY <1>1, HandFacts DEF IInv, WorkersCoherent
<1>3. /\ job' \in [Jobs -> JobRow]
      /\ audit' \in [Jobs -> Seq(Actions)]
      /\ artifacts' \subseteq Exports
      /\ job'[j].status = Completed(j) /\ job'[j].lease_token = NoToken
      /\ \A i \in Jobs \ {j} : job'[i] = job[i]
  BY <1>1, <1>2, CommitFacts
<1>4. TypeOK'
  BY <1>1, <1>3, NextJobType, Types DEF IInv, Typed
<1>. QED
  BY <1>1, <1>3, <1>4, WorkerMovesOn

(* The commit happens, its worker does not know: it keeps the job in hand.   *)
LEMMA PublishReplyLostStep ==
  ASSUME IInv, NEW w \in Workers, PublishReplyLost(w)
  PROVE  IInv'
<1> DEFINE j == worker[w].current
           r == [worker[w] EXCEPT !.phase = "error"]
<1>1. /\ worker[w].phase = "manifest"
      /\ PublishAtomically(j)
      /\ worker' = [worker EXCEPT ![w] = r]
      /\ faults < MaxFaults /\ faults' = faults + 1
      /\ UNCHANGED <<evidence, lapsed>>
  BY DEF PublishReplyLost
<1>2. /\ j \in worker[w].jobs /\ j \in Jobs
      /\ worker \in [Workers -> WorkerState] /\ faults \in 0..MaxFaults
  BY <1>1, HandFacts, Types DEF IInv, Typed, WorkersCoherent
<1>3. /\ job' \in [Jobs -> JobRow]
      /\ audit' \in [Jobs -> Seq(Actions)]
      /\ artifacts' \subseteq Exports
      /\ job'[j].status = Completed(j) /\ job'[j].lease_token = NoToken
      /\ \A i \in Jobs \ {j} : job'[i] = job[i]
  BY <1>1, <1>2, CommitFacts
<1>4. r \in WorkerState
  BY <1>2, WorkerUpdate
<1>5. r.token = worker[w].token /\ r.jobs = worker[w].jobs /\ r.current = j /\ r.phase = "error"
  BY <1>2, <1>4 DEF WorkerState
<1> HIDE DEF r
<1>6. faults' \in 0..MaxFaults
  BY <1>1, <1>2, ConstantsOK
<1>7. TypeOK'
  BY <1>1, <1>2, <1>3, <1>4, <1>6, Types DEF IInv, Typed
<1>8. /\ \A v \in Workers : worker'[v].token = worker[v].token /\ worker'[v].jobs = worker[v].jobs
      /\ \A v \in Workers : v # w => worker'[v] = worker[v]
      /\ worker'[w] = r
  BY <1>1, <1>2, <1>5
<1>9. WorkersCoherent' /\ TokensDistinct' /\ ExclusiveExecution'
  BY <1>1, <1>2, <1>5, <1>8 DEF IInv, WorkersCoherent, TokensDistinct, ExclusiveExecution
<1>10. FinishedUnleased'
  BY <1>3 DEF IInv, FinishedUnleased
<1>11. OwnedUnlessPublished'
  <2> SUFFICES ASSUME NEW v \in Workers, NEW i \in worker[v].jobs
               PROVE  \/ HoldsLease(v, i)' /\ job'[i].status = ClaimedStatus(i)
                      \/ worker'[v].current = i /\ worker'[v].phase = "error" /\ job'[i].status = Completed(i)
    BY <1>8 DEF OwnedUnlessPublished, ClaimedStatus, Completed
  <2>1. i \in Jobs
    BY HandFacts
  <2>2. CASE i = j
    <3>1. v = w
      BY <1>2, <2>2 DEF IInv, ExclusiveExecution
    <3>. QED
      BY <1>3, <1>5, <1>8, <2>2, <3>1
  <2>3. CASE i # j
    <3>1. job'[i] = job[i] /\ (HoldsLease(v, i)' <=> HoldsLease(v, i))
      BY <1>3, <1>8, <2>1, <2>3 DEF HoldsLease
    <3>2. CASE v = w
      BY <1>1, <2>3, <3>1, <3>2, HandFacts
    <3>3. CASE v # w
      BY <1>8, <3>1, <3>3 DEF IInv, OwnedUnlessPublished
    <3>. QED
      BY <3>2, <3>3
  <2>. QED
    BY <2>2, <2>3
<1>. QED
  BY <1>7, <1>9, <1>10, <1>11 DEF IInv

(* fail.                                                                     *)
LEMMA FailStep ==
  ASSUME IInv, NEW w \in Workers, Fail(w)
  PROVE  IInv'
<1> DEFINE j == worker[w].current
           n == worker[w].counts[j] + 1
<1>1. /\ worker[w].phase = "error"
      /\ job' = [job EXCEPT ![j] = FailRow(w, j, n)]
      /\ audit' = [audit EXCEPT ![j] = audit[j] \o FailAudit(w, j, n)]
      /\ worker' = [worker EXCEPT ![w] = NextJob(w)]
      /\ UNCHANGED <<artifacts, evidence, lapsed, faults>>
  BY DEF Fail
<1>2. /\ j \in worker[w].jobs /\ j \in Jobs
      /\ job \in [Jobs -> JobRow] /\ audit \in [Jobs -> Seq(Actions)]
      /\ worker[w] \in WorkerState
  BY <1>1, HandFacts, Types DEF IInv, Typed, WorkersCoherent
<1>3. n \in Nat
  BY <1>2 DEF WorkerState
<1> HIDE DEF n
<1>4. FailedStatus(n) \in {"DEAD", "FAILED"}
  BY DEF FailedStatus
<1>5. /\ FailRow(w, j, n) \in JobRow
      /\ FailRow(w, j, n).status \in Terminal => FailRow(w, j, n).lease_token = NoToken
  <2>1. CASE HoldsLease(w, j)
    <3> DEFINE r == [job[j] EXCEPT !.status = FailedStatus(n), !.attempt_count = n, !.due = FALSE, !.lease_token = NoToken]
    <3>1. r \in JobRow
      BY <1>2, <1>3, <1>4, RowUpdate DEF Statuses
    <3>2. r.lease_token = NoToken
      BY <1>2, <3>1 DEF JobRow
    <3>3. FailRow(w, j, n) = r
      BY <2>1 DEF FailRow
    <3> HIDE DEF r
    <3>. QED
      BY <3>1, <3>2, <3>3
  <2>2. CASE ~HoldsLease(w, j)
    BY <1>2, <2>2 DEF FailRow, IInv, FinishedUnleased
  <2>. QED
    BY <2>1, <2>2
<1>6. audit[j] \o FailAudit(w, j, n) \in Seq(Actions)
  <2>1. FailAudit(w, j, n) \in Seq(Actions)
    BY <1>4 DEF FailAudit, Actions
  <2>2. audit[j] \in Seq(Actions)
    BY <1>2
  <2>. QED
    BY <2>1, <2>2
<1>7. TypeOK'
  <2>1. audit' \in [Jobs -> Seq(Actions)]
    BY <1>1, <1>2, <1>6
  <2>2. job' \in [Jobs -> JobRow]
    BY <1>1, <1>2, <1>5
  <2>3. worker' \in [Workers -> WorkerState]
    BY <1>1, NextJobType, Types DEF IInv, Typed
  <2>. QED
    BY <1>1, <2>1, <2>2, <2>3, Types DEF IInv, Typed
<1>8. /\ \A i \in Jobs \ {j} : job'[i] = job[i]
      /\ job'[j].status \in Terminal => job'[j].lease_token = NoToken
  BY <1>1, <1>2, <1>5
<1>. QED
  BY <1>1, <1>7, <1>8, WorkerMovesOn

(* A worker dies: nothing else moves.                                        *)
LEMMA CrashStep ==
  ASSUME IInv, NEW w \in Workers, Crash(w)
  PROVE  IInv'
<1>1. /\ worker' = [worker EXCEPT ![w] = Idle]
      /\ faults < MaxFaults /\ faults' = faults + 1
      /\ UNCHANGED <<job, audit, artifacts, evidence, lapsed>>
  BY DEF Crash
<1>2. worker \in [Workers -> WorkerState] /\ faults \in 0..MaxFaults
  BY Types DEF IInv, Typed
<1>3. TypeOK'
  <2>1. faults' \in 0..MaxFaults
    BY <1>1, <1>2, ConstantsOK
  <2>. QED
    BY <1>1, <1>2, <2>1, IdleType, Types DEF IInv, Typed
<1>4. /\ \A v \in Workers : v # w => worker'[v] = worker[v]
      /\ worker'[w].token = NoToken /\ worker'[w].jobs = {} /\ worker'[w].phase = "idle"
  BY <1>1, <1>2 DEF Idle
<1>5. WorkersCoherent' /\ TokensDistinct' /\ ExclusiveExecution' /\ FinishedUnleased'
  BY <1>1, <1>4 DEF IInv, WorkersCoherent, TokensDistinct, ExclusiveExecution, FinishedUnleased
<1>6. OwnedUnlessPublished'
  BY <1>1, <1>4 DEF IInv, OwnedUnlessPublished, HoldsLease, ClaimedStatus, Completed
<1>. QED
  BY <1>3, <1>5, <1>6 DEF IInv

-----------------------------------------------------------------------------
LEMMA Initially == Init => IInv
<1> SUFFICES ASSUME Init PROVE IInv
  OBVIOUS
<1>1. /\ job = [j \in Jobs |-> [status |-> "ABSENT", attempt_count |-> 0, lease_token |-> NoToken, due |-> TRUE]]
      /\ audit = [j \in Jobs |-> <<>>]
      /\ artifacts = {} /\ evidence = {} /\ lapsed = {} /\ faults = 0
      /\ worker = [w \in Workers |-> Idle]
  BY DEF Init
<1>2. TypeOK
  <2>1. job \in [Jobs -> JobRow]
    BY <1>1 DEF JobRow, Statuses
  <2>. QED
    <3>1. audit \in [Jobs -> Seq(Actions)] /\ faults \in 0..MaxFaults
      BY <1>1, ConstantsOK
    <3>2. worker \in [Workers -> WorkerState]
      BY <1>1, IdleType
    <3>. QED
      BY <1>1, <2>1, <3>1, <3>2, Types DEF Typed
<1>3. /\ \A w \in Workers : worker[w].token = NoToken /\ worker[w].jobs = {} /\ worker[w].phase = "idle"
      /\ \A j \in Jobs : job[j].lease_token = NoToken
  BY <1>1 DEF Idle
<1>. QED
  BY <1>2, <1>3 DEF IInv, WorkersCoherent, TokensDistinct, FinishedUnleased,
                    ExclusiveExecution, OwnedUnlessPublished

LEMMA Inductive == IInv /\ [Next]_vars => IInv'
<1> SUFFICES ASSUME IInv, [Next]_vars PROVE IInv'
  OBVIOUS
<1>1. CASE UNCHANGED vars
  <2>1. TypeOK'
    BY <1>1, Types DEF IInv, Typed, vars
  <2>. QED
    BY <1>1, <2>1, HandsOff DEF IInv, FinishedUnleased, vars
<1>2. CASE \E j \in Jobs : RequestExport(j) \/ RequestDeletion(j) \/ LegalHold(j)
  BY <1>2, RequestSteps
<1>3. CASE \/ \E j \in Jobs : RecordEvidence(j) \/ BecomesDue(j)
           \/ \E t \in Tokens : LeaseLapses(t)
  BY <1>3, TimeSteps
<1>4. CASE \E w \in Workers, batch \in SUBSET Jobs, t \in Tokens : Claim(w, batch, t)
  BY <1>4, ClaimStep
<1>5. CASE \E w \in Workers, j \in Jobs, ok \in BOOLEAN : Execute(w, j, ok)
  BY <1>5, ExecuteStep
<1>6. CASE \E w \in Workers : \/ Publish(w) \/ PublishReplyLost(w) \/ PublishThrows(w)
                              \/ Fail(w) \/ Crash(w)
  BY <1>6, PublishStep, PublishReplyLostStep, PublishThrowsStep, FailStep, CrashStep
<1>. QED
  BY <1>1, <1>2, <1>3, <1>4, <1>5, <1>6 DEF Next

-----------------------------------------------------------------------------
(* Every reachable state satisfies the inductive invariant.                  *)
THEOREM Invariance == Spec => []IInv
  BY Initially, Inductive, PTL DEF Spec

(* Columns and worker fields keep their domains.                             *)
THEOREM TypeCorrect == Spec => []TypeOK
<1>1. IInv => TypeOK
  BY DEF IInv
<1>. QED
  BY <1>1, Invariance, PTL

(* A job is never in two workers' hands, whatever leases lapse and whoever   *)
(* crashes (privacy-execution.ts:7-9 and the claim functions).               *)
THEOREM Exclusive == Spec => []ExclusiveExecution
<1>1. IInv => ExclusiveExecution
  BY DEF IInv
<1>. QED
  BY <1>1, Invariance, PTL

(* fail() finds no row only for a job whose completion was committed.        *)
THEOREM Owned == Spec => []OwnedUnlessPublished
<1>1. IInv => OwnedUnlessPublished
  BY DEF IInv
<1>. QED
  BY <1>1, Invariance, PTL

-----------------------------------------------------------------------------
(* Outcomes.                                                                 *)
LEMMA OutcomeStep ==
  ASSUME IInv, [Next]_vars, NEW j \in Jobs, job[j].status \in Terminal
  PROVE  job'[j].status = job[j].status
<1>0. job \in [Jobs -> JobRow]
  BY Types DEF IInv, Typed
<1>1. CASE UNCHANGED job
  BY <1>1
<1>2. ASSUME NEW k \in Jobs, RequestExport(k) \/ RequestDeletion(k) \/ LegalHold(k) \/ BecomesDue(k)
      PROVE  job'[j].status = job[j].status
  <2>1. CASE RequestExport(k)
    BY <1>0, <2>1 DEF RequestExport, Terminal, JobRow
  <2>2. CASE RequestDeletion(k)
    BY <1>0, <2>2 DEF RequestDeletion, Terminal, JobRow
  <2>3. CASE LegalHold(k)
    BY <1>0, <2>3 DEF LegalHold, Holdable, Terminal, JobRow
  <2>4. CASE BecomesDue(k)
    BY <1>0, <2>4 DEF BecomesDue, JobRow
  <2>. QED
    BY <1>2, <2>1, <2>2, <2>3, <2>4
<1>3. ASSUME NEW w \in Workers, NEW batch \in SUBSET Jobs, NEW t \in Tokens, Claim(w, batch, t)
      PROVE  job'[j].status = job[j].status
  <2>1. j \notin batch
    BY <1>3 DEF Claim, Claimable, Terminal
  <2>. QED
    BY <1>3, <2>1 DEF Claim
<1>4. ASSUME NEW w \in Workers, Publish(w) \/ PublishReplyLost(w)
      PROVE  job'[j].status = job[j].status
  <2> DEFINE k == worker[w].current
  <2>1. PublishesRow(w, k) /\ PublishAtomically(k)
    BY <1>4 DEF Publish, PublishReplyLost
  <2>2. worker[w].phase = "manifest"
    BY <1>4 DEF Publish, PublishReplyLost
  <2>3. k \in Jobs
    BY <2>2, HandFacts DEF IInv, WorkersCoherent
  <2>4. k # j
    BY <2>1, <2>3, StatusFacts DEF PublishesRow, Terminal
  <2>. QED
    BY <2>1, <2>3, <2>4, CommitFacts
<1>5. ASSUME NEW w \in Workers, Fail(w)
      PROVE  job'[j].status = job[j].status
  <2> DEFINE k == worker[w].current
             n == worker[w].counts[k] + 1
  <2>1. worker[w].phase = "error" /\ job' = [job EXCEPT ![k] = FailRow(w, k, n)]
    BY <1>5 DEF Fail
  <2>2. k \in worker[w].jobs /\ k \in Jobs
    BY <2>1, HandFacts DEF IInv, WorkersCoherent
  <2> HIDE DEF n
  <2>3. CASE HoldsLease(w, k)
    <3>1. k # j
      BY <2>2, <2>3, HandFacts, StatusFacts DEF Terminal
    <3>. QED
      BY <1>0, <2>1, <3>1
  <2>4. CASE ~HoldsLease(w, k)
    BY <1>0, <2>1, <2>4 DEF FailRow
  <2>. QED
    BY <2>3, <2>4
<1>6. ASSUME \/ \E k \in Jobs : RecordEvidence(k)
             \/ \E w \in Workers, k \in Jobs, ok \in BOOLEAN : Execute(w, k, ok)
             \/ \E w \in Workers : PublishThrows(w) \/ Crash(w)
             \/ \E t \in Tokens : LeaseLapses(t)
             \/ UNCHANGED vars
      PROVE  job' = job
  BY <1>6 DEF RecordEvidence, Execute, PublishThrows, Crash, LeaseLapses, vars
<1>. QED
  BY <1>1, <1>2, <1>3, <1>4, <1>5, <1>6 DEF Next

(* No late fail(), claim or hold moves a job out of COMPLETE, COMPLETED,     *)
(* DEAD or LEGAL_HOLD.                                                       *)
THEOREM Final == Spec => OutcomeIsFinal
<1>1. IInv /\ [Next]_vars => [\A j \in Jobs : job[j].status \in Terminal => job'[j].status = job[j].status]_vars
  BY OutcomeStep
<1>. QED
  BY <1>1, Invariance, PTL DEF Spec, OutcomeIsFinal

-----------------------------------------------------------------------------
(* The audit trail.  Its invariant also says what the trail does not hold.   *)
Times(s, a) == Cardinality({i \in DOMAIN s : s[i] = a})

CountsCurrent ==
  \A w \in Workers : \A j \in worker[w].jobs :
    HoldsLease(w, j) => worker[w].counts[j] = job[j].attempt_count

TrailOf(j, r, s) ==
  /\ r.attempt_count <= Times(s, "FAILED") + Times(s, "DEAD")
  /\ Times(s, "COMPLETED") = IF r.status = Completed(j) THEN 1 ELSE 0
  /\ Times(s, "LEGAL_HOLD") = IF r.status = "LEGAL_HOLD" THEN 1 ELSE 0
  /\ r.status = "DEAD" => Times(s, "DEAD") = 1
  /\ r.status \notin {"DEAD", Completed(j)} => Times(s, "DEAD") = 0

Trail == \A j \in Jobs : TrailOf(j, job[j], audit[j])

LEMMA TimesAppend ==
  ASSUME NEW s \in Seq(Actions), NEW a \in Actions, NEW b \in Actions
  PROVE  /\ Times(s, b) \in Nat
         /\ Times(Append(s, a), b) = Times(s, b) + IF a = b THEN 1 ELSE 0
<1> DEFINE S == {i \in DOMAIN s : s[i] = b}
           T == {i \in DOMAIN Append(s, a) : Append(s, a)[i] = b}
<1>1. DOMAIN s = 1..Len(s) /\ Len(s) \in Nat
  OBVIOUS
<1>2. IsFiniteSet(S) /\ Cardinality(S) \in Nat
  <2>1. IsFiniteSet(1..Len(s))
    BY <1>1, FS_Interval
  <2>. QED
    BY <1>1, <2>1, FS_Subset, FS_CardinalityType
<1>3. T = IF a = b THEN S \cup {Len(s) + 1} ELSE S
  <2>1. /\ DOMAIN Append(s, a) = 1..(Len(s) + 1)
        /\ \A i \in 1..(Len(s) + 1) : Append(s, a)[i] = IF i = Len(s) + 1 THEN a ELSE s[i]
    BY <1>1
  <2>. QED
    BY <1>1, <2>1
<1>4. Len(s) + 1 \notin S
  BY <1>1
<1>5. Cardinality(S \cup {Len(s) + 1}) = Cardinality(S) + 1
  BY <1>2, <1>4, FS_AddElement
<1>. QED
  <2>1. Times(s, b) = Cardinality(S) /\ Times(Append(s, a), b) = Cardinality(T)
    BY DEF Times
  <2> HIDE DEF S, T
  <2>2. CASE a = b
    BY <1>2, <1>3, <1>5, <2>1, <2>2
  <2>3. CASE a # b
    BY <1>2, <1>3, <2>1, <2>3
  <2>. QED
    BY <2>2, <2>3

(* An audited transition of a row: the trail says what the new row says.     *)
LEMMA TrailAppend ==
  ASSUME NEW j \in Jobs, NEW r \in JobRow, NEW q \in JobRow, NEW s \in Seq(Actions), NEW a \in Actions,
         TrailOf(j, r, s),
         \/ /\ r.status = "ABSENT" /\ a \in {"QUEUED", "REQUESTED"}
            /\ q.status = a /\ q.attempt_count = r.attempt_count
         \/ /\ r.status \in {"REQUESTED", "FAILED"} /\ a = "LEGAL_HOLD"
            /\ q.status = "LEGAL_HOLD" /\ q.attempt_count = r.attempt_count
         \/ /\ r.status = ClaimedStatus(j) /\ a = "COMPLETED"
            /\ q.status = Completed(j) /\ q.attempt_count = r.attempt_count
         \/ /\ r.status = ClaimedStatus(j) /\ a \in {"FAILED", "DEAD"}
            /\ q.status = a /\ q.attempt_count = r.attempt_count + 1
         \/ /\ r.status = Completed(j) /\ a \in {"FAILED", "DEAD"}
            /\ q.status = r.status /\ q.attempt_count = r.attempt_count
  PROVE  TrailOf(j, q, Append(s, a))
<1>1. /\ ClaimedStatus(j) \in {"RUNNING", "PROCESSING"}
      /\ Completed(j) \in {"COMPLETE", "COMPLETED"}
  BY StatusFacts
<1>2. r.attempt_count \in Nat /\ q.attempt_count \in Nat
  BY DEF JobRow
<1>3. \A b \in Actions : /\ Times(s, b) \in Nat
                          /\ Times(Append(s, a), b) = Times(s, b) + IF a = b THEN 1 ELSE 0
  BY TimesAppend
<1>4. {"FAILED", "DEAD", "COMPLETED", "LEGAL_HOLD", "QUEUED", "REQUESTED"} \subseteq Actions
  BY DEF Actions
<1>5. CASE r.status = "ABSENT"
  BY <1>1, <1>2, <1>3, <1>4, <1>5 DEF TrailOf
<1>6. CASE r.status \in {"REQUESTED", "FAILED"}
  BY SMTT(30), <1>1, <1>2, <1>3, <1>4, <1>6 DEF TrailOf
<1>7. CASE r.status = ClaimedStatus(j)
  <2>1. CASE a = "COMPLETED"
    BY <1>1, <1>2, <1>3, <1>4, <1>7, <2>1 DEF TrailOf
  <2>2. CASE a = "FAILED"
    BY SMTT(30), <1>1, <1>2, <1>3, <1>4, <1>7, <2>2 DEF TrailOf
  <2>3. CASE a = "DEAD"
    <3>1. /\ q.status = "DEAD" /\ q.attempt_count = r.attempt_count + 1
          /\ r.status \notin {"DEAD", "LEGAL_HOLD", Completed(j)}
      BY <1>1, <1>7, <2>3
    <3>2. /\ Times(Append(s, a), "FAILED") = Times(s, "FAILED")
          /\ Times(Append(s, a), "DEAD") = Times(s, "DEAD") + 1
          /\ Times(Append(s, a), "COMPLETED") = Times(s, "COMPLETED")
          /\ Times(Append(s, a), "LEGAL_HOLD") = Times(s, "LEGAL_HOLD")
          /\ Times(s, "FAILED") \in Nat /\ Times(s, "DEAD") \in Nat
      BY <1>3, <1>4, <2>3
    <3>3. /\ r.attempt_count <= Times(s, "FAILED") + Times(s, "DEAD") /\ Times(s, "DEAD") = 0
          /\ Times(s, "COMPLETED") = 0 /\ Times(s, "LEGAL_HOLD") = 0
      BY <3>1 DEF TrailOf
    <3>. QED
      BY <1>1, <1>2, <3>1, <3>2, <3>3 DEF TrailOf
  <2>. QED
    BY <1>1, <1>7, <2>1, <2>2, <2>3
<1>8. CASE r.status = Completed(j)
  <2>1. CASE a = "FAILED"
    BY <1>1, <1>2, <1>3, <1>4, <1>8, <2>1 DEF TrailOf
  <2>2. CASE a = "DEAD"
    BY <1>1, <1>2, <1>3, <1>4, <1>8, <2>2 DEF TrailOf
  <2>. QED
    BY <1>1, <1>8, <2>1, <2>2
<1>. QED
  BY <1>5, <1>6, <1>7, <1>8

(* A transition without an audit row: a claim, a lease, a retry's time.      *)
LEMMA TrailKept ==
  ASSUME NEW j \in Jobs, NEW r \in JobRow, NEW q \in JobRow, NEW s, TrailOf(j, r, s),
         q.attempt_count = r.attempt_count,
         \/ q.status = r.status
         \/ r.status \in {"QUEUED", "REQUESTED", "FAILED"} /\ q.status = ClaimedStatus(j)
  PROVE  TrailOf(j, q, s)
  BY StatusFacts DEF TrailOf

(* The attempts a worker remembers of the jobs it keeps stay current.        *)
LEMMA CountsKept ==
  ASSUME IInv, CountsCurrent,
         \A v \in Workers : \A i \in worker'[v].jobs :
           /\ i \in worker[v].jobs
           /\ worker'[v].counts = worker[v].counts /\ worker'[v].token = worker[v].token
           /\ job'[i].attempt_count = job[i].attempt_count
           /\ job'[i].lease_token \in {NoToken, job[i].lease_token}
  PROVE  CountsCurrent'
<1> SUFFICES ASSUME NEW v \in Workers, NEW i \in worker'[v].jobs, HoldsLease(v, i)'
             PROVE  worker'[v].counts[i] = job'[i].attempt_count
  BY DEF CountsCurrent
<1>1. worker[v].token # NoToken
  BY HandFacts, ConstantsOK
<1>2. HoldsLease(v, i)
  BY <1>1 DEF HoldsLease
<1>. QED
  BY <1>2 DEF CountsCurrent

LEMMA TrailStep ==
  ASSUME IInv, Trail, CountsCurrent, [Next]_vars
  PROVE  Trail' /\ CountsCurrent'
<1>0. /\ job \in [Jobs -> JobRow] /\ audit \in [Jobs -> Seq(Actions)]
      /\ worker \in [Workers -> WorkerState]
      /\ job' \in [Jobs -> JobRow]
  BY Inductive, Types DEF IInv, Typed
<1>1. CASE UNCHANGED <<job, audit, worker>>
  BY <1>1 DEF Trail, CountsCurrent, HoldsLease
<1>2. ASSUME NEW k \in Jobs, RequestExport(k) \/ RequestDeletion(k) \/ LegalHold(k)
      PROVE  Trail' /\ CountsCurrent'
  <2>1. PICK a \in {"QUEUED", "REQUESTED", "LEGAL_HOLD"} :
          /\ \A i \in Jobs \ {k} : job'[i] = job[i]
          /\ job'[k].status = a /\ job'[k].attempt_count = job[k].attempt_count
          /\ job'[k].lease_token \in {NoToken, job[k].lease_token}
          /\ IF a = "LEGAL_HOLD" THEN job[k].status \in {"REQUESTED", "FAILED"} ELSE job[k].status = "ABSENT"
          /\ audit' = [audit EXCEPT ![k] = Append(audit[k], a)]
          /\ worker' = worker
    <3>1. CASE RequestExport(k)
      BY <1>0, <3>1 DEF RequestExport, JobRow
    <3>2. CASE RequestDeletion(k)
      BY <1>0, <3>2 DEF RequestDeletion, JobRow
    <3>3. CASE LegalHold(k)
      BY <1>0, <3>3 DEF LegalHold, Holdable, JobRow
    <3>. QED
      BY <1>2, <3>1, <3>2, <3>3
  <2>2. TrailOf(k, job'[k], Append(audit[k], a))
    <3>1. a \in Actions
      BY DEF Actions
    <3>2. TrailOf(k, job[k], audit[k])
      BY DEF Trail
    <3>. QED
      BY <1>0, <2>1, <3>1, <3>2, TrailAppend
  <2>3. Trail'
    BY <1>0, <2>1, <2>2 DEF Trail, TrailOf
  <2>4. CountsCurrent'
    BY <2>1, HandFacts, CountsKept
  <2>. QED
    BY <2>3, <2>4
<1>3. ASSUME NEW k \in Jobs, BecomesDue(k)
      PROVE  Trail' /\ CountsCurrent'
  <2>1. /\ \A i \in Jobs : /\ job'[i].status = job[i].status
                           /\ job'[i].attempt_count = job[i].attempt_count
                           /\ job'[i].lease_token = job[i].lease_token
        /\ audit' = audit /\ worker' = worker
    BY <1>0, <1>3 DEF BecomesDue, JobRow
  <2>2. Trail'
    BY <1>0, <2>1, TrailKept DEF Trail
  <2>3. CountsCurrent'
    BY <2>1, HandFacts, CountsKept
  <2>. QED
    BY <2>2, <2>3
<1>4. ASSUME NEW w \in Workers, NEW batch \in SUBSET Jobs, NEW t \in Tokens, Claim(w, batch, t)
      PROVE  Trail' /\ CountsCurrent'
  <2> DEFINE counts == [j \in Jobs |-> IF j \in batch THEN job[j].attempt_count ELSE 0]
  <2>1. /\ \A i \in Jobs \ batch : job'[i] = job[i]
        /\ \A i \in batch : /\ job[i].status \in {"QUEUED", "REQUESTED", "FAILED"}
                            /\ job'[i].status = ClaimedStatus(i)
                            /\ job'[i].attempt_count = job[i].attempt_count
        /\ worker'[w].jobs = batch /\ worker'[w].counts = counts
        /\ \A v \in Workers : v # w => worker'[v] = worker[v]
        /\ audit' = audit
    <3> DEFINE hand == [Idle EXCEPT !.token = t, !.jobs = batch, !.phase = "next", !.counts = counts]
               row(i) == [job[i] EXCEPT !.status = ClaimedStatus(i), !.lease_token = t]
    <3>1. /\ \A i \in batch : job[i].status \in {"QUEUED", "REQUESTED", "FAILED"}
          /\ job' = [i \in Jobs |-> IF i \in batch THEN row(i) ELSE job[i]]
          /\ worker' = [worker EXCEPT ![w] = hand]
          /\ audit' = audit
      BY <1>4 DEF Claim, Claimable
    <3>2. \A i \in batch : row(i).status = ClaimedStatus(i) /\ row(i).attempt_count = job[i].attempt_count
      BY <1>0 DEF JobRow
    <3> HIDE DEF counts, row
    <3>3. hand.jobs = batch /\ hand.counts = counts
      BY DEF Idle
    <3> HIDE DEF hand
    <3>. QED
      BY <1>0, <3>1, <3>2, <3>3
  <2>2. Trail'
    <3> SUFFICES ASSUME NEW i \in Jobs PROVE TrailOf(i, job'[i], audit[i])
      BY <2>1 DEF Trail, TrailOf, Completed
    <3>1. TrailOf(i, job[i], audit[i])
      BY DEF Trail
    <3>. QED
      BY <1>0, <2>1, <3>1, TrailKept
  <2>3. CountsCurrent'
    <3> SUFFICES ASSUME NEW v \in Workers, NEW i \in worker'[v].jobs, HoldsLease(v, i)'
                 PROVE  worker'[v].counts[i] = job'[i].attempt_count
      BY DEF CountsCurrent
    <3>1. CASE v = w
      BY <2>1, <3>1
    <3>2. CASE v # w
      <4>1. i \in worker[v].jobs /\ i \in Jobs /\ i \notin batch
        BY <2>1, <3>2, HandFacts
      <4>. QED
        BY <2>1, <3>2, <4>1 DEF CountsCurrent, HoldsLease
    <3>. QED
      BY <3>1, <3>2
  <2>. QED
    BY <2>2, <2>3
<1>5. ASSUME NEW w \in Workers, PublishThrows(w) \/ Crash(w) \/ \E k \in Jobs, ok \in BOOLEAN : Execute(w, k, ok)
      PROVE  Trail' /\ CountsCurrent'
  <2>1. job' = job /\ audit' = audit
    BY <1>5 DEF PublishThrows, Crash, Execute
  <2>2. /\ \A v \in Workers \ {w} : worker'[v] = worker[v]
        /\ worker'[w].jobs # {} =>
             /\ worker'[w].jobs = worker[w].jobs
             /\ worker'[w].counts = worker[w].counts /\ worker'[w].token = worker[w].token
    <3>1. CASE PublishThrows(w)
      BY <1>0, <3>1 DEF PublishThrows, WorkerState
    <3>2. CASE Crash(w)
      BY <1>0, <3>2 DEF Crash, Idle
    <3>3. ASSUME NEW k \in Jobs, NEW ok \in BOOLEAN, Execute(w, k, ok)
          PROVE  /\ \A v \in Workers \ {w} : worker'[v] = worker[v]
                 /\ worker'[w].jobs = worker[w].jobs
                 /\ worker'[w].counts = worker[w].counts /\ worker'[w].token = worker[w].token
      BY <1>0, <3>3 DEF Execute, WorkerState
    <3>. QED
      BY <1>5, <3>1, <3>2, <3>3
  <2>3. CountsCurrent'
    BY <2>1, <2>2, CountsKept
  <2>. QED
    BY <2>1, <2>3 DEF Trail
<1>6. ASSUME NEW w \in Workers, Publish(w) \/ PublishReplyLost(w)
      PROVE  Trail' /\ CountsCurrent'
  <2> DEFINE k == worker[w].current
  <2>1. PublishesRow(w, k) /\ PublishAtomically(k) /\ worker[w].phase = "manifest"
    BY <1>6 DEF Publish, PublishReplyLost
  <2>2. k \in Jobs
    BY <2>1, HandFacts DEF IInv, WorkersCoherent
  <2>3. /\ job'[k].status = Completed(k) /\ job'[k].lease_token = NoToken
        /\ \A i \in Jobs \ {k} : job'[i] = job[i]
    BY <2>1, <2>2, CommitFacts
  <2>4. /\ job'[k].attempt_count = job[k].attempt_count
        /\ audit' = [audit EXCEPT ![k] = Append(audit[k], "COMPLETED")]
        /\ job[k].status = ClaimedStatus(k)
    BY <1>0, <2>1, <2>2 DEF PublishAtomically, PublishesRow, JobRow
  <2>5. /\ \A v \in Workers \ {w} : worker'[v] = worker[v]
        /\ worker'[w].jobs # {} =>
             /\ worker'[w].jobs \subseteq worker[w].jobs
             /\ worker'[w].counts = worker[w].counts /\ worker'[w].token = worker[w].token
    <3>1. CASE Publish(w)
      BY <1>0, <3>1 DEF Publish, NextJob, Idle, WorkerState
    <3>2. CASE PublishReplyLost(w)
      BY <1>0, <3>2 DEF PublishReplyLost, WorkerState
    <3>. QED
      BY <1>6, <3>1, <3>2
  <2> HIDE DEF k
  <2>6. TrailOf(k, job'[k], Append(audit[k], "COMPLETED"))
    <3>1. "COMPLETED" \in Actions /\ TrailOf(k, job[k], audit[k])
      BY <2>2 DEF Trail, Actions
    <3>. QED
      BY <1>0, <2>2, <2>3, <2>4, <3>1, TrailAppend
  <2>7. Trail'
    BY <1>0, <2>2, <2>3, <2>4, <2>6 DEF Trail, TrailOf
  <2>8. \A v \in Workers : worker'[v].jobs \subseteq worker[v].jobs
    BY <2>5
  <2>9. \A i \in Jobs : /\ job'[i].attempt_count = job[i].attempt_count
                       /\ job'[i].lease_token \in {NoToken, job[i].lease_token}
    BY <2>3, <2>4
  <2>10. CountsCurrent'
    BY <2>5, <2>8, <2>9, HandFacts, CountsKept
  <2>. QED
    BY <2>7, <2>10
<1>7. ASSUME NEW w \in Workers, Fail(w)
      PROVE  Trail' /\ CountsCurrent'
  <2> DEFINE k == worker[w].current
             n == worker[w].counts[k] + 1
             a == FailedStatus(n)
  <2>1. /\ worker[w].phase = "error"
        /\ job' = [job EXCEPT ![k] = FailRow(w, k, n)]
        /\ audit' = [audit EXCEPT ![k] = audit[k] \o <<a>>]
        /\ worker' = [worker EXCEPT ![w] = NextJob(w)]
    BY <1>7 DEF Fail, FailAudit
  <2>2. k \in worker[w].jobs /\ k \in Jobs
    BY <2>1, HandFacts DEF IInv, WorkersCoherent
  <2>3. n \in Nat /\ (HoldsLease(w, k) => n = job[k].attempt_count + 1)
    BY <1>0, <2>2 DEF CountsCurrent, WorkerState
  <2>4. /\ \A i \in Jobs \ {k} : job'[i] = job[i]
        /\ job'[k] = FailRow(w, k, n)
    BY <1>0, <2>1, <2>2
  <2>5. /\ \A v \in Workers \ {w} : worker'[v] = worker[v]
        /\ worker'[w].jobs # {} =>
             /\ worker'[w].counts = worker[w].counts /\ worker'[w].token = worker[w].token
        /\ worker'[w].jobs = worker[w].jobs \ {k}
    BY <1>0, <2>1 DEF NextJob, Idle, WorkerState
  <2> HIDE DEF k, n, a
  <2>6. a \in {"FAILED", "DEAD"} /\ a \in Actions
    BY DEF a, FailedStatus, Actions
  <2>7. audit[k] \o <<a>> = Append(audit[k], a)
    <3>1. audit[k] \in Seq(Actions)
      BY <1>0, <2>2
    <3>. QED
      BY <2>6, <3>1
  <2>8. TrailOf(k, job'[k], Append(audit[k], a))
    <3>1. TrailOf(k, job[k], audit[k])
      BY <2>2 DEF Trail
    <3>2. CASE HoldsLease(w, k)
      <4>1. job[k].status = ClaimedStatus(k)
        BY <2>2, <3>2, HandFacts
      <4>2. job'[k].status = a /\ job'[k].attempt_count = job[k].attempt_count + 1
        BY <1>0, <2>2, <2>3, <2>4, <3>2 DEF FailRow, a, JobRow
      <4>. QED
        BY <1>0, <2>2, <2>6, <3>1, <4>1, <4>2, TrailAppend
    <3>3. CASE ~HoldsLease(w, k)
      <4>1. job[k].status = Completed(k) /\ job'[k] = job[k]
        BY <2>2, <2>4, <3>3, HandFacts DEF FailRow
      <4>. QED
        BY <1>0, <2>2, <2>6, <3>1, <4>1, TrailAppend
    <3>. QED
      BY <3>2, <3>3
  <2>9. Trail'
    BY <1>0, <2>1, <2>2, <2>4, <2>7, <2>8 DEF Trail, TrailOf
  <2>10. \A v \in Workers : \A i \in worker'[v].jobs : i \in worker[v].jobs /\ i # k
    BY <2>2, <2>5 DEF IInv, ExclusiveExecution
  <2>11. CountsCurrent'
    BY <2>4, <2>5, <2>10, HandFacts, CountsKept
  <2>. QED
    BY <2>9, <2>11
<1>8. ASSUME \/ \E k \in Jobs : RecordEvidence(k)
             \/ \E t \in Tokens : LeaseLapses(t)
             \/ UNCHANGED vars
      PROVE  UNCHANGED <<job, audit, worker>>
  BY <1>8 DEF RecordEvidence, LeaseLapses, vars
<1>. QED
  BY <1>1, <1>2, <1>3, <1>4, <1>5, <1>6, <1>7, <1>8 DEF Next

(* Every counted failure, completion, hold and dead letter is in the trail   *)
(* (docs/privacy-export-execution.md:7).                                     *)
THEOREM Audited == Spec => []TransitionsAudited
<1>1. Init => Trail /\ CountsCurrent
  <2> SUFFICES ASSUME Init PROVE Trail /\ CountsCurrent
    OBVIOUS
  <2>1. \A w \in Workers : worker[w].jobs = {}
    BY DEF Init, Idle
  <2>2. \A j \in Jobs : audit[j] = <<>> /\ job[j].status = "ABSENT" /\ job[j].attempt_count = 0
    BY DEF Init
  <2>3. \A a : Times(<<>>, a) = 0
    BY FS_EmptySet DEF Times
  <2>4. \A j \in Jobs : Completed(j) # "ABSENT"
    BY StatusFacts
  <2>. QED
    BY <2>1, <2>2, <2>3, <2>4 DEF Trail, TrailOf, CountsCurrent
<1>2. IInv /\ Trail /\ CountsCurrent /\ [Next]_vars => Trail' /\ CountsCurrent'
  BY TrailStep
<1>3. Trail => TransitionsAudited
  <2>1. \A j \in Jobs, a \in Actions : Reports(j, a) = Times(audit[j], a)
    BY DEF Reports, Times
  <2>2. {"FAILED", "DEAD", "COMPLETED", "LEGAL_HOLD"} \subseteq Actions
    BY DEF Actions
  <2>. QED
    BY <2>1, <2>2 DEF Trail, TrailOf, TransitionsAudited
<1>. QED
  BY <1>1, <1>2, <1>3, Invariance, PTL DEF Spec
=============================================================================
