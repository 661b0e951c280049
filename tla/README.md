# MEDIA: a TLA+ model of its workers, gates and pipelines

MEDIA (the repository's `src/`, `db/`, `scanner/`) certifies media files,
keeps an append-only evidence ledger about AI systems and their actions, and
lets governed actions through an authority gate.  It is a Fastify server and
a few worker loops around one PostgreSQL database.  Nearly everything that is
hard about it lies between the processes: leases, retries, idempotency keys,
transactions that see other transactions' commits, crashes half-way.

Line references below are `file:line` in the repository; `db/NNN` stands for
the migration of that number.

## 1. The system

### Components

| Component | State | Operations | Makes it correct |
|---|---|---|---|
| Webhook delivery (`src/webhook-delivery.ts`, db/011, 016, 044, 059) | `webhook_outbox` rows with status, lease and retry time; immutable attempts and dead-letter events; per worker the batch it has claimed | claim, deliver, finish, requeue; leases expire | a row is settled only on evidence, only by the holder of its lease, and in the end always (which fails: see Findings) |
| Privacy jobs (`src/privacy-execution.ts`, db/045, 059) | `export_jobs`, `deletion_requests`, `export_artifacts`, `privacy_job_audit`; per worker the batch it has claimed | request, hold, claim, execute (two transactions), fail | a job runs in one worker at a time, its outcome is final and audited, and it ends visibly |
| Authority decision (`src/authority.ts`) | none: a function of licence, mission, delegation, approval, status, freshness, budget, law and time | `evaluateAuthority`, `executionGate` | AUTHORIZED exactly when everything is established; a denial is not softened by losing evidence |
| Guarded execution (`src/guarded-action.ts`, `idempotency-store.ts`, `execution.ts`, `authority-store.ts`, db/034, 042, 063) | idempotency rows; authority facts; the external world | claim a key, check authority, execute, complete | one effect per key, receipts that are true, nothing executed on withdrawn authority, an approval used once |
| Media processing (`verifyUpload` in `src/server.ts`, `db.ts`, `storage.ts`, db/018) | `media_processing_runs`, passports, evidence bindings, files in quarantine or clean storage | a twelve-step upload pipeline and its catch block | a completed run and every answer name a real passport; no media stays; certified work is not repeated |
| Malware scanner (`scanner/server.mjs`, `src/security/`) | per scan a handler and one clamd session per shard | probe, scan, time out | a verdict is that of the whole file, anything else is UNAVAILABLE; every handler ends |
| Verification engine, verdicts, trust (`src/verification/`, `src/provenance/c2pa.ts`, `src/domain/verdict.ts`, `src/trust.ts`) | the observations of one medium while its providers are asked | inspect, ask providers, score, decide | the resolvers agree; doubt never establishes an origin and never lifts a block |
| AI flight recorder (`src/ai.ts`, db/005, routes `server.ts:169-248`) | per AI a hash chain of immutable `flight_records`, with their `evidence_ledger` rows and `ai_alerts` | register, append a declaration, confirm a declared action, page through a timeline | one linear chain per AI, one confirmation per external event, results only for declared actions, pages that miss nothing |
| Evidence kernel (`src/evidence-store.ts`, db/014, 016, 060) | append-only observations, claims, bindings, source statuses | record (or replay), claim, bind, change a source's status | a claim never says more than its evidence and its sources do when it is judged |
| Galaxy registry (`src/galaxy-registry.ts`, `server.ts:142-147`, db/062) | replay records, a catalog of registry items | signed ingress with a replay guard, catalog, import as stars | a signed message is admitted once while it is valid |
| Constellation graph (`src/constellation.ts`, `star-dna.ts`, db/006, 031, 047, 049) | entities, relationships, events, provenance edges, each with the moment it was known | insert, import, snapshot as of a past moment | no provenance cycle; rows find what they name; the past does not change |
| Delegation chains (db/039, 064) | `universe_delegations` and their parents | insert, with a trigger that walks the chain | no cycle, bounded depth, a child never exceeds its parent |
| Commerce (`src/commerce.ts`, db/046, 047) | onboarding, subscriptions, billing webhook receipts | onboarding steps, provider events | an event is applied once; no step is lost |
| Enforcement (`src/enforcement-store.ts`, db/022, 043) | enforcement actions and receipts | request, execute, record a receipt | every executed action has its receipt |
| Quotas, inventory, governance, wormhole proofs, tenancy, collectors, reports, operations | tenant-scoped rows | mostly one insert or read each | tenant isolation, append-only history |

`PROJECT.json` lists the same components with their files and status; the
last four rows are not modelled.

### How they interact

The server and the workers share only the database.  `withTenant`
(`src/db-tenant.ts`) wraps each operation in one READ COMMITTED transaction;
the webhook and privacy claims are SQL functions that lock their rows with
`FOR UPDATE SKIP LOCKED`.  A model's action is therefore one transaction, or
one statement where a transaction's statements can see each other's
surroundings change (the authority check, the recorder, the graph), and
everything between two transactions of a process is a place where others run
or the process dies.  Webhook rows are produced by the observation alerts of
migration 011; media processing calls the scanner over HTTP, the verification
engine and the evidence kernel; guarded execution calls the authority check
and an external executor; a confirmed AI action goes from the flight recorder
into the evidence kernel, one transaction after the other; a registry item
goes from the ingress into the catalog and from there into the graph.

### What is hard

* **Leases**: a worker does not notice that its lease ran out; another claims
  the row, both deliver, and the first one's `finish` must be fenced
  (`webhook-delivery.ts:22`, `privacy-execution.ts:8-10`).
* **Copies used later**: `attempt_count` is copied at claim time and used in
  `finish`; the authority facts are read one by one and acted on afterwards;
  the registry checks a stamp in one place and its replay record in another.
* **Crashes and lost replies** between a claim, a POST or an external effect,
  and the transaction that records it.
* **Two pieces of code that must agree**: the claim functions and the
  TypeScript on a status name, the verdict and the trust decision on a medium.
* **Rivals on one key**: idempotency keys of actions and of uploads, external
  ids of events, identities of entities, replay keys without an index.
* **Partial failure** of a dozen-step pipeline with one catch block, of one of
  two scanner shards, of a confirmation whose lineage is written after it has
  committed; rejections nobody awaits end the scanner's process.
* **Order**: sequences are drawn before commits and readers page by them;
  `known_at` is when a transaction began and snapshots select by it; statuses
  of a source arrive in any order of their effective times.
* **Boundaries and unparsable values** in the authority rule, of stamps that
  are whole seconds, of scores that divide by zero confidence.

`PROJECT.json` names each hazard at its line with the properties that would
catch it.

## 2. Modules

Each component module declares its state as VARIABLES, has one action per
operation, and names every bound as a constant.  An `MC...` module adds what
TLC needs: the symmetry, and where inputs are records (authority inputs,
findings, observations, files, rows, messages) their small sets; the `.cfg`
files give the constants their values.  `...Proofs` modules hold the theorems.
Operators with names such as `ClaimableIgnoringLease`, which stand right
above the operator they deviate from, are variants of it with a plausible
bug.  No specification uses them: a property is worth stating only if it
fails once its operator is replaced by such a variant.

| Module | Models | Extends / instantiates |
|---|---|---|
| `WebhookOutbox` | abstract: what the outbox promises about a row | |
| `WebhookDelivery` | the delivery workers over the outbox | implements `WebhookOutbox` |
| `PrivacyJobs` | the export and deletion queues and their workers | |
| `Authority` | `evaluateAuthority` as operators | |
| `OnceOnly` | abstract: what an idempotency key promises | |
| `GuardedExecution` | `runIdempotentGuardedAction` by concurrent callers | extends `Authority`, implements `OnceOnly` |
| `MediaProcessing` | `verifyUpload` by concurrent requests | |
| `ScanService` | abstract: what a malware scan promises an upload | |
| `Scanner` | MEDIA's requests, the scanner adapter and its shards | implements `ScanService` |
| `Verification` | `verifyMedia`: inspection, providers, scores, verdicts | |
| `EvidenceKernel` | the kernel's claim rule as operators | |
| `EvidenceStore` | record, source status and claim by concurrent callers | extends `EvidenceKernel` |
| `FlightRecorder` | `PgAiStore`, its routes and the lineage of confirmations | extends `EvidenceKernel` |
| `Constellation` | the graph, its constraints, its snapshots | |
| `GalaxyRegistry` | the signed ingress, the catalog, imports | extends `Constellation` |
| `MCAuthority` | the inputs of the authority rule, and the rule stated the other way round | extends `Authority` |
| `MCDecisions` | three decision rules, one per behaviour | extends `MCAuthority`, `Verification`, `EvidenceStore` |

### WebhookDelivery

`outbox[r]` is the row: status, `attempt_count`, `requeue_count`,
`lease_token` and `due` for `next_attempt_at <= now()`.  `lapsed` holds the
tokens whose `lease_expires_at` has passed: one claim gives its rows one
token and one expiry.  `job[w]` is what a worker holds in memory.

| Action | Code |
|---|---|
| `Claim` | `claim_webhook_jobs` of db/059, called by `claim` (`webhook-delivery.ts:17`) |
| `Deliver` | `deliverClaimed` up to the outcome (`:34`): checks, decryption, POST |
| `FinishRecorded` | `finish` (`:20-28`) when it commits |
| `FinishThrows` | `finish` rolled back: lease lost, or a unique index of db/016 or db/044; the batch is dropped |
| `Requeue` | `requeue` (`:29`) |
| `BecomesDue`, `LeaseLapses`, `Crash` | time and process death |

`Deliver` separates what the receiver answered (`acknowledged` remembers a
2xx) from what the worker learned (`result`): an answer may be lost, time out
or be too large.  `Deliver` takes any row of the batch that is left: claims order
rows by `next_attempt_at`, which the model does not keep, so every order of a
batch is possible.  Back-off delays, signatures, payloads and the health
endpoint, which only reads, are left out.

### PrivacyJobs

`job[j]` is a row of either table, `audit[j]` its audit rows in order,
`evidence` the subjects with canonical observations.  A worker's `phase` is
where it stands between the two transactions of an execution: `next`,
`manifest` (the first has committed), `error` (an exception on its way to
`fail`).  `PublishReplyLost` is a commit whose reply never arrived.

### Authority and GuardedExecution

`Decision(i, t)` translates the two lists of `evaluateAuthority`: `Denied`
for the reasons, `Unestablished` for the unknowns; a reason wins.  Times are
numbers, `Null` or `Malformed`, and a comparison with `Malformed` is false,
as with NaN.  `AuthorityInput` is the set of the values of the TypeScript type
of that name, where any time, an approval's expiry included, may be a string
that does not parse.  Values of another type, which `z.any()` of the policy
simulation (`server.ts:145`) would let through, are not in it.  Strings that
are only compared for coverage are booleans.

`Establishes` says the same rule positively.  The two agree on every input but
one kind: the code tests whether an approval's expiry has passed and not
whether it is a time, so a malformed one counts as none (`AsRead`).
`DenialSurvivesDoubt` says which losses of evidence leave a denial standing:
freshness, each of the four hashes, and what status, budget, law or approval
said in favour of the action.  One is excepted, since the code looks at a
delegation's expiry only when its hash is there: a denial that rests on that
expiry alone needs the hash.  A time that becomes malformed and a grant that
disappears are no such losses: they do soften a denial.

`GuardedExecution` runs the whole of a guarded action: `Claim` or `Refuse`
(the `INSERT ... ON CONFLICT DO NOTHING` and the SELECT after it), then
`ReadStatus`, `ReadFreshness` and `Decide` (a SELECT each), `Effect` and
`ExecutorReturns` (the executor), `Complete` (the conditional UPDATE), and
`Abort` anywhere in between.  Meanwhile `SetStatus`, `SetFreshness` and
`DecideApproval` change the facts.  `effects`, `told` and `withdrawn` are
history: the outside world, the receipts given, and the facts that have not
permitted a caller's action at any time since its claim.

### MediaProcessing

`uploads[u]` is a request with its phase in the pipeline, `runs[k]` the run
its Idempotency-Key shares with rivals, `files[u]` where its media lies.
Every database call and file move is an action; `Throw` may interrupt any of
them, and `Settle` is the catch block's second half.  The scan and the
verification are seen from outside: the first tells clean content from the
rest, which is what `ScanService` promises, the second may throw.  Deleting a
file is taken to succeed: `deleteStoredMedia` (`storage.ts:40`) swallows the
errors of `unlink`, and a file that cannot be deleted stays without notice.

### Scanner and ScanService

`ScanService` is the promise: an upload is told once, PASSED only if no
shard's signatures match its file, MALWARE only if one does.  `Scanner` is
how it is kept, with a suspension wherever the code awaits.

| Action | Code |
|---|---|
| `Probe` | `scannerReady` (`scanner-readiness.ts`) and `/ready`: full coverage, fresh signatures |
| `Post`, `GiveUp` | `scanForMalware` and its AbortController (`malware.ts:5`) |
| `Check`, `Connect`, `Begin` | the `/scan` handler up to `zINSTREAM` (`server.mjs`) |
| `ReadChunk`, `Write`, `Drain`, `Terminate`, `WriteFails`, `Aborted` | streaming every chunk to all shards, one after the other |
| `Reply`, `EarlyReply`, `SessionFails` | clamd and its sockets: verdicts, replies before the stream has ended, errors and timeouts |
| `Conclude` | the verdict of all replies |
| `HungWriteFails`, `AdapterDies` | a reset reported to a hanging write; the process ends |

Two facts of the code shape the model.  A session that fails before
`scanAll` awaits its result rejects a promise nobody handles, which ends the
process and every scan in it (`AdapterDies`).  A write that waits for a drain
of a socket the reply handler has ended hears nothing more (`"hung"`); when
all other sessions have replied as well, no timeout is left to end it, which
is the one exception in `HandlersEnd`.  MEDIA's own timer answers the upload
all the same.  What clamd says before a stream has ended is any reply at all;
only of its reply to a whole stream is it assumed that, unless it is an error,
it is true.

### Verification

`verifyMedia` of `engine.ts` as a small state machine (`Inspect`,
`AskBaseline`, `AskProvider`) whose observations feed pure operators:
`TrustVector` and `TrustScore`, `Verdict`, `Decide`, `Distribution`.  Scores
are integers in percent with the code's rounding; a division by zero is
`NotANumber` and spreads as NaN does.  A finding keeps the words of its name
that the resolvers match, its result and its confidence.  The filters of
`trust.ts` and `signals.ts` are sets of places in the sequence of findings
(`Matching`, `Having`, `Rated`), their reductions sums over such a set.

Production passes the baseline provider only, so of the verdicts it can reach
AI_VERIFIED and UNVERIFIED; the rules for outside providers are exercised by
the repository's tests and by the findings in `MCDecisions`.

### EvidenceKernel and EvidenceStore

`ClaimAccepted` is the rule that refuses claims (`evidence-store.ts:3-6,10`):
states, sources, ages, contradictions.  `EvidenceStore` puts it into
transactions: `Look` and `Insert` are the two halves of `record`, which no
index protects from a second recorder of the same observation; `Judge` and
`CommitClaim` those of `claim`; `File` and `CommitStatus` those of
`sourceStatus`, which gives a status any effective hour and, as `known_at`, the
moment its transaction began, so that statuses may be committed in another
order than they are known.  `CurrentStatus` selects the latest by effective
hour, then by `known_at`.

### FlightRecorder

`flight` is the table of committed records, `nextSequence` its identity
column, `lock[a]` the request whose transaction holds AI `a`'s row
`FOR UPDATE`.  `request[q]` is a POST with its input, its phase and what its
transaction has read.  A request makes at most one event and the event's name
is its hash: the digests themselves, which rest on SHA-256, are abstracted to
unique names, and what is left of `integrity()` is the order of the links.

| Action | Code |
|---|---|
| `Register` | `register` (`ai.ts:78-81`) |
| `Receive`, `BindDeclared` | the event route up to `append` (`server.ts:183-190`): refused types, evidence bound before it is compared |
| `Lock`, `UnknownAi` | the first statement of `append` and `confirm` (`ai.ts:86,94`) |
| `ReadTail`, `RejectConfirmation` | the claim and tail queries, `confirmation()` (`:38-40,87,95-98`) |
| `Insert`, `InsertDuplicate` | `insertEvent` (`:114-118`) against the unique index db/005:23, which waits for a rival's open transaction |
| `Commit` | the end of the transaction, with its ledger row and alert |
| `RecordEvidence`, `ClaimEvidence`, `BindEvidence` | `record` and `integrateEvidence`, once for the event and once for its alert (`server.ts:242`) |
| `Fail` | any store error or process death: an open transaction rolls back, the rest is never resumed |
| `StartReading`, `Page` | a client that follows `nextCursor` (`ai.ts:104`, `server.ts:194-203`, `public/ai.js:26`) |

`ClaimAccepted` decides whether a confirmation more than an hour old gets its
SUPPORTED lineage.  It does not, and neither does one whose `occurredAt` is
ahead of the server's clock: both are answered 500 although the event stands,
and a retry is answered 409.  `AnswersAreTrue` says what a client may conclude
nevertheless.

### Constellation and GalaxyRegistry

`graph` holds the committed rows, each with its `known_at`, which is the
moment its transaction began; `tx[w]` is a writer's transaction.

| Action | Code |
|---|---|
| `Request` | the lookup of `addEntity` and `addRelationship` in a transaction of its own (`constellation.ts:36-37`), or the start of an event's or edge's transaction |
| `Begin`, `Insert`, `Commit`, `Lost` | the inserting transaction: `WHERE EXISTS`, CHECKs (db/047), the cycle trigger (db/031), the unique index (db/049), the upsert of a star |
| `Check` | the ingress route: stamp and signature against the server's clock |
| `AcceptIngress`, `Ingest` | the two transactions of an admitted item (`galaxy-registry.ts:39-58`) |
| `ImportStar` | `importStar`, whose commit is the graph's `Commit` |
| `RequestDies`, `Tick` | process death and time |

The clock counts half seconds, so that what the check rounds down can be told
from what the database compares.  `Snapshot(t)` is what `snapshot` shows as of
`t`.  In place of ids a row names entities by their key and relationships by
their hash; an event names an entity, a relationship or both.

## 3. Model checking

| Run | Instance | Shows |
|---|---|---|
| `webhook_safety` | 2 rows, 2 workers, 3 tokens, batches of 2, 3 status codes, 2 attempts, 1 requeue, 1 crash | lease safety, current counts, backed outcomes, the dead-letter trail, `ImplementsOutbox` |
| `webhook_recovery` | 2 rows, 2 workers, batches of 2, 1 crash, fair | orphaned leases are recovered; every first attempt is recorded, unless the row is starved by one of its batch that cannot be recorded |
| `webhook_retry` (violation) | 1 row, 1 worker, fair | a row that failed once is never settled |
| `privacy_safety` | 1 export, 1 deletion, 2 workers, batches of 2, 1 fault, fair | exclusive execution, ownership, audit, final outcomes; every job ends visibly unless a worker died with it |
| `privacy_deletion` (violation) | 1 deletion, healthy database | a deletion never completes |
| `decision_rules` | authority inputs up to 3 field changes from an authorized one; 2 outside findings after the baseline; 2 recorders, 2 records, 2 statuses, 1 claim | AUTHORIZED iff established, denial survives doubt; the resolvers agree, doubt establishes nothing; a withdrawn source supports nothing |
| `guarded_safety` | 2 callers, 2 keys, 2 actions, 2 approvals, 1 fault | true receipts, withdrawn authority stops, `ImplementsOnceOnly` |
| `guarded_approval` (violation) | 1 caller, 2 keys, 1 approval | one approval authorizes two actions |
| `media_safety` | 3 uploads, 2 keys, 3 contents, 1 crash | real passports in runs and answers, no media left, certified work repeated only after a rival |
| `scanner_safety` | 2 uploads, 2 shards, 3 files of up to 3 chunks, fair | `ImplementsScanService`; every handler ends, but for one hang |
| `galaxy_safety` | 2 writers, 3 rows out of 7, 2 requests, 2 messages a second apart, clock of 4 half seconds | replays refused until expiry, cycles only by overlap, settled snapshots |
| `flight_safety` | 2 AIs, 4 requests, 1 external id, 1 reader with pages of 1, 1 fault | linear chains, complete pages, one confirmation per external event, results after their declarations, true answers |

Most runs finish within a minute, `galaxy_safety`, `flight_safety` and
`scanner_safety` in two or three.

**Why the bounds are enough.**  A stale worker needs a rival, so two workers
or callers; a third token lets both be outlived by a fresh claim.  Two rows
in one batch are the least with a row left behind by an exception, or by a
death in mid-batch; a batch of 25, which production claims, only leaves more
rows behind in the same way.  Two attempts cover the first, the last and the
one that may not be recorded; one requeue restarts the counters.  The status codes are one of each class that
`classify` tells apart (2xx, terminal 4xx, retryable).  Two actions on one
key give a conflict, two keys give a shared approval.  Three uploads let a
rival overwrite a run between two steps of two others.  Authority inputs are
a conjunction of nearly independent parts: three changes reach every pair of
defects plus a time or class at its boundary.  Two findings are the least in
which one may mask or outvote the other.  Two records of one observation are
twins, two statuses a withdrawal and what outranks it.  Three files are
clean, infected in the last chunk for the second shard only, and too large;
two uploads share the process that one of them may end.  Two writers can have
edges in flight together, three rows are a star, an entity and what joins
them; with a skew of one second a message is admitted, repeated, expires and
is admitted again within the clock.  Four requests are the least with a
declaration on each AI and a confirmation of each that compete for one
external id; pages of one make every cursor matter.  The theorems of
section 4 remove the bounds for every property of these runs but liveness.

Symmetry is used in safety runs only, over sets whose members are never
compared except for equality.  Deadlock is checked in the guarded runs and in
`flight_safety`, where only a system with every request answered and every
page read may rest (`Quiet`): no two transactions wait for each other.  In
the others the work may be done and the system idle.

**Fairness.**  Claims order due rows by `next_attempt_at` (db/059), so a row
that is due again and again gets its turn: strong fairness per row, for
whichever worker takes it.  The loops of `webhook-worker.ts`,
`privacy-worker.ts` and `embedded-workers.ts` run for ever and time passes:
weak fairness for a worker's next step, for rows falling due and for leases
running out.  In the scanner, promises and timers run: weak fairness for
a handler's next step, and for each session to be settled, by its own 120 s
timeout at the latest; a write that hangs gets none, since no event is due to
it, and MEDIA's own timer is not needed.  Nothing is assumed of crashes, operators, receivers
and clamd.
`Timely` (in `webhook_recovery`) says that a living worker finishes its batch
before its lease runs out: `timeoutMs` is 10 s, `leaseMs` 30 s, so a batch of
two always does.  Production claims up to 25 rows (`embedded-workers.ts:4`,
`webhook-worker.ts:3`), and such a batch only does so when its receivers
answer in little more than a second; slower ones let another worker take the
rest of it over, which `webhook_safety` allows at any time and the liveness
run leaves out.
`Healthy` (in `privacy_deletion`) makes the counterexample stronger: the
deletion never completes even on a database that never fails.

### Findings

Three runs are expected to find a violation; each states what a document or
comment of the repository says.

1. `webhook_retry`: `deliverClaimed` uses the row's id as the delivery id of
   each attempt and db/044:9 makes it unique, so no second attempt can be
   recorded: the finish rolls back and the row is attempted for ever.
2. `privacy_deletion`: the deletion claim writes PROCESSING, `executeDeletion`
   insists on RUNNING; every deletion ends DEAD.
3. `guarded_approval`: no code writes `universe_approval_consumptions`; an
   approval meant for one exact action authorizes any number.

Others are written into the properties, as the exception without which they
would be false:

* The expiry of an approval is compared but not checked (`authority.ts:42`):
  one that does not parse never comes and the action is AUTHORIZED, although
  "malformed authority timestamps fail closed" (`tests/authority.test.ts:22`).
  Only the policy simulation (`server.ts:145`) can be handed one, as the stored
  column is a timestamp (`AuthorizedIffEstablished`).
* A delegation without an evidence hash is not asked for its expiry
  (`authority.ts:39`): losing the hash turns DELEGATION_EXPIRED, where nothing
  else denies, into UNKNOWN (`DenialSurvivesDoubt`).
* A row whose outcome cannot be recorded throws out of the loop over its batch
  (`webhook-delivery.ts:34`): the rows behind it lose their turn, and may lose
  it each time (`FirstAttemptUnlessStarved`).
* A worker that dies takes its privacy job with it: no claim selects RUNNING
  or PROCESSING again (db/059:57,77, against
  `docs/privacy-export-execution.md:6`; `JobsEndUnlessOrphaned`).
* The refusal of an unfinished duplicate upload sits inside the block for
  finished ones (`server.ts:259`): a rival is processed beside the first, and
  a rival or a failed replay marks the completed run, after which the key is
  executed again (against `docs/failure-chaos-gate.md:11,14`;
  `RepeatedOnlyAfterRival`).
* A replayed upload leaves its quarantined copy behind (`server.ts:259`;
  `NoMediaAfterProcessing`).
* A signed registry message can pass once more after its record has expired:
  its stamp was checked against whole seconds, possibly a while ago
  (`ReplayRefusedUntilExpiry`).
* Two provenance edges in flight together can close a cycle, since the
  trigger sees committed edges only (`CycleOnlyByOverlap`).
* Withdrawing the source of one of two twin records leaves the other in
  force; a status dated in the future counts at once
  (`WithdrawnSupportsNothing`).
* An asset with no provenance scores high enough for the decision TRUST while
  its verdict is UNVERIFIED and its distribution BLOCK, and PROMOTE can stand
  beside BLOCK too: `ResolversAgree` and `DoubtEstablishesNothing` claim no
  more than holds.  "Uncertainty is not converted into a claim"
  (`docs/VERDICT-MODEL.md:13`) is true of verdicts and not of scores: a weak
  or negative finding may lift REVIEW to TRUST, because the score averages
  confidences and risk dimensions, and a rated match of confidence 0 makes the
  score NaN and the decision REVIEW, from which an inconclusive finding lifts
  it to TRUST, or to PROMOTE where enough else is positive.

Met on the way, outside every property: a confirmation that is old or ahead
of the clock stays without lineage for good (see FlightRecorder); an
observation up to five minutes ahead passes `assertObservation` and is
refused by the CHECK of db/047:22; no route calls `sourceStatus`; a claim
that names an evidence id twice counts fewer rows than ids and is refused; a
requeued webhook row restarts at attempt number 1, which
`UNIQUE (outbox_id, attempt_number)` of db/016 rejects; a crash between `acceptIngress` and
`ingest` loses the item and its retry is refused as a replay; an item
ingested again keeps its first evidence state; a re-import whose observation
is newer than the star's `known_at` fails the CHECK of db/047:23, and one
that passes rewrites the `last_observed_at` that past snapshots show.

## 4. Proofs

TLAPS checks eight modules of theorems to the last leaf, for every value of
the constants that satisfies the modules' ASSUMEs.  These say only what the
constants are: null values differ from real ones, bounds are natural numbers,
inputs have their fields.  Every invariant and every action property that a
passing run checks is a theorem, and so are the three refinements.

**WebhookDelivery.**  `LeaseLostOnlyByExpiry` is not inductive: a rival's
claim could reuse a worker's token, and a settled row could still be leased.
`Invariance` proves the conjunction of

* `JobsCoherent`: a worker without a token has nothing to do, and the row in
  hand belongs to its batch;
* `TokensUnique`: two workers with live batches hold different tokens;
* `OnlyOpenRowsLeased`: a leased row is PENDING or FAILED, hence a requeue
  of a DEAD row never takes a lease away;
* `SuccessInHandIsReal`: a 2xx in a worker's hand was acknowledged;

with `TypeOK`, `LeaseLostOnlyByExpiry`, `ClaimedCountIsCurrent` and
`OutcomeBacked`.  There is one lemma per action.  `Refinement` proves
`Spec => ImplementsOutbox` from it: a `FinishRecorded` is a `Settle`, a
`Deliver` an `Acknowledge` or a stutter, a `Requeue` a `Requeue`, the rest
stutters.  `TrailTold` proves `DeadLetterTrail` row by row: a log of
alternating events whose length has the parity of the status (`Tells`).

**PrivacyJobs.**  `Invariance` proves that a batch is tied to its rows: live
tokens differ, the jobs in hand carry their worker's token and the status its
claim wrote, and a finished row carries none (`FinishedUnleased`), so that a
late `fail` finds nothing to update.  `Exclusive`, `Owned` and `Final` follow.
`Audited` adds `Trail`, an exact count of each kind of audit row for each
status, and `CountsCurrent`, that a claimed count is the row's while the lease
holds; cardinalities come from the finite-set theorems.

**GuardedExecution.**  `ToldTheTruth` needs to know who may still act on a
key.  `Invariance` proves `TypeOK` and

* `KeysCoherent`: what a key's row says about its owner and outcome agrees
  with the effects;
* `CallsCoherent`: a call past its claim owns its key's row and its local
  `acted` says whether the effect happened;
* `OneCallPerKey`: no two calls are at work on one key;
* `ReceiptsOnRecord`: what was told is what the row says.

`ReceiptsAreTrue` derives `ToldTheTruth`, and `Refinement` derives
`Spec => ImplementsOnceOnly`.  `WithdrawalsHold` needs what the reads have
seen (`ReadsObeyed`): a status read as ACTIVE was ACTIVE at some moment of the
call, and an executing call has nothing withdrawn.

**MediaProcessing.**  `Coherent` says, for every upload, what its phase means
for its run (same content), its passport (saved, of that content) and its
file; whatever a rival writes over a run, the content it was first used for
stays.  `Remembered` says that a run answered 201 is replayable until a rival
owns it, from which `Repetition` follows.

**Scanner.**  The invariant adds to the types only that a reply a session
holds is true of its file.  `Refinement` shows that every step either tells
nothing or is a `Tell` of `ScanService`: answers reach only requests that
still wait, and a verdict is drawn from such replies.

**FlightRecorder.**  `ChainLinear` is about committed rows, while what makes
it true is what the open transactions know.  `Invariance` proves it with

* `WritersHoldLock`: from its lock to its commit a request holds its AI's row,
  so an AI has one writer;
* `TailCurrent`: the tail a writer has read is still the tail;
* `SequencesAhead`: a drawn sequence is above every record of its AI, although
  other AIs' transactions draw from the same counter;
* `ClaimsHeld`, `ExternalsReserved`: a confirmation on its way names a declared
  action of its AI, and an inserted external id is nobody else's;
* `LastExists`: a chain that is not empty has a last record, without which the
  `CHOOSE` in `TailOf` says nothing.

Every step that neither locks, reads, inserts nor commits is an instance of
`Leaving` or `Elsewhere`, the first three of those of `Advancing`; `CommitInv`
is the heart of the proof.  `Invariance` conjoins `ConfirmedOnce` (one
confirmation per external id) and `ResultsAnswerClaims`, which are theorems
as well.

The second half of the module builds on it.  `PagesMissNothing` needs `FlightOrdered`,
that any records of an AI have a first and a last one, and `CursorsHonest`,
that a reader has everything up to its cursor: a commit adds a record above
all of its AI, hence above every honest cursor.  `AnswersTrue` proves
`Truth(q)` per request: nothing recorded before its commit or after a refusal,
what a declaration bound, the lineage written so far, and what 201 implies.

`WaitsEndSoon` is about who waits for whom (`BlockedOn`): for the row lock of an
AI, or for a rival's uncommitted external id.  With `LocksHeldByWriters`, that a
lock is held by a request at work on its AI, it says that a chain of waits has at
most two links and ends at a transaction that has inserted and only has to
commit, hence that no circle of waits exists for any number of requests.  TLC's
deadlock check shows the same of the small instance.

**GalaxyRegistry.**  `ReplayRefused`: an admitted message is on record until
its record has expired (`AdmittedOnRecord`).  `PastIsSettled`: a row about to
be committed is known as of the moment its transaction began, so it lies
outside every snapshot older than all open transactions, and an observation
made again changes nothing a snapshot selects by.

`CyclesOnlyByOverlap` is about sets of edges each two of which came one after
the other in sight (`InSight`).  Committed edges may well form a cycle, so the
induction is over such sets, not over the graph.  `EdgeInv` says of every set
in sight, of rows committed or in flight, that it is acyclic, and of every row
in flight that what it saw is committed.  An edge that is inserted joins only
sets whose other edges it saw, and among what it saw its child does not reach
its parent; `ReachesAnew` and `AcyclicAnew` do the rest.  Reachability is a
least closed set (`ReachesIsLeast`), so no induction over paths is needed.

`GraphStaysWhole` is what the lookups, constraints and triggers are for together
(`GraphWhole`): every row finds the entities and the relationship it names.  The
invariant adds what each row in flight has passed already: its ends, which no
later step removes, and its time order, but for a star, whose
`ON CONFLICT` update is checked when it meets its namesake (`CommitCases`).

**DecisionProofs.**  The three parts of `MCDecisions`, each by itself;
`RulesTakenApart` shows that its model is each of them at a time.

* *Evidence store.*  `StoreInv`: a recorder that looked has not overlooked a
  record that was there (`LookedWell`), hence two records of one observation
  overlapped (`TwinsOverlap`); the statuses of a source always have one that
  outranks the others (`StatusesRanked`), since no two of them are known from
  one moment (`KnownApart`), without which the latest would be a `CHOOSE` from
  nothing; and every SUPPORTED claim rests on sources
  of which, when it was judged, each withdrawal was outranked
  (`ClaimsUpheld`).
* *Authority.*  `AuthorizedExactly` compares `Decision` with `Establishes`,
  the rule written as what must hold, for all of `AuthorityInput`, malformed
  times included, and every time of evaluation: licence and mission,
  delegation, approval and the evidence ladder have a lemma each.  A malformed
  approval expiry is read as none on the side of `Establishes`, as the code
  does (`AsRead`).  `DenialsSurvive` goes through the reasons of a denial: all
  but the delegation's survive the losses of `EvidenceLost` (`LossKeeps`), and
  that of its expiry survives as long as the delegation keeps its hash.
* *Verification.*  `ResolversAlwaysAgree` holds for any observations and any
  score (`ResolversMatch`); the invariant `VerifyInv` adds that a verified
  provenance is trusted.  `DoubtNeverEstablishes` follows one observation
  through the resolvers (`PositiveMore`, `ConflictMore`), and
  `FailureCountsNot` an observation with no name, no confidence and no
  conflict through the whole of the score.

**Model-checked only.**  The liveness properties (`OrphanedLeaseRecovered`,
`FirstAttemptUnlessStarved`, `JobsEndUnlessOrphaned`, `HandlersEnd`): temporal
reasoning under fairness and ENABLED is out of the prover's reach.  The three
violations are behaviours that TLC exhibits.

## 5. Not modelled

* Delegation chains, commerce and enforcement: see the plan.
* `src/scanner-adapter.ts`, a single-shard adapter beside
  `scanner/server.mjs`.  Its `/ready` answers without the fields
  `scannerReady` asks for, so a deployment that uses it never becomes ready,
  although `docs/LOCAL-SCANNER.md:14` expects it to; nothing past the probe
  could happen in a model of it.
* Tenant quotas, inventory and governance, wormhole proofs, API keys and
  tenancy: single inserts, conditional updates and reads under row-level
  security.
* Collectors, projections, reports, operations: calls to other systems,
  formatting, deployment.
* The in-memory stores used without a database: one process, no concurrency,
  everything lost on restart.
* Within the modelled components: signatures, digests, wording, back-off
  delays, payload sizes, and endpoints that only read.

## 6. Plan

What is left, in this order:

1. `DelegationChains`: the trigger of db/064 under concurrent inserts: no
   cycle but by overlap, bounded depth, no child larger than its parent.
2. `Commerce`: provider events and onboarding steps under concurrency.
3. `Enforcement`: actions and their receipts in separate transactions.
4. `MediaProcessing` over `ScanService` and `EvidenceStore` instead of its
   own atomic scan and record.
