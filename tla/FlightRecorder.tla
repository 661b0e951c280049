---------------------------- MODULE FlightRecorder ----------------------------
(***************************************************************************)
(* The AI flight recorder: PgAiStore of src/src/ai.ts, its tables of         *)
(* migration 005 and the routes of server.ts that feed and read it.  Each    *)
(* AI has a hash chain of immutable flight records.  A client declares       *)
(* events; the trusted connector confirms or contradicts declared actions,   *)
(* and the server then leaves the lineage of the result in the evidence      *)
(* kernel, one transaction after the other.                                  *)
(*                                                                           *)
(* A request makes at most one event, which is named after it.  An event's   *)
(* hash is its name: hashes are unique, and a row never changes.             *)
(***************************************************************************)
EXTENDS Integers, FiniteSets, EvidenceKernel

CONSTANTS
  Ais,          (* ids of AI systems                                         *)
  Requests,     (* POSTs of an event or of an action confirmation            *)
  EventTypes,   (* the event types a client tries to declare                 *)
  ExternalIds,  (* the connector's externalEventId values                    *)
  Readers,      (* clients that page through a timeline                      *)
  PageSize,     (* the limit of a page                                       *)
  None,         (* NULL                                                      *)
  MaxFaults     (* bound: exceptions and deaths that the database or the     *)
                (* process inflicts                                          *)

ASSUME ConstantsOK ==
  /\ None \notin Requests
  /\ None \notin Ais
  /\ None \notin ExternalIds
  /\ PageSize \in Nat \ {0}
  /\ MaxFaults \in Nat

VARIABLES
  registered,   (* rows of ai_identities                                     *)
  lock,         (* per AI: who holds its identity row FOR UPDATE             *)
  nextSequence, (* the identity column of flight_records                     *)
  flight,       (* committed rows of flight_records                          *)
  alerts,       (* committed rows of ai_alerts, as [claim, result]           *)
  evidence,     (* the requests with a canonical_evidence row                *)
  claims,       (* accepted claims, as <<request, domain>>                   *)
  bindings,     (* evidence_bindings, as <<request, domain, record>>         *)
  request,      (* per request: its input, phase, and transaction locals     *)
  reader,       (* per reader: its AI, cursor and the rows it has            *)
  faults        (* faults so far                                             *)

recorder == <<registered, lock, nextSequence, flight, alerts>>
kernel == <<evidence, claims, bindings>>
vars == <<recorder, kernel, request, reader, faults>>

-----------------------------------------------------------------------------
(* Inputs                                                                    *)

(* Of a confirmation's outcome: FAILED and ABSENT both contradict the claim. *)
Outcomes == {"CONFIRMED", "CONTRADICTED", "UNREACHABLE"}

(* What an input is used for later is chosen where it is used: whether a     *)
(* declaration's evidence is known and matches (BindDeclared), which event a *)
(* confirmation names (ReadTail), and when its action occurred, as seen by   *)
(* the clock of the step that looks at it.                                   *)
Declarations == [kind : {"declaration"}, ai : Ais, type : EventTypes]
Confirmations == [kind : {"confirmation"}, ai : Ais, external : ExternalIds, outcome : Outcomes]
Inputs == Declarations \cup Confirmations

(* Results of actions and approvals are for the connector:                   *)
(* TRUSTED_RESULT_REQUIRED.                                                  *)
Declarable(type) ==
  type \notin {"ACTION_CONFIRMED", "ACTION_FAILED", "ACTION_UNAVAILABLE",
               "APPROVAL_GRANTED", "APPROVAL_DENIED"}

Answers == {"201", "400", "404", "409", "422", "500"}
Phases == {"none", "bind", "begin", "locked", "read", "inserted", "record", "claim", "bound"} \cup Answers

Unborn == [input |-> None, phase |-> "none", claim |-> None, tail |-> None, sequence |-> 0,
           domain |-> "AI_FLIGHT"]

In(q) == request[q].input
Confirming(q) == In(q).kind = "confirmation"

To(q, phase) == request' = [request EXCEPT ![q].phase = phase]

(* Nothing but the answer is left of a request that has been answered.       *)
Answer(q, answer) == request' = [request EXCEPT ![q] = [Unborn EXCEPT !.phase = answer]]

-----------------------------------------------------------------------------
(* Registration and the start of a request                                   *)

Register(a) ==
  /\ a \notin registered
  /\ registered' = registered \cup {a}
  /\ UNCHANGED <<lock, nextSequence, flight, alerts, kernel, request, reader, faults>>

Receive(q, input) ==
  /\ request[q].phase = "none"
  /\ IF input.kind = "declaration" /\ ~Declarable(input.type) THEN Answer(q, "400")
     ELSE request' = [request EXCEPT ![q].input = input,
                                     ![q].phase = IF input.kind = "declaration" THEN "bind" ELSE "begin"]
  /\ UNCHANGED <<recorder, kernel, reader, faults>>

(* Before it appends, a declaration binds its evidence to the AI; evidence   *)
(* that does not match its hash has been bound by then.                      *)
BindDeclared(q, known, matches) ==
  /\ request[q].phase = "bind"
  /\ bindings' = IF known THEN bindings \cup {<<q, "AI_FLIGHT", In(q).ai>>} ELSE bindings
  /\ IF known /\ matches THEN To(q, "begin") ELSE Answer(q, "400")
  /\ UNCHANGED <<recorder, evidence, claims, reader, faults>>

-----------------------------------------------------------------------------
(* append and confirm: one transaction each                                  *)

LockableAlways(q) == TRUE

(* SELECT ... FOR UPDATE on the AI's identity row                            *)
Lockable(q) == lock[In(q).ai] = None

Lock(q) ==
  /\ request[q].phase = "begin"
  /\ In(q).ai \in registered
  /\ Lockable(q)
  /\ lock' = [lock EXCEPT ![In(q).ai] = q]
  /\ To(q, "locked")
  /\ UNCHANGED <<registered, nextSequence, flight, alerts, kernel, reader, faults>>

UnknownAi(q) ==
  /\ request[q].phase = "begin"
  /\ In(q).ai \notin registered
  /\ Answer(q, "404")
  /\ UNCHANGED <<recorder, kernel, reader, faults>>

RowsOf(a) == {row \in flight : row.ai = a}

(* ORDER BY sequence DESC LIMIT 1                                            *)
Last(rows) ==
  IF rows = {} THEN None
  ELSE (CHOOSE row \in rows : \A other \in rows : other.sequence <= row.sequence).event

TailOf(a) == Last(RowsOf(a))

ClaimInAnyChain(a, claim) ==
  \E row \in flight : row.event = claim /\ row.type = "ACTION_REQUESTED"

ClaimIn(a, claim) == \E row \in RowsOf(a) : row.event = claim /\ row.type = "ACTION_REQUESTED"

(* Rolls back and answers.                                                   *)
Abandon(q, answer) ==
  /\ lock' = [lock EXCEPT ![In(q).ai] = IF @ = q THEN None ELSE @]
  /\ Answer(q, answer)

(* A confirmation goes on with the declared action it names, a declaration   *)
(* names none.                                                               *)
ReadTail(q, claim) ==
  /\ request[q].phase = "locked"
  /\ IF Confirming(q) THEN ClaimIn(In(q).ai, claim) ELSE claim = None
  /\ request' = [request EXCEPT ![q].phase = "read", ![q].claim = claim, ![q].tail = TailOf(In(q).ai)]
  /\ UNCHANGED <<recorder, kernel, reader, faults>>

(* The event it names is no declared action of this AI, or it occurred       *)
(* before that or too far in the future: nothing is written.                 *)
RejectConfirmation(q, answer) ==
  /\ request[q].phase = "locked"
  /\ Confirming(q)
  /\ answer = "422" => \E row \in flight : ClaimIn(In(q).ai, row.event)
  /\ Abandon(q, answer)
  /\ UNCHANGED <<registered, nextSequence, flight, alerts, kernel, reader, faults>>

RivalOfSameAi(q, r) ==
  /\ r # q /\ Confirming(q) /\ request[r].phase = "inserted"
  /\ Confirming(r) /\ In(r).external = In(q).external /\ In(r).ai = In(q).ai

(* The unique index on (organization, source, external_event_id): an         *)
(* uncommitted rival is waited for, a committed one is a violation.          *)
Rival(q, r) ==
  /\ r # q /\ Confirming(q) /\ request[r].phase = "inserted"
  /\ Confirming(r) /\ In(r).external = In(q).external

Duplicate(q) == Confirming(q) /\ \E row \in flight : row.external = In(q).external

(* The sequence is drawn by the INSERT, committed or not.                    *)
Insert(q) ==
  /\ request[q].phase = "read"
  /\ ~Duplicate(q)
  /\ \A r \in Requests : ~Rival(q, r)
  /\ request' = [request EXCEPT ![q].phase = "inserted", ![q].sequence = nextSequence]
  /\ nextSequence' = nextSequence + 1
  /\ UNCHANGED <<registered, lock, flight, alerts, kernel, reader, faults>>

InsertDuplicate(q) ==
  /\ request[q].phase = "read"
  /\ Duplicate(q)
  /\ nextSequence' = nextSequence + 1
  /\ Abandon(q, "409")
  /\ UNCHANGED <<registered, flight, alerts, kernel, reader, faults>>

StateAsReported(outcome) == outcome

(* reconcileAction of a trusted source                                       *)
ReconciledState(outcome) ==
  CASE outcome = "UNREACHABLE" -> "UNAVAILABLE"
    [] outcome = "CONFIRMED" -> "VERIFIED"
    [] OTHER -> "CONFLICTING"

Contradicts(q) == In(q).outcome = "CONTRADICTED"

ResultType(outcome) ==
  CASE outcome = "CONFIRMED" -> "ACTION_CONFIRMED"
    [] outcome = "UNREACHABLE" -> "ACTION_UNAVAILABLE"
    [] OTHER -> "ACTION_FAILED"

EventOf(q) ==
  [event |-> q, ai |-> In(q).ai, sequence |-> request[q].sequence, previous |-> request[q].tail,
   type |-> IF Confirming(q) THEN ResultType(In(q).outcome) ELSE In(q).type,
   state |-> IF Confirming(q) THEN ReconciledState(In(q).outcome) ELSE "DECLARED",
   related |-> request[q].claim,
   external |-> IF Confirming(q) THEN In(q).external ELSE None]

(* The record, its ledger hash and the alert commit together.                *)
Commit(q) ==
  /\ request[q].phase = "inserted"
  /\ flight' = flight \cup {EventOf(q)}
  /\ alerts' = IF Confirming(q) /\ Contradicts(q)
               THEN alerts \cup {[claim |-> request[q].claim, result |-> q]} ELSE alerts
  /\ lock' = [lock EXCEPT ![In(q).ai] = IF @ = q THEN None ELSE @]
  /\ IF Confirming(q)
     THEN request' = [request EXCEPT ![q] = [Unborn EXCEPT !.input = In(q), !.phase = "record"]]
     ELSE Answer(q, "201")
  /\ UNCHANGED <<registered, nextSequence, kernel, reader, faults>>

-----------------------------------------------------------------------------
(* The lineage of a committed confirmation, in the evidence kernel           *)

(* An observation ahead of its collection is refused: the event stays        *)
(* without lineage.                                                          *)
RecordEvidence(q, ahead) ==
  /\ request[q].phase = "record"
  /\ IF ahead THEN Answer(q, "500") /\ UNCHANGED evidence
     ELSE To(q, "claim") /\ evidence' = evidence \cup {q}
  /\ UNCHANGED <<recorder, claims, bindings, reader, faults>>

CanonicalEvidence(q, age) ==
  [validation |-> IF In(q).outcome = "UNREACHABLE" THEN "UNAVAILABLE" ELSE "VERIFIED",
   source |-> "ACTIVE", type |-> "ACTION_CONFIRMATION", age |-> age,
   subject |-> In(q).ai, digest |-> q]

ClaimedState(q) ==
  IF request[q].domain = "INCIDENT" THEN "CONFLICTING"
  ELSE CASE ReconciledState(In(q).outcome) = "CONFLICTING" -> "CONFLICTING"
         [] ReconciledState(In(q).outcome) = "UNAVAILABLE" -> "UNKNOWN"
         [] OTHER -> "SUPPORTED"

(* integrateEvidence, first half: claim (refused when stale).                *)
ClaimEvidence(q, age) ==
  /\ request[q].phase = "claim"
  /\ IF ClaimAccepted(ClaimedState(q), {CanonicalEvidence(q, age)})
     THEN To(q, "bound") /\ claims' = claims \cup {<<q, request[q].domain>>}
     ELSE Answer(q, "500") /\ UNCHANGED claims
  /\ UNCHANGED <<recorder, evidence, bindings, reader, faults>>

IncidentFollowsNever(q) == FALSE

(* if (result.alert): the incident has a lineage of its own.                 *)
IncidentFollows(q) == request[q].domain = "AI_FLIGHT" /\ Contradicts(q)

(* integrateEvidence, second half: bind.                                     *)
BindEvidence(q) ==
  /\ request[q].phase = "bound"
  /\ bindings' = bindings \cup {<<q, request[q].domain, q>>}
  /\ IF IncidentFollows(q)
     THEN request' = [request EXCEPT ![q].phase = "claim", ![q].domain = "INCIDENT"]
     ELSE Answer(q, "201")
  /\ UNCHANGED <<recorder, evidence, claims, reader, faults>>

(* A store error or the death of the process: an open transaction rolls back,*)
(* what was committed stays, and nothing resumes the rest.                   *)
Fail(q) ==
  /\ request[q].phase \notin Answers \cup {"none"}
  /\ faults < MaxFaults
  /\ faults' = faults + 1
  /\ Abandon(q, "500")
  /\ UNCHANGED <<registered, nextSequence, flight, alerts, kernel, reader>>

-----------------------------------------------------------------------------
(* Paging through a timeline: the client follows nextCursor until hasMore is *)
(* false.                                                                    *)

Resting == [ai |-> None, cursor |-> 0, rows |-> {}, done |-> FALSE]

StartReading(c, a) ==
  /\ reader[c] = Resting
  /\ a \in registered
  /\ reader' = [reader EXCEPT ![c].ai = a]
  /\ UNCHANGED <<recorder, kernel, request, faults>>

After(a, cursor) == {row \in RowsOf(a) : row.sequence > cursor}

(* The n rows with the smallest sequences                                    *)
First(rows, n) == {row \in rows : Cardinality({r \in rows : r.sequence < row.sequence}) < n}

LastSequence(rows) == CHOOSE s \in {row.sequence : row \in rows} : \A row \in rows : row.sequence <= s

CursorPastFetched(fetched, page) == LastSequence(fetched)

NextCursor(fetched, page) == LastSequence(page)

Page(c) ==
  LET fetched == First(After(reader[c].ai, reader[c].cursor), PageSize + 1)
      page == First(fetched, PageSize)
      hasMore == Cardinality(fetched) > PageSize
  IN /\ reader[c].ai # None /\ ~reader[c].done
     /\ reader' = [reader EXCEPT ![c].rows = @ \cup page, ![c].done = ~hasMore,
                                 ![c].cursor = IF hasMore THEN NextCursor(fetched, page) ELSE @]
     /\ UNCHANGED <<recorder, kernel, request, faults>>

-----------------------------------------------------------------------------
Init ==
  /\ registered = {}
  /\ lock = [a \in Ais |-> None]
  /\ nextSequence = 1
  /\ flight = {}
  /\ alerts = {}
  /\ evidence = {} /\ claims = {} /\ bindings = {}
  /\ request = [q \in Requests |-> Unborn]
  /\ reader = [c \in Readers |-> Resting]
  /\ faults = 0

(* Everything has been answered and read; anything else that stops is a      *)
(* deadlock.                                                                 *)
Quiet ==
  /\ \A q \in Requests : request[q].phase \in Answers
  /\ \A c \in Readers : reader[c].done
  /\ UNCHANGED vars

Next ==
  \/ \E a \in Ais : Register(a)
  \/ \E q \in Requests :
       \/ \E input \in Inputs : Receive(q, input)
       \/ \E known, matches \in BOOLEAN : BindDeclared(q, known, matches)
       \/ Lock(q) \/ UnknownAi(q)
       \/ \E claim \in Requests \cup {None} : ReadTail(q, claim)
       \/ \E answer \in {"404", "422"} : RejectConfirmation(q, answer)
       \/ Insert(q) \/ InsertDuplicate(q) \/ Commit(q)
       \/ \E ahead \in BOOLEAN : RecordEvidence(q, ahead)
       \/ \E age \in {0, 2} : ClaimEvidence(q, age)
       \/ BindEvidence(q) \/ Fail(q)
  \/ \E c \in Readers : Page(c) \/ \E a \in Ais : StartReading(c, a)
  \/ Quiet

Spec == Init /\ [][Next]_vars

-----------------------------------------------------------------------------
(* Properties                                                                *)

Rows ==
  [event : Requests, ai : Ais, sequence : Nat, previous : Requests \cup {None},
   type : EventTypes \cup {"ACTION_CONFIRMED", "ACTION_FAILED", "ACTION_UNAVAILABLE"},
   state : Validations,
   related : Requests \cup {None}, external : ExternalIds \cup {None}]

RequestRecords ==
  [input : Inputs \cup {None}, phase : Phases, claim : Requests \cup {None},
   tail : Requests \cup {None}, sequence : Nat, domain : {"AI_FLIGHT", "INCIDENT"}]

RecorderTypeOK ==
  /\ registered \subseteq Ais
  /\ lock \in [Ais -> Requests \cup {None}]
  /\ nextSequence \in Nat \ {0}
  /\ flight \subseteq Rows
  /\ request \in [Requests -> RequestRecords]

(* Type invariant: rows stay inside the CHECK lists of migration 005, locals *)
(* keep their domains.                                                       *)
TypeOK ==
  /\ RecorderTypeOK
  /\ alerts \subseteq [claim : Requests, result : Requests]
  /\ evidence \subseteq Requests
  /\ claims \subseteq Requests \X {"AI_FLIGHT", "INCIDENT"}
  /\ bindings \subseteq Requests \X {"AI_FLIGHT", "INCIDENT"} \X (Requests \cup Ais)
  /\ reader \in [Readers -> [ai : Ais \cup {None}, cursor : Nat, rows : SUBSET Rows, done : BOOLEAN]]
  /\ faults \in 0..MaxFaults

Before(row) == {other \in RowsOf(row.ai) : other.sequence < row.sequence}

(* However appends and confirmations interleave, fail and roll back, an AI's *)
(* records in sequence order are one hash chain: each names its immediate    *)
(* predecessor, and only the first names none, so integrity() finds no       *)
(* broken link in what the service itself has written (ai.ts:83-103,33-37).  *)
ChainLinear ==
  \A row \in flight :
    \/ Before(row) = {} /\ row.previous = None
    \/ \E prior \in Before(row) : /\ row.previous = prior.event
                                  /\ \A other \in Before(row) : other.sequence <= prior.sequence

(* A client that pages while others append has everything up to the last     *)
(* record it has seen: no record commits behind its cursor, although         *)
(* sequences are drawn before commits and rollbacks leave gaps               *)
(* (ai.ts:104, server.ts:199-202, public/ai.js:26).                          *)
TimelineComplete ==
  \A c \in Readers : \A seen \in reader[c].rows :
    \A row \in RowsOf(reader[c].ai) : row.sequence <= seen.sequence => row \in reader[c].rows

(* docs/ai-flight-recorder-slice.md:11: one externalEventId is confirmed at  *)
(* most once, even by concurrent requests about different AIs whose locks    *)
(* are different rows (db/005:23).                                           *)
ConfirmedOnce ==
  \A one, two \in flight : one.external # None /\ one.external = two.external => one = two

(* Only the connector turns a declaration into a result, and only a declared *)
(* action of the same AI that is already in its chain (ai.ts:95-96).         *)
ResultsAnswerClaims ==
  \A row \in flight :
    IF row.related = None THEN row.state = "DECLARED"
    ELSE \E claim \in Before(row) : claim.event = row.related /\ claim.type = "ACTION_REQUESTED"

Bound(q, domain, record) == <<q, domain, record>> \in bindings

Lineage(q, domain) == <<q, domain>> \in claims /\ Bound(q, domain, q)

(* What an answer says is so.  201: the event is in the chain with its       *)
(* lineage, and a contradiction has its alert and its incident lineage too.  *)
(* A refusal, 409 included, left no record (server.ts:187-192,241-247).      *)
AnswersAreTrue ==
  \A q \in Requests :
    LET records == {row \in flight : row.event = q}
    IN /\ request[q].phase = "201" =>
            /\ records # {}
            /\ \A row \in records :
                 IF row.related = None THEN Bound(q, "AI_FLIGHT", row.ai)
                 ELSE /\ q \in evidence /\ Lineage(q, "AI_FLIGHT")
                      /\ row.state = "CONFLICTING" =>
                           /\ [claim |-> row.related, result |-> q] \in alerts
                           /\ Lineage(q, "INCIDENT")
       /\ request[q].phase \in {"400", "404", "409", "422"} => records = {}
=============================================================================
