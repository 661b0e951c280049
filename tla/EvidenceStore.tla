---------------------------- MODULE EvidenceStore ----------------------------
(***************************************************************************)
(* The evidence kernel's store (Pg of src/src/evidence-store.ts): recording  *)
(* an observation once, appending statuses to its source, and judging claims *)
(* by EvidenceKernel's rule.                                                 *)
(*                                                                           *)
(* Every record is written with a source of its own, so a piece of evidence  *)
(* and its source share a number.  A transaction is a step that reads and a  *)
(* step that commits; a call may die between the two.  Times are hours.      *)
(* `looked` and `judged` are history: how many records, or statuses, were    *)
(* committed when the transaction read.                                      *)
(***************************************************************************)
EXTENDS EvidenceKernel, FiniteSets, Sequences

CONSTANTS Callers,       (* concurrent calls of the kernel                   *)
          Observations,  (* what may be recorded: subject, digest, type,     *)
                         (* validation and the hour it was observed          *)
          Statuses,      (* statuses a source may be given                   *)
          Requests,      (* states a claim is requested in                   *)
          MaxEvidence, MaxStatuses, MaxClaims, Horizon  (* bounds            *)

ASSUME HorizonOK == Horizon \in Nat

VARIABLES clock,     (* the hour                                             *)
          evidence,  (* canonical_evidence and its observation, in order     *)
          events,    (* evidence_source_status_events, as committed           *)
          claims,    (* claim_evaluations                                    *)
          call,      (* per caller: its open transaction                     *)
          begun      (* transactions of sourceStatus begun so far            *)

storeVars == <<clock, evidence, events, claims, call, begun>>

NoCall == [at |-> "idle"]

StoreInit ==
  /\ clock = 0
  /\ evidence = <<>>
  /\ events = <<>>
  /\ claims = {}
  /\ call = [c \in Callers |-> NoCall]
  /\ begun = 0

-----------------------------------------------------------------------------
(* record                                                                    *)

(* The replay key covers every field of the observation.                     *)
Known(o) == \E i \in 1..Len(evidence) : evidence[i].observation = o

(* assertObservation, and the SELECT by replay key: an observation already   *)
(* recorded is answered with its ids, and nothing is written.                *)
Look(c, o) ==
  /\ call[c] = NoCall
  /\ o.observed <= clock
  /\ ~Known(o)
  /\ call' = [call EXCEPT ![c] = [at |-> "recording", observation |-> o, looked |-> Len(evidence)]]
  /\ UNCHANGED <<clock, evidence, events, claims, begun>>

(* The three INSERTs commit: no index makes the replay key unique.           *)
Insert(c) ==
  /\ call[c].at = "recording"
  /\ Len(evidence) < MaxEvidence
  /\ evidence' = Append(evidence, [observation |-> call[c].observation, looked |-> call[c].looked])
  /\ call' = [call EXCEPT ![c] = NoCall]
  /\ UNCHANGED <<clock, events, claims, begun>>

-----------------------------------------------------------------------------
(* sourceStatus: any hour may be given as effective.  known_at is now() of   *)
(* the transaction, the moment it began, and no two are given one moment.    *)
File(c, s, status, hour) ==
  /\ call[c] = NoCall
  /\ begun < MaxStatuses
  /\ call' = [call EXCEPT ![c] =
                [at |-> "filing",
                 event |-> [source |-> s, status |-> status, effective |-> hour, known |-> begun]]]
  /\ begun' = begun + 1
  /\ UNCHANGED <<clock, evidence, events, claims>>

CommitStatus(c) ==
  /\ call[c].at = "filing"
  /\ events' = Append(events, call[c].event)
  /\ call' = [call EXCEPT ![c] = NoCall]
  /\ UNCHANGED <<clock, evidence, claims, begun>>

OutranksByArrival(k, j) == k > j

(* k outranks j by effective_at, then by known_at.                           *)
Outranks(k, j) ==
  \/ events[k].effective > events[j].effective
  \/ events[k].effective = events[j].effective /\ events[k].known > events[j].known

EventsOf(s) == {k \in 1..Len(events) : events[k].source = s}

CurrentStatus(s) ==
  IF EventsOf(s) = {} THEN "ACTIVE"
  ELSE events[CHOOSE k \in EventsOf(s) : \A j \in EventsOf(s) \ {k} : Outranks(k, j)].status

-----------------------------------------------------------------------------
(* claim                                                                     *)

Piece(e) ==
  LET o == evidence[e].observation
  IN [validation |-> o.validation, source |-> CurrentStatus(e), type |-> o.type,
      age |-> clock - o.observed, subject |-> o.subject, digest |-> o.digest]

Claiming == {c \in Callers : call[c].at = "claiming"}

(* The SELECT and the rule; a refused claim writes nothing.                  *)
Judge(c, requested, ids) ==
  /\ call[c] = NoCall
  /\ Cardinality(claims) + Cardinality(Claiming) < MaxClaims
  /\ ClaimAccepted(requested, {Piece(e) : e \in ids})
  /\ call' = [call EXCEPT ![c] =
                [at |-> "claiming", claim |-> [state |-> requested, ids |-> ids, judged |-> Len(events)]]]
  /\ UNCHANGED <<clock, evidence, events, claims, begun>>

(* Finding, links, claim and evaluation commit together.                     *)
CommitClaim(c) ==
  /\ call[c].at = "claiming"
  /\ claims' = claims \cup {call[c].claim}
  /\ call' = [call EXCEPT ![c] = NoCall]
  /\ UNCHANGED <<clock, evidence, events, begun>>

-----------------------------------------------------------------------------
(* An open transaction rolls back: a lost connection, a dead process.        *)
CallDies(c) ==
  /\ call[c] # NoCall
  /\ call' = [call EXCEPT ![c] = NoCall]
  /\ UNCHANGED <<clock, evidence, events, claims, begun>>

HourPasses ==
  /\ clock < Horizon
  /\ clock' = clock + 1
  /\ UNCHANGED <<evidence, events, claims, call, begun>>

StoreNext ==
  \/ \E c \in Callers :
       \/ \E o \in Observations : Look(c, o)
       \/ Insert(c)
       \/ \E ids \in SUBSET (1..Len(evidence)) \ {{}}, requested \in Requests :
            Judge(c, requested, ids)
       \/ CommitClaim(c)
       \/ \E s \in 1..Len(evidence), status \in Statuses, hour \in 0..Horizon : File(c, s, status, hour)
       \/ CommitStatus(c)
       \/ CallDies(c)
  \/ HourPasses

StoreSpec == StoreInit /\ [][StoreNext]_storeVars

-----------------------------------------------------------------------------
Twins(i, j) == evidence[i].observation = evidence[j].observation

(* The later of two records was looked up before the earlier was committed.  *)
Overlapped(i, j) == IF i < j THEN evidence[j].looked < i ELSE evidence[i].looked < j

(* A withdrawn source supports nothing: a SUPPORTED claim judged after the   *)
(* source of its observation was withdrawn exists only where another status  *)
(* outranks the withdrawal (one dated in the future included), or where the  *)
(* claim rests on a twin record of the observation, written by a call that   *)
(* overlapped the first (evidence-store.ts:10).                              *)
WithdrawnSupportsNothing ==
  \A c \in claims : c.state = "SUPPORTED" =>
    \A e \in c.ids, i \in 1..Len(evidence) :
      Twins(e, i) =>
        \A k \in 1..c.judged : events[k].source = i /\ events[k].status # "ACTIVE" =>
          \/ \E j \in 1..c.judged : events[j].source = i /\ events[j].status = "ACTIVE"
               /\ \/ events[j].effective > events[k].effective
                  \/ events[j].effective = events[k].effective /\ events[j].known > events[k].known
          \/ i # e /\ Overlapped(e, i)
=============================================================================
