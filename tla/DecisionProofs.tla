---------------------------- MODULE DecisionProofs ----------------------------
(***************************************************************************)
(* The decision rules, without the bounds of the model that is checked: the  *)
(* evidence store's claims, for any number of callers, records, statuses and *)
(* claims; the authority rule, for every input and time; and the resolvers'  *)
(* verdicts, for any findings of any number of providers.                    *)
(***************************************************************************)
EXTENDS MCDecisions, TLAPS

-----------------------------------------------------------------------------
(* The evidence store.  The invariant: a call that looks a record up has not *)
(* overlooked any; of two records of one observation the later was looked up *)
(* before the earlier was there; no two statuses, filed or on their way, are *)
(* known from one moment, so those of a source stand in an order with one on *)
(* top; and what a judged claim rests on was active then.                    *)

Records == [observation : Observations, looked : Nat]
Events == [source : Nat, status : Statuses, effective : Int, known : Nat]

CallOK(c) ==
  CASE call[c].at = "idle"      -> TRUE
    [] call[c].at = "recording" -> call[c].observation \in Observations /\ call[c].looked \in 0..Len(evidence)
    [] call[c].at = "filing"    -> call[c].event \in Events
    [] call[c].at = "claiming"  -> TRUE
    [] OTHER                    -> FALSE

StoreTypes ==
  /\ evidence \in Seq(Records)
  /\ events \in Seq(Events)
  /\ call = [c \in Callers |-> call[c]]
  /\ \A c \in Callers : CallOK(c)
  /\ begun \in Nat

LookedWell ==
  \A c \in Callers : call[c].at = "recording" =>
    \A i \in 1..call[c].looked : evidence[i].observation # call[c].observation

TwinsOverlap ==
  \A i, j \in 1..Len(evidence) : i < j /\ Twins(i, j) => evidence[j].looked < i

KnownApart ==
  /\ \A k \in 1..Len(events) : events[k].known < begun
  /\ \A k, j \in 1..Len(events) : k # j => events[k].known # events[j].known
  /\ \A c \in Callers : call[c].at = "filing" =>
       /\ call[c].event.known < begun
       /\ \A k \in 1..Len(events) : events[k].known # call[c].event.known
       /\ \A d \in Callers \ {c} : call[d].at = "filing" => call[d].event.known # call[c].event.known

TopStatus(s, k) == k \in EventsOf(s) /\ \A j \in EventsOf(s) \ {k} : Outranks(k, j)

StatusesRanked == \A s : EventsOf(s) # {} => \E k : TopStatus(s, k)

(* Every withdrawal of s among the first m statuses is outranked.            *)
Upheld(s, m) ==
  \A k \in 1..m : events[k].source = s /\ events[k].status # "ACTIVE" =>
    \E j \in 1..m : /\ events[j].source = s /\ events[j].status = "ACTIVE"
                    /\ \/ events[j].effective > events[k].effective
                       \/ events[j].effective = events[k].effective /\ events[j].known > events[k].known

WellJudged(claim) ==
  /\ claim.judged \in 0..Len(events)
  /\ claim.ids \subseteq 1..Len(evidence)
  /\ claim.state = "SUPPORTED" => \A e \in claim.ids : Upheld(e, claim.judged)

ClaimsUpheld ==
  /\ \A claim \in claims : WellJudged(claim)
  /\ \A c \in Callers : call[c].at = "claiming" => WellJudged(call[c].claim)

StoreInv == StoreTypes /\ LookedWell /\ TwinsOverlap /\ KnownApart /\ StatusesRanked /\ ClaimsUpheld

LEMMA EventTypes ==
  ASSUME StoreInv
  PROVE  \A k \in 1..Len(events) : events[k].effective \in Int /\ events[k].known \in Nat
<1>1. \A k \in 1..Len(events) : events[k] \in Events
  BY DEF StoreInv, StoreTypes
<1>. QED
  BY <1>1 DEF Events

(* The status that counts, when there is one, tops all others.               *)
LEMMA CurrentIsTop ==
  ASSUME StoreInv, NEW s, EventsOf(s) # {}
  PROVE  \E k : TopStatus(s, k) /\ CurrentStatus(s) = events[k].status
<1> DEFINE top == CHOOSE k \in EventsOf(s) : \A j \in EventsOf(s) \ {k} : Outranks(k, j)
<1>1. \E k \in EventsOf(s) : \A j \in EventsOf(s) \ {k} : Outranks(k, j)
  BY DEF StoreInv, StatusesRanked, TopStatus
<1>2. top \in EventsOf(s) /\ \A j \in EventsOf(s) \ {top} : Outranks(top, j)
  BY <1>1
<1>3. CurrentStatus(s) = events[top].status
  BY DEF CurrentStatus
<1>. QED
  BY <1>2, <1>3 DEF TopStatus

(* A source that is active now has no withdrawal that counts.                *)
LEMMA ActiveUpheld ==
  ASSUME StoreInv, NEW s, CurrentStatus(s) = "ACTIVE"
  PROVE  Upheld(s, Len(events))
<1> SUFFICES ASSUME NEW k \in 1..Len(events), events[k].source = s, events[k].status # "ACTIVE"
             PROVE  \E j \in 1..Len(events) :
                      /\ events[j].source = s /\ events[j].status = "ACTIVE"
                      /\ \/ events[j].effective > events[k].effective
                         \/ events[j].effective = events[k].effective /\ events[j].known > events[k].known
  BY DEF Upheld
<1>1. k \in EventsOf(s)
  BY DEF EventsOf
<1>2. PICK j : TopStatus(s, j) /\ events[j].status = "ACTIVE"
  BY <1>1, CurrentIsTop
<1>3. j \in 1..Len(events) /\ events[j].source = s /\ Outranks(j, k)
  BY <1>1, <1>2 DEF TopStatus, EventsOf
<1>. QED
  BY <1>2, <1>3 DEF Outranks

(* One status more: the order still has one on top.                          *)
LEMMA RankedStep ==
  ASSUME StoreInv, NEW x \in Events, events' = Append(events, x),
         \A k \in 1..Len(events) : events[k].known # x.known
  PROVE  StatusesRanked'
<1>0. PICK n : n = Len(events) + 1
  OBVIOUS
<1>1. /\ events \in Seq(Events) /\ Len(events) \in Nat /\ Len(events') = n /\ n \notin 1..Len(events)
      /\ events'[n] = x /\ \A k \in 1..Len(events) : events'[k] = events[k]
  BY <1>0 DEF StoreInv, StoreTypes
<1>2. \A k \in 1..Len(events) : events[k].effective \in Int /\ events[k].known \in Nat
  BY EventTypes
<1>3. x.effective \in Int /\ x.known \in Nat
  BY DEF Events
<1> SUFFICES ASSUME NEW s, EventsOf(s)' # {} PROVE \E k : TopStatus(s, k)'
  BY DEF StatusesRanked
<1>4. EventsOf(s)' = IF x.source = s THEN EventsOf(s) \cup {n} ELSE EventsOf(s)
  BY <1>1 DEF EventsOf
<1>5. /\ EventsOf(s) \subseteq 1..Len(events)
      /\ \A k, j \in EventsOf(s) : Outranks(k, j)' <=> Outranks(k, j)
  BY <1>1 DEF EventsOf, Outranks
<1>6. CASE EventsOf(s) = {}
  <2>1. TopStatus(s, n)'
    BY <1>4, <1>6 DEF TopStatus
  <2>. QED
    BY <2>1
<1>7. CASE EventsOf(s) # {}
  <2>1. PICK k : TopStatus(s, k)
    BY <1>7 DEF StoreInv, StatusesRanked
  <2>2. k \in EventsOf(s) /\ k \in 1..Len(events) /\ k # n
    BY <1>1, <1>5, <2>1 DEF TopStatus
  <2>3. CASE x.source # s
    <3>1. TopStatus(s, k)'
      BY <1>4, <1>5, <2>1, <2>3 DEF TopStatus
    <3>. QED
      BY <3>1
  <2>4. ASSUME x.source = s, Outranks(k, n)' PROVE \E i : TopStatus(s, i)'
    <3>1. TopStatus(s, k)'
      BY <1>4, <1>5, <2>1, <2>4 DEF TopStatus
    <3>. QED
      BY <3>1
  <2>5. ASSUME x.source = s, ~Outranks(k, n)' PROVE \E i : TopStatus(s, i)'
    <3>1. \/ x.effective > events[k].effective
          \/ x.effective = events[k].effective /\ x.known > events[k].known
      BY <1>1, <1>2, <1>3, <2>2, <2>5 DEF Outranks
    <3>2. \A j \in EventsOf(s) : Outranks(n, j)'
      <4> SUFFICES ASSUME NEW j \in EventsOf(s) PROVE Outranks(n, j)'
        OBVIOUS
      <4>1. j \in 1..Len(events) /\ (j = k \/ Outranks(k, j))
        BY <1>5, <2>1 DEF TopStatus
      <4>. QED
        BY <1>1, <1>2, <1>3, <2>2, <3>1, <4>1 DEF Outranks
    <3>3. TopStatus(s, n)'
      BY <1>4, <2>5, <3>2 DEF TopStatus
    <3>. QED
      BY <3>3
  <2>. QED
    BY <2>3, <2>4, <2>5
<1>. QED
  BY <1>6, <1>7

(* What was well judged stays so while records and statuses are only added.  *)
LEMMA JudgedStays ==
  ASSUME StoreInv, NEW claim, WellJudged(claim),
         Len(events) \in Nat, Len(events)' \in Nat, Len(events) <= Len(events)',
         Len(evidence) \in Nat, Len(evidence)' \in Nat, Len(evidence) <= Len(evidence)',
         \A k \in 1..Len(events) : events'[k] = events[k]
  PROVE  WellJudged(claim)'
<1>1. claim.judged \in 0..Len(events)' /\ claim.ids \subseteq 1..Len(evidence)'
  BY DEF WellJudged
<1>2. \A k \in 1..claim.judged : events'[k] = events[k]
  BY DEF WellJudged
<1>3. ASSUME NEW e, Upheld(e, claim.judged) PROVE Upheld(e, claim.judged)'
  <2> SUFFICES ASSUME NEW k \in 1..claim.judged, events'[k].source = e, events'[k].status # "ACTIVE"
               PROVE  \E j \in 1..claim.judged :
                        /\ events'[j].source = e /\ events'[j].status = "ACTIVE"
                        /\ \/ events'[j].effective > events'[k].effective
                           \/ events'[j].effective = events'[k].effective /\ events'[j].known > events'[k].known
    BY DEF Upheld
  <2>1. PICK j \in 1..claim.judged :
          /\ events[j].source = e /\ events[j].status = "ACTIVE"
          /\ \/ events[j].effective > events[k].effective
             \/ events[j].effective = events[k].effective /\ events[j].known > events[k].known
    BY <1>2, <1>3 DEF Upheld
  <2>. QED
    BY <1>2, <2>1
<1>. QED
  BY <1>1, <1>3 DEF WellJudged

LEMMA Lengths ==
  ASSUME StoreInv
  PROVE  Len(events) \in Nat /\ Len(evidence) \in Nat
BY DEF StoreInv, StoreTypes

LEMMA RankedSame ==
  ASSUME StatusesRanked, events' = events
  PROVE  StatusesRanked'
<1>1. \A s : EventsOf(s)' = EventsOf(s)
  BY DEF EventsOf
<1>2. \A k, j : Outranks(k, j)' <=> Outranks(k, j)
  BY DEF Outranks
<1>3. \A s, k : TopStatus(s, k)' <=> TopStatus(s, k)
  BY <1>1, <1>2 DEF TopStatus
<1>. QED
  BY <1>1, <1>3 DEF StatusesRanked

(* A call moves to x and writes nothing; the moment it files at is its own.  *)
LEMMA CallStep ==
  ASSUME StoreInv, NEW c \in Callers, NEW x, call' = [call EXCEPT ![c] = x], UNCHANGED <<evidence, events, claims>>,
         x.at \in {"idle", "recording", "filing", "claiming"},
         begun' = begun \/ begun' = begun + 1,
         x.at = "filing" => x.event \in Events /\ x.event.known = begun /\ begun' = begun + 1,
         x.at = "recording" => /\ x.observation \in Observations /\ x.looked \in 0..Len(evidence)
                               /\ \A i \in 1..x.looked : evidence[i].observation # x.observation,
         x.at = "claiming" => WellJudged(x.claim)
  PROVE  StoreInv'
<1>1. call' = [d \in Callers |-> call'[d]] /\ call'[c] = x /\ \A d \in Callers \ {c} : call'[d] = call[d]
  BY DEF StoreInv, StoreTypes
<1>2. \A d \in Callers : CallOK(d)'
  BY <1>1 DEF StoreInv, StoreTypes, CallOK
<1>3. LookedWell'
  BY <1>1 DEF StoreInv, LookedWell
<1>4. \A claim : WellJudged(claim)' <=> WellJudged(claim)
  BY DEF WellJudged, Upheld
<1>5. ClaimsUpheld'
  BY <1>1, <1>4 DEF StoreInv, ClaimsUpheld
<1>6. TwinsOverlap'
  BY DEF StoreInv, TwinsOverlap, Twins
<1>7. StatusesRanked'
  BY RankedSame DEF StoreInv
<1>8. begun \in Nat /\ \A d \in Callers : call[d].at = "filing" => call[d].event.known \in Nat
  BY DEF StoreInv, StoreTypes, CallOK, Events
<1>9. \A k \in 1..Len(events) : events[k].known \in Nat
  BY EventTypes
<1>10. KnownApart'
  BY <1>1, <1>8, <1>9 DEF StoreInv, KnownApart
<1>. QED
  BY <1>1, <1>2, <1>3, <1>5, <1>6, <1>7, <1>8, <1>10 DEF StoreInv, StoreTypes

(* A call that ends leaves the moments of the others apart.                  *)
LEMMA ApartStays ==
  ASSUME StoreInv, NEW c \in Callers, call' = [call EXCEPT ![c] = NoCall], UNCHANGED <<events, begun>>
  PROVE  KnownApart'
<1>1. NoCall.at = "idle"
  BY DEF NoCall
<1>2. call' = [d \in Callers |-> call'[d]] /\ call'[c] = NoCall /\ \A d \in Callers \ {c} : call'[d] = call[d]
  BY DEF StoreInv, StoreTypes
<1>. QED
  BY <1>1, <1>2 DEF StoreInv, KnownApart

LEMMA LookStep ==
  ASSUME StoreInv, NEW c \in Callers, NEW o \in Observations, Look(c, o)
  PROVE  StoreInv'
<1> DEFINE x == [at |-> "recording", observation |-> o, looked |-> Len(evidence)]
<1>1. call' = [call EXCEPT ![c] = x] /\ UNCHANGED <<evidence, events, claims, begun>>
  BY DEF Look
<1>2. x.at = "recording" /\ x.observation = o /\ x.looked = Len(evidence) /\ x.looked \in 0..Len(evidence)
  BY Lengths
<1>3. \A i \in 1..Len(evidence) : evidence[i].observation # o
  BY DEF Look, Known
<1> HIDE DEF x
<1>. QED
  BY <1>1, <1>2, <1>3, CallStep

(* The record written is later than every one it was compared with.          *)
LEMMA InsertStep ==
  ASSUME StoreInv, NEW c \in Callers, Insert(c)
  PROVE  StoreInv'
<1>0. PICK n : n = Len(evidence) + 1
  OBVIOUS
<1> DEFINE r == [observation |-> call[c].observation, looked |-> call[c].looked]
<1>1. /\ call[c].at = "recording" /\ evidence' = Append(evidence, r)
      /\ call' = [call EXCEPT ![c] = NoCall] /\ UNCHANGED <<events, claims, begun>>
  BY DEF Insert
<1>2. /\ call[c].observation \in Observations /\ call[c].looked \in 0..Len(evidence)
      /\ \A i \in 1..call[c].looked : evidence[i].observation # call[c].observation
  BY <1>1 DEF StoreInv, StoreTypes, CallOK, LookedWell
<1>3. r \in Records /\ r.observation = call[c].observation /\ r.looked = call[c].looked
  BY <1>2, Lengths DEF Records
<1> HIDE DEF r
<1>4. /\ evidence' \in Seq(Records) /\ Len(evidence)' = n /\ evidence'[n] = r
      /\ \A i \in 1..Len(evidence) : evidence'[i] = evidence[i]
  BY <1>0, <1>1, <1>3 DEF StoreInv, StoreTypes
<1>5. call' = [d \in Callers |-> call'[d]] /\ call'[c] = NoCall /\ \A d \in Callers \ {c} : call'[d] = call[d]
  BY <1>1 DEF StoreInv, StoreTypes
<1>6. NoCall.at = "idle"
  BY DEF NoCall
<1>7. \A d \in Callers : CallOK(d)'
  BY <1>0, <1>4, <1>5, <1>6, Lengths DEF StoreInv, StoreTypes, CallOK
<1>8. LookedWell'
  <2> SUFFICES ASSUME NEW d \in Callers, call'[d].at = "recording", NEW i \in 1..call'[d].looked
               PROVE  evidence'[i].observation # call'[d].observation
    BY DEF LookedWell
  <2>1. call'[d] = call[d]
    BY <1>5, <1>6
  <2>2. call[d].looked \in 0..Len(evidence)
    BY <2>1 DEF StoreInv, StoreTypes, CallOK
  <2>3. i \in 1..Len(evidence)
    BY <2>1, <2>2, Lengths
  <2>. QED
    BY <1>4, <2>1, <2>3 DEF StoreInv, LookedWell
<1>9. TwinsOverlap'
  <2> SUFFICES ASSUME NEW i \in 1..n, NEW j \in 1..n, i < j, Twins(i, j)'
               PROVE  evidence'[j].looked < i
    BY <1>4 DEF TwinsOverlap
  <2>1. i \in 1..Len(evidence) /\ evidence'[i] = evidence[i]
    BY <1>0, <1>4, Lengths
  <2>2. CASE j = n
    <3>1. evidence[i].observation = call[c].observation
      BY <1>3, <1>4, <2>1, <2>2 DEF Twins
    <3>2. ~(i <= call[c].looked)
      BY <1>2, <2>1, <3>1
    <3>. QED
      BY <1>2, <1>3, <1>4, <2>1, <2>2, <3>2
  <2>3. CASE j # n
    <3>1. j \in 1..Len(evidence) /\ evidence'[j] = evidence[j]
      BY <1>0, <1>4, <2>3, Lengths
    <3>. QED
      BY <2>1, <3>1 DEF StoreInv, TwinsOverlap, Twins
  <2>. QED
    BY <2>2, <2>3
<1>10. \A claim : WellJudged(claim) => WellJudged(claim)'
  BY <1>0, <1>1, <1>4, Lengths, JudgedStays
<1>11. ClaimsUpheld'
  BY <1>1, <1>5, <1>6, <1>10 DEF StoreInv, ClaimsUpheld
<1>12. StatusesRanked' /\ KnownApart'
  BY <1>1, RankedSame, ApartStays DEF StoreInv
<1>. QED
  BY <1>1, <1>4, <1>5, <1>7, <1>8, <1>9, <1>11, <1>12 DEF StoreInv, StoreTypes

LEMMA FileStep ==
  ASSUME StoreInv, NEW c \in Callers, NEW s \in 1..Len(evidence), NEW status \in Statuses, NEW hour \in 0..Horizon,
         File(c, s, status, hour)
  PROVE  StoreInv'
<1> DEFINE event == [source |-> s, status |-> status, effective |-> hour, known |-> begun]
           x == [at |-> "filing", event |-> event]
<1>1. call' = [call EXCEPT ![c] = x] /\ begun' = begun + 1 /\ UNCHANGED <<evidence, events, claims>>
  BY DEF File
<1>2. event \in Events /\ event.known = begun
  BY HorizonOK, Lengths DEF Events, StoreInv, StoreTypes
<1>3. x.at = "filing" /\ x.event = event
  OBVIOUS
<1> HIDE DEF event, x
<1>. QED
  BY <1>1, <1>2, <1>3, CallStep

LEMMA CommitStatusStep ==
  ASSUME StoreInv, NEW c \in Callers, CommitStatus(c)
  PROVE  StoreInv'
<1>0. PICK n : n = Len(events) + 1
  OBVIOUS
<1> DEFINE x == call[c].event
<1>1. /\ call[c].at = "filing" /\ events' = Append(events, x)
      /\ call' = [call EXCEPT ![c] = NoCall] /\ UNCHANGED <<evidence, claims, begun>>
  BY DEF CommitStatus
<1>2. /\ x \in Events /\ x.known < begun
      /\ \A k \in 1..Len(events) : events[k].known # x.known
      /\ \A d \in Callers \ {c} : call[d].at = "filing" => call[d].event.known # x.known
  BY <1>1 DEF StoreInv, StoreTypes, CallOK, KnownApart
<1> HIDE DEF x
<1>3. /\ events' \in Seq(Events) /\ Len(events)' = n /\ events'[n] = x
      /\ \A k \in 1..Len(events) : events'[k] = events[k]
  BY <1>0, <1>1, <1>2 DEF StoreInv, StoreTypes
<1>4. /\ call' = [d \in Callers |-> call'[d]] /\ call'[c] = NoCall /\ NoCall.at = "idle"
      /\ \A d \in Callers \ {c} : call'[d] = call[d]
  BY <1>1 DEF StoreInv, StoreTypes, NoCall
<1>5. StatusesRanked'
  BY <1>1, <1>2, RankedStep
<1>6. KnownApart'
  <2>1. \A k \in 1..n : k = n \/ (k \in 1..Len(events) /\ events'[k] = events[k])
    BY <1>0, <1>3, Lengths
  <2>. QED
    BY <1>1, <1>2, <1>3, <1>4, <2>1 DEF StoreInv, KnownApart
<1>7. \A claim : WellJudged(claim) => WellJudged(claim)'
  BY <1>0, <1>1, <1>3, Lengths, JudgedStays
<1>8. ClaimsUpheld'
  BY <1>1, <1>4, <1>7 DEF StoreInv, ClaimsUpheld
<1>9. LookedWell' /\ TwinsOverlap' /\ \A d \in Callers : CallOK(d)'
  BY <1>1, <1>4 DEF StoreInv, StoreTypes, LookedWell, TwinsOverlap, Twins, CallOK
<1>. QED
  BY <1>1, <1>3, <1>4, <1>5, <1>6, <1>8, <1>9 DEF StoreInv, StoreTypes

(* A claim is accepted as SUPPORTED only on sources active now.              *)
LEMMA JudgeStep ==
  ASSUME StoreInv, NEW c \in Callers, NEW requested, NEW ids \in SUBSET (1..Len(evidence)), Judge(c, requested, ids)
  PROVE  StoreInv'
<1> DEFINE claim == [state |-> requested, ids |-> ids, judged |-> Len(events)]
           x == [at |-> "claiming", claim |-> claim]
<1>1. call' = [call EXCEPT ![c] = x] /\ UNCHANGED <<evidence, events, claims, begun>>
  BY DEF Judge
<1>2. requested = "SUPPORTED" => \A e \in ids : Upheld(e, Len(events))
  <2> SUFFICES ASSUME requested = "SUPPORTED", NEW e \in ids PROVE CurrentStatus(e) = "ACTIVE"
    BY ActiveUpheld
  <2>1. Piece(e).source = "ACTIVE"
    BY DEF Judge, ClaimAccepted, SourceRefuses
  <2>. QED
    BY <2>1 DEF Piece
<1>3. claim.state = requested /\ claim.ids = ids /\ claim.judged = Len(events)
  OBVIOUS
<1>4. x.at = "claiming" /\ x.claim = claim
  OBVIOUS
<1> HIDE DEF claim, x
<1>5. WellJudged(claim)
  <2>1. claim.judged \in 0..Len(events) /\ claim.ids \subseteq 1..Len(evidence)
    BY <1>3, Lengths
  <2>2. claim.state = "SUPPORTED" => \A e \in claim.ids : Upheld(e, claim.judged)
    BY <1>2, <1>3
  <2>. QED
    BY <2>1, <2>2 DEF WellJudged
<1>. QED
  BY <1>1, <1>4, <1>5, CallStep

LEMMA CommitClaimStep ==
  ASSUME StoreInv, NEW c \in Callers, CommitClaim(c)
  PROVE  StoreInv'
<1>1. /\ WellJudged(call[c].claim) /\ claims' = claims \cup {call[c].claim}
      /\ call' = [call EXCEPT ![c] = NoCall] /\ UNCHANGED <<evidence, events, begun>>
  BY DEF CommitClaim, StoreInv, ClaimsUpheld
<1>2. call' = [d \in Callers |-> call'[d]] /\ call'[c] = NoCall /\ \A d \in Callers \ {c} : call'[d] = call[d]
  BY <1>1 DEF StoreInv, StoreTypes
<1>3. NoCall.at = "idle"
  BY DEF NoCall
<1>4. \A claim : WellJudged(claim)' <=> WellJudged(claim)
  BY <1>1 DEF WellJudged, Upheld
<1>5. ClaimsUpheld'
  BY <1>1, <1>2, <1>3, <1>4 DEF StoreInv, ClaimsUpheld
<1>6. LookedWell' /\ \A d \in Callers : CallOK(d)'
  BY <1>1, <1>2, <1>3 DEF StoreInv, StoreTypes, LookedWell, CallOK
<1>7. TwinsOverlap'
  BY <1>1 DEF StoreInv, TwinsOverlap, Twins
<1>8. StatusesRanked' /\ KnownApart'
  BY <1>1, RankedSame, ApartStays DEF StoreInv
<1>. QED
  BY <1>1, <1>2, <1>5, <1>6, <1>7, <1>8 DEF StoreInv, StoreTypes

LEMMA StoreStep == StoreInv /\ [StoreNext]_storeVars => StoreInv'
<1> SUFFICES ASSUME StoreInv, [StoreNext]_storeVars PROVE StoreInv'
  OBVIOUS
<1>1. CASE UNCHANGED <<evidence, events, claims, call, begun>>
  <2>1. LookedWell' /\ TwinsOverlap'
    BY <1>1 DEF StoreInv, LookedWell, TwinsOverlap, Twins
  <2>2. StatusesRanked' /\ KnownApart'
    BY <1>1, RankedSame DEF StoreInv, KnownApart
  <2>3. \A claim : WellJudged(claim)' <=> WellJudged(claim)
    BY <1>1 DEF WellJudged, Upheld
  <2>4. ClaimsUpheld'
    BY <1>1, <2>3 DEF StoreInv, ClaimsUpheld
  <2>5. \A c \in Callers : CallOK(c)'
    BY <1>1 DEF StoreInv, StoreTypes, CallOK
  <2>. QED
    BY <1>1, <2>1, <2>2, <2>4, <2>5 DEF StoreInv, StoreTypes
<1>2. ASSUME NEW c \in Callers, CallDies(c)
      PROVE  StoreInv'
  <2>1. NoCall.at = "idle"
    BY DEF NoCall
  <2>. QED
    BY <1>2, <2>1, CallStep DEF CallDies
<1>3. \/ UNCHANGED <<evidence, events, claims, call, begun>>
      \/ \E c \in Callers :
           \/ \E o \in Observations : Look(c, o)
           \/ Insert(c) \/ CommitStatus(c) \/ CommitClaim(c) \/ CallDies(c)
           \/ \E requested \in Requests, ids \in SUBSET (1..Len(evidence)) : Judge(c, requested, ids)
           \/ \E s \in 1..Len(evidence), status \in Statuses, hour \in 0..Horizon : File(c, s, status, hour)
  BY DEF StoreNext, HourPasses, storeVars
<1>. QED
  BY <1>1, <1>2, <1>3, LookStep, InsertStep, FileStep, CommitStatusStep, JudgeStep, CommitClaimStep

LEMMA StoreStart == StoreInit => StoreInv
<1> SUFFICES ASSUME StoreInit PROVE StoreInv
  OBVIOUS
<1>1. evidence = <<>> /\ events = <<>> /\ claims = {} /\ begun = 0 /\ \A c \in Callers : call[c].at = "idle"
  BY DEF StoreInit, NoCall
<1>2. StoreTypes
  BY <1>1 DEF StoreInit, StoreTypes, CallOK
<1>3. \A s : EventsOf(s) = {}
  BY <1>1 DEF EventsOf
<1>. QED
  BY <1>1, <1>2, <1>3 DEF StoreInv, LookedWell, TwinsOverlap, KnownApart, StatusesRanked, ClaimsUpheld

(* A SUPPORTED claim judged after the withdrawal of its source, or of the    *)
(* source of a twin that did not overlap its own record, stands only where   *)
(* another status outranks the withdrawal (evidence-store.ts:10).            *)
THEOREM WithdrawalsCount == StoreSpec => []WithdrawnSupportsNothing
<1>1. StoreInv => WithdrawnSupportsNothing
  <2> SUFFICES ASSUME StoreInv, NEW c \in claims, c.state = "SUPPORTED",
                      NEW e \in c.ids, NEW i \in 1..Len(evidence), Twins(e, i), i = e \/ ~Overlapped(e, i),
                      NEW k \in 1..c.judged, events[k].source = i, events[k].status # "ACTIVE"
               PROVE  \E j \in 1..c.judged :
                        /\ events[j].source = i /\ events[j].status = "ACTIVE"
                        /\ \/ events[j].effective > events[k].effective
                           \/ events[j].effective = events[k].effective /\ events[j].known > events[k].known
    BY DEF WithdrawnSupportsNothing
  <2>1. WellJudged(c)
    BY DEF StoreInv, ClaimsUpheld
  <2>2. e \in 1..Len(evidence)
    BY <2>1 DEF WellJudged
  <2>3. i = e
    <3>1. Twins(i, e)
      BY DEF Twins
    <3>. QED
      BY <2>2, <3>1, Lengths DEF StoreInv, TwinsOverlap, Overlapped
  <2>. QED
    BY <2>1, <2>3 DEF WellJudged, Upheld
<1>. QED
  BY <1>1, StoreStart, StoreStep, PTL DEF StoreSpec

-----------------------------------------------------------------------------
(* Authority.  Part by part, what neither denies nor leaves in doubt is what  *)
(* the rule asks for.                                                        *)
LEMMA GrantsRule ==
  ASSUME NEW l \in License, NEW m \in Mission, NEW t \in Int
  PROVE  (~GrantTimesMalformed(l, m) /\ ~LicenceOutsideValidity(l, t) /\ ~MissionInactive(m, t))
           <=> /\ Open(l.from, l.until, t)
               /\ Open(m.starts, m.expires, t) /\ m.expires # Null /\ m.ended = Null
<1>1. /\ l.from \in Time /\ l.until \in Time
      /\ m.starts \in Time /\ m.expires \in Time /\ m.ended \in Time
  BY DEF License, Mission
<1>2. \A x \in Time : Parsed(x) <=> x \in Int
  BY TimesOK DEF Time, Parsed
<1>3. Parsed(l.from) /\ l.until # Malformed /\ ~LicenceOutsideValidity(l, t) <=> Open(l.from, l.until, t)
  <2>1. CASE l.until = Malformed
    BY <2>1, TimesOK DEF Open, Parsed
  <2>2. CASE l.until = Null
    BY <1>1, <1>2, <2>2, TimesOK DEF LicenceOutsideValidity, Open
  <2>3. CASE l.until \in Int
    BY <1>1, <1>2, <2>3, TimesOK DEF LicenceOutsideValidity, Open
  <2>. QED
    BY <1>1, <2>1, <2>2, <2>3 DEF Time
<1>4. Parsed(m.starts) /\ Parsed(m.expires) /\ m.ended # Malformed /\ ~MissionInactive(m, t)
        <=> Open(m.starts, m.expires, t) /\ m.expires # Null /\ m.ended = Null
  <2>1. CASE m.expires \in Int /\ m.starts \in Int
    BY <1>2, <2>1, TimesOK DEF MissionInactive, Open, Time
  <2>2. CASE m.expires \notin Int \/ m.starts \notin Int
    <3>1. ~(Parsed(m.starts) /\ Parsed(m.expires))
      BY <1>1, <1>2, <2>2
    <3>2. m.expires = Null \/ ~Parsed(m.expires) \/ ~Parsed(m.starts)
      BY <3>1
    <3>. QED
      BY <3>1, <3>2 DEF Open
  <2>. QED
    BY <2>1, <2>2
<1>. QED
  BY <1>3, <1>4 DEF GrantTimesMalformed

LEMMA DelegationRule ==
  ASSUME NEW i \in AuthorityInput, NEW t \in Int, i.action.known
  PROVE  (i.delegation.given => DelegationEstablished(i.delegation)) /\ ~DelegationDenies(i, t)
           <=> (i.delegation.given =>
                  /\ i.license.class <= i.delegation.class /\ i.delegation.class <= i.mission.maxClass
                  /\ i.delegation.hashed /\ i.delegation.inScope /\ i.delegation.endorsed
                  /\ Parsed(i.delegation.expires) /\ t < i.delegation.expires)
<1>1. /\ i.delegation \in Delegation /\ i.license.class \in Int /\ i.mission.maxClass \in Int
      /\ i.delegation.class \in Int /\ i.delegation.expires \in Time
  BY DEF AuthorityInput, License, Mission, Delegation
<1>2. Parsed(i.delegation.expires) => i.delegation.expires \in Int
  BY <1>1 DEF Time, Parsed
<1>. QED
  BY <1>1, <1>2 DEF DelegationEstablished, DelegationDenies

LEMMA ApprovalRule ==
  ASSUME NEW p \in Approval, NEW t \in Int
  PROVE  ~(p.required /\ p.decision = "DENIED") /\ ~(ApprovalUnestablished(p, t) /\ p.decision # "DENIED")
           <=> (p.required => p.decision = "APPROVED" /\ p.hashed /\ (~Parsed(p.until) \/ t < p.until))
<1>1. p.until \in Time /\ p.decision \in {"APPROVED", "DENIED", "UNKNOWN"}
  BY DEF Approval
<1>2. Parsed(p.until) => p.until \in Int
  BY <1>1 DEF Parsed, Time
<1>. QED
  BY <1>1, <1>2 DEF ApprovalUnestablished

(* Reading a malformed expiry as none changes nothing else of the input.     *)
LEMMA AsReadKeeps ==
  ASSUME NEW i \in AuthorityInput, NEW t \in Int
  PROVE  LET a == AsRead(i)
         IN /\ a.license = i.license /\ a.mission = i.mission /\ a.delegation = i.delegation
            /\ a.action = i.action /\ a.status = i.status /\ a.freshness = i.freshness
            /\ a.budget = i.budget /\ a.law = i.law
            /\ a.approval.required = i.approval.required /\ a.approval.decision = i.approval.decision
            /\ a.approval.hashed = i.approval.hashed
            /\ (a.approval.until = Null \/ (Parsed(a.approval.until) /\ t < a.approval.until))
                 <=> (~Parsed(i.approval.until) \/ t < i.approval.until)
<1>1. i.approval \in Approval /\ i.approval.until \in Time
  BY DEF AuthorityInput, Approval
<1>2. CASE i.approval.until = Malformed
  <2>1. AsRead(i) = [i EXCEPT !.approval = [i.approval EXCEPT !.until = Null]]
    BY <1>2 DEF AsRead
  <2>2. ~Parsed(i.approval.until)
    BY <1>2 DEF Parsed
  <2>. QED
    BY <1>1, <2>1, <2>2 DEF AuthorityInput, Approval
<1>3. CASE i.approval.until # Malformed
  <2>1. AsRead(i) = i
    BY <1>3 DEF AsRead
  <2>. QED
    BY <1>1, <1>3, <2>1, TimesOK DEF Parsed, Time
<1>. QED
  BY <1>2, <1>3

LEMMA AuthorizedRule ==
  ASSUME NEW i \in AuthorityInput, NEW t \in Int
  PROVE  Decision(i, t) = "AUTHORIZED" <=> Establishes(AsRead(i), t)
<1>1. Decision(i, t) = "AUTHORIZED" <=> ~Denied(i, t) /\ ~Unestablished(i, t)
  BY DEF Decision
<1>2. /\ i.license \in License /\ i.mission \in Mission /\ i.approval \in Approval
      /\ i.license.class \in Int /\ i.mission.maxClass \in Int /\ i.action.minimumClass \in Int
  BY DEF AuthorityInput, License, Mission, ActionPolicy
<1>3. /\ i.status \in {"ACTIVE", "INACTIVE", "UNKNOWN"}
      /\ i.freshness \in {"CURRENT", "STALE", "UNKNOWN", "NONE"}
      /\ i.budget \in {"WITHIN_BUDGET", "OVER_BUDGET", "UNKNOWN", "NONE"}
      /\ i.law \in {"SUPPORTED", "NOT_APPLICABLE", "PARTIAL", "UNKNOWN", "CONFLICTING", "UNSUPPORTED", "NONE"}
  BY DEF AuthorityInput
<1> DEFINE
      states == /\ i.status = "ACTIVE" /\ i.freshness \in {"CURRENT", "NONE"}
                /\ i.budget \in {"WITHIN_BUDGET", "NONE"} /\ i.law \in {"SUPPORTED", "NOT_APPLICABLE", "NONE"}
      grants == /\ Granted(i) /\ i.license.hashed /\ i.mission.hashed /\ i.action.known
                /\ i.license.inScope /\ i.mission.inScope /\ i.license.endorsed
                /\ i.license.class <= i.mission.maxClass /\ i.action.minimumClass <= i.license.class
      inTime == ~GrantTimesMalformed(i.license, i.mission) /\ ~LicenceOutsideValidity(i.license, t)
                  /\ ~MissionInactive(i.mission, t)
      delegated == (i.delegation.given => DelegationEstablished(i.delegation)) /\ ~DelegationDenies(i, t)
      approved == /\ ~(i.approval.required /\ i.approval.decision = "DENIED")
                  /\ ~(ApprovalUnestablished(i.approval, t) /\ i.approval.decision # "DENIED")
<1>4. ~Denied(i, t) /\ ~Unestablished(i, t) <=> states /\ grants /\ inTime /\ delegated /\ approved
  BY <1>2, <1>3 DEF Denied, Unestablished, PolicyDenies, Granted
<1>5. Establishes(AsRead(i), t) <=> states /\ grants /\ inTime /\ delegated /\ approved
  <2>1. inTime <=> /\ Open(i.license.from, i.license.until, t)
                   /\ Open(i.mission.starts, i.mission.expires, t)
                   /\ i.mission.expires # Null /\ i.mission.ended = Null
    BY <1>2, GrantsRule
  <2>2. i.action.known =>
          (delegated <=> (i.delegation.given =>
                  /\ i.license.class <= i.delegation.class /\ i.delegation.class <= i.mission.maxClass
                  /\ i.delegation.hashed /\ i.delegation.inScope /\ i.delegation.endorsed
                  /\ Parsed(i.delegation.expires) /\ t < i.delegation.expires))
    BY DelegationRule
  <2>3. approved <=> (i.approval.required => /\ i.approval.decision = "APPROVED" /\ i.approval.hashed
                                             /\ ~Parsed(i.approval.until) \/ t < i.approval.until)
    BY <1>2, ApprovalRule
  <2> HIDE DEF inTime, delegated, approved
  <2>. QED
    BY <2>1, <2>2, <2>3, AsReadKeeps DEF Establishes, Ladder, Evidenced, InTime, Granted
<1>. QED
  BY <1>1, <1>4, <1>5

(* What is left of an input when evidence is lost: all that denies but the   *)
(* hashes.                                                                   *)
DenialsKept(i, j) ==
  /\ j.license = [i.license EXCEPT !.hashed = j.license.hashed]
  /\ j.mission = [i.mission EXCEPT !.hashed = j.mission.hashed]
  /\ j.delegation = [i.delegation EXCEPT !.hashed = j.delegation.hashed]
  /\ j.approval = [i.approval EXCEPT !.hashed = j.approval.hashed, !.decision = j.approval.decision]
  /\ j.action = i.action
  /\ i.status = "INACTIVE" => j.status = "INACTIVE"
  /\ i.budget = "OVER_BUDGET" => j.budget = "OVER_BUDGET"
  /\ i.law \in {"UNSUPPORTED", "CONFLICTING"} => j.law \in {"UNSUPPORTED", "CONFLICTING"}
  /\ i.approval.decision = "DENIED" => j.approval.decision = "DENIED"

LEMMA LossKeeps ==
  ASSUME NEW i \in AuthorityInput, NEW j \in AuthorityInput, EvidenceLost(i, j)
  PROVE  DenialsKept(i, j)
<1>1. /\ j.license = [i.license EXCEPT !.hashed = j.license.hashed]
      /\ j.mission = [i.mission EXCEPT !.hashed = j.mission.hashed]
      /\ j.delegation = [i.delegation EXCEPT !.hashed = j.delegation.hashed]
      /\ j.approval = [i.approval EXCEPT !.hashed = j.approval.hashed, !.decision = j.approval.decision]
      /\ j.action = i.action
  BY DEF EvidenceLost, AuthorityInput
<1>2. /\ i.status = "INACTIVE" => j.status = "INACTIVE"
      /\ i.budget = "OVER_BUDGET" => j.budget = "OVER_BUDGET"
      /\ i.law \in {"UNSUPPORTED", "CONFLICTING"} => j.law \in {"UNSUPPORTED", "CONFLICTING"}
      /\ i.approval.decision = "DENIED" => j.approval.decision = "DENIED"
  BY DEF EvidenceLost
<1>. QED
  BY <1>1, <1>2 DEF DenialsKept

LEMMA DoubtDenies ==
  ASSUME NEW i \in AuthorityInput, NEW j \in AuthorityInput, NEW t \in Int,
         Decision(i, t) = "NOT_AUTHORIZED", EvidenceLost(i, j),
         ExpiryAloneDenies(i, t) => j.delegation.hashed = i.delegation.hashed
  PROVE  Decision(j, t) = "NOT_AUTHORIZED"
<1>1. DenialsKept(i, j)
  BY LossKeeps
<1>2. /\ i.license \in License /\ i.mission \in Mission
      /\ i.delegation \in Delegation /\ i.approval \in Approval
  BY DEF AuthorityInput
<1>3. /\ j.license.given = i.license.given /\ j.license.class = i.license.class
      /\ j.license.endorsed = i.license.endorsed /\ j.license.inScope = i.license.inScope
      /\ j.license.from = i.license.from /\ j.license.until = i.license.until
  BY <1>1, <1>2 DEF DenialsKept, License
<1>4. /\ j.mission.given = i.mission.given /\ j.mission.maxClass = i.mission.maxClass
      /\ j.mission.inScope = i.mission.inScope /\ j.mission.starts = i.mission.starts
      /\ j.mission.expires = i.mission.expires /\ j.mission.ended = i.mission.ended
  BY <1>1, <1>2 DEF DenialsKept, Mission
<1>5. /\ j.delegation.given = i.delegation.given /\ j.delegation.class = i.delegation.class
      /\ j.delegation.endorsed = i.delegation.endorsed /\ j.delegation.inScope = i.delegation.inScope
      /\ j.delegation.expires = i.delegation.expires
  BY <1>1, <1>2 DEF DenialsKept, Delegation
<1>6. /\ j.approval.required = i.approval.required
      /\ i.approval.decision = "DENIED" => j.approval.decision = "DENIED"
  BY <1>1, <1>2 DEF DenialsKept, Approval
<1>7. /\ j.action = i.action
      /\ i.status = "INACTIVE" => j.status = "INACTIVE"
      /\ i.budget = "OVER_BUDGET" => j.budget = "OVER_BUDGET"
      /\ i.law \in {"UNSUPPORTED", "CONFLICTING"} => j.law \in {"UNSUPPORTED", "CONFLICTING"}
  BY <1>1 DEF DenialsKept
<1>8. Denied(i, t)
  BY DEF Decision
<1>9. CASE j.delegation.hashed = i.delegation.hashed
  <2>1. DelegationDenies(i, t) => DelegationDenies(j, t)
    BY <1>3, <1>4, <1>5, <1>7, <1>9 DEF DelegationDenies, DelegationEstablished
  <2>2. Denied(j, t)
    BY <1>3, <1>4, <1>6, <1>7, <1>8, <2>1
       DEF Denied, Granted, LicenceOutsideValidity, MissionInactive, PolicyDenies
  <2>. QED
    BY <2>2 DEF Decision
<1>10. CASE j.delegation.hashed # i.delegation.hashed
  <2> DEFINE e == [i EXCEPT !.delegation.expires = t + 1]
  <2>1. Denied(e, t)
    BY <1>8, <1>10 DEF ExpiryAloneDenies
  <2>2. /\ e.license = i.license /\ e.mission = i.mission /\ e.approval = i.approval /\ e.action = i.action
        /\ e.status = i.status /\ e.budget = i.budget /\ e.law = i.law
        /\ e.delegation = [i.delegation EXCEPT !.expires = t + 1]
    BY DEF AuthorityInput
  <2>3. /\ e.delegation.given = i.delegation.given /\ e.delegation.class = i.delegation.class
        /\ e.delegation.endorsed = i.delegation.endorsed /\ e.delegation.inScope = i.delegation.inScope
        /\ e.delegation.expires = t + 1
    BY <2>2 DEF AuthorityInput, Delegation
  <2> HIDE DEF e
  <2>4. DelegationDenies(e, t) => DelegationDenies(j, t)
    BY <1>3, <1>4, <1>5, <1>7, <2>2, <2>3 DEF DelegationDenies, DelegationEstablished
  <2>5. Denied(j, t)
    BY <1>3, <1>4, <1>6, <1>7, <2>1, <2>2, <2>4
       DEF Denied, Granted, LicenceOutsideValidity, MissionInactive, PolicyDenies
  <2>. QED
    BY <2>5 DEF Decision
<1>. QED
  BY <1>9, <1>10

(* One field changed within its values leaves an input an input.             *)
LEMMA PartEdited ==
  ASSUME NEW p \in DOMAIN Parts, NEW r, NEW f \in DOMAIN Parts[p], NEW v \in Parts[p][f],
         \/ p = "license" /\ r \in License
         \/ p = "mission" /\ r \in Mission
         \/ p = "delegation" /\ r \in Delegation
         \/ p = "approval" /\ r \in Approval
         \/ p = "action" /\ r \in ActionPolicy
  PROVE  \/ p = "license" /\ [r EXCEPT ![f] = v] \in License
         \/ p = "mission" /\ [r EXCEPT ![f] = v] \in Mission
         \/ p = "delegation" /\ [r EXCEPT ![f] = v] \in Delegation
         \/ p = "approval" /\ [r EXCEPT ![f] = v] \in Approval
         \/ p = "action" /\ [r EXCEPT ![f] = v] \in ActionPolicy
<1>1. CASE p = "action"
  BY <1>1 DEF Parts, ActionPolicy
<1>2. CASE p = "approval"
  BY <1>2 DEF Parts, Approval, Times, Now, Time
<1>3. CASE p = "license"
  BY <1>3 DEF Parts, License, Times, Now, Time
<1>4. CASE p = "mission"
  BY <1>4 DEF Parts, Mission, Times, Now, Time
<1>5. CASE p = "delegation"
  BY <1>5 DEF Parts, Delegation, Times, Now, Time
<1>. QED
  BY <1>1, <1>2, <1>3, <1>4, <1>5 DEF Parts

InputOK == input \in AuthorityInput

LEMMA InputStep == InputOK /\ [Next]_vars => InputOK'
<1> SUFFICES ASSUME input \in AuthorityInput, [Next]_vars PROVE input' \in AuthorityInput
  BY DEF InputOK
<1>1. ASSUME NEW p \in DOMAIN Parts, NEW f \in DOMAIN Parts[p], NEW v \in Parts[p][f],
             input' = [input EXCEPT ![p][f] = v]
      PROVE  input' \in AuthorityInput
  <2> DEFINE r == [input[p] EXCEPT ![f] = v]
  <2>1. input' = [input EXCEPT ![p] = r]
    BY <1>1
  <2>2. \/ p = "license" /\ r \in License
        \/ p = "mission" /\ r \in Mission
        \/ p = "delegation" /\ r \in Delegation
        \/ p = "approval" /\ r \in Approval
        \/ p = "action" /\ r \in ActionPolicy
    <3>1. \/ p = "license" /\ input[p] \in License
          \/ p = "mission" /\ input[p] \in Mission
          \/ p = "delegation" /\ input[p] \in Delegation
          \/ p = "approval" /\ input[p] \in Approval
          \/ p = "action" /\ input[p] \in ActionPolicy
      BY DEF Parts, AuthorityInput
    <3>. QED
      BY <3>1, PartEdited
  <2> HIDE DEF r
  <2>. QED
    BY <2>1, <2>2 DEF AuthorityInput
<1>2. ASSUME NEW f \in DOMAIN States, NEW v \in States[f], input' = [input EXCEPT ![f] = v]
      PROVE  input' \in AuthorityInput
  BY <1>2 DEF States, AuthorityInput
<1>. QED
  BY <1>1, <1>2 DEF Next, EditPart, EditState, vars

LEMMA InputStart == Init => InputOK
BY TimesOK DEF InputOK, Init, Established, AuthorityInput, License, Mission, Delegation, Approval, ActionPolicy, Time

(* AUTHORIZED is decided exactly on authority that is established, evidenced,*)
(* in time and large enough, whatever the input and whenever it is evaluated,*)
(* when an approval's malformed expiry is read as none, which is what the    *)
(* code does with it (authority.ts:20-53).                                   *)
THEOREM AuthorizedExactly ==
  \A i \in AuthorityInput, t \in Int : Decision(i, t) = "AUTHORIZED" <=> Establishes(AsRead(i), t)
BY AuthorizedRule

(* In particular it is on every input the model enumerates.                  *)
THEOREM AuthorizedIsEstablished == Spec => []AuthorizedIffEstablished
<1>1. InputOK => AuthorizedIffEstablished
  BY AuthorizedRule DEF InputOK, AuthorizedIffEstablished, Now
<1>. QED
  BY <1>1, InputStart, InputStep, PTL DEF Spec

(* A denial is never softened into a hold by losing evidence: freshness, any *)
(* of the hashes, or what the status, budget, law or approval evidence said  *)
(* in favour of the action; except that a delegation whose expiry alone      *)
(* denies has to keep its hash.  Times that become malformed and grants that *)
(* disappear are not among the losses (authority.ts:22-25,39-53).            *)
THEOREM DenialsSurvive == Spec => DenialSurvivesDoubt
<1>1. InputOK /\ InputOK' =>
        [(/\ Decision(input, Now) = "NOT_AUTHORIZED"
          /\ EvidenceLost(input, input')
          /\ ExpiryAloneDenies(input, Now) => input'.delegation.hashed = input.delegation.hashed)
         => Decision(input', Now) = "NOT_AUTHORIZED"]_vars
  <2>1. Now \in Int
    BY DEF Now
  <2>. QED
    BY <2>1, DoubtDenies DEF InputOK
<1>. QED
  BY <1>1, InputStart, InputStep, PTL DEF Spec, DenialSurvivesDoubt

-----------------------------------------------------------------------------
(* Verification.  The invariant: the provenance is what an inspection found, *)
(* and verified only out of a trusted manifest.                              *)
Heard ==
  Findings \cup {Observation({}, "positive", 100), Observation({}, "positive", 99),
                 Observation({}, "negative", Unrated), Observation({}, "inconclusive", Unrated),
                 Observation({"synthetic"}, "positive", 99), ProviderFailure}

VerifyInv ==
  /\ observed \in Seq(Heard)
  /\ provenance.status = "verified" => provenance.trusted

LEMMA VerifyStart == VerifyInit => VerifyInv
BY DEF VerifyInit, VerifyInv, Unreadable

LEMMA VerifyStep == VerifyInv /\ [VerifyNext]_verifyVars => VerifyInv'
<1> SUFFICES ASSUME VerifyInv, [VerifyNext]_verifyVars PROVE VerifyInv'
  OBVIOUS
<1>1. CASE Inspect
  <2>1. ASSUME NEW r \in Reports PROVE InspectC2pa(r).status = "verified" => InspectC2pa(r).trusted
    BY DEF InspectC2pa, NothingFound
  <2>2. Unreadable.status # "verified"
    BY DEF Unreadable
  <2>. QED
    BY <1>1, <2>1, <2>2 DEF Inspect, VerifyInv
<1>2. CASE AskBaseline
  <2> DEFINE kind == <<Observation({}, "positive", 100)>>
             c2pa == CASE provenance.status = "verified" -> <<Observation({}, "positive", 99)>>
                       [] provenance.status = "absent"   -> <<Observation({}, "negative", Unrated)>>
                       [] OTHER                          -> <<Observation({}, "inconclusive", Unrated)>>
             origin == IF provenance.trusted /\ provenance.aiActions
                       THEN <<Observation({"synthetic"}, "positive", 99)>> ELSE <<>>
  <2>0. /\ \A x \in Heard : <<x>> \in Seq(Heard)
        /\ <<>> \in Seq(Heard)
    OBVIOUS
  <2>4. /\ Observation({}, "positive", 100) \in Heard /\ Observation({}, "positive", 99) \in Heard
        /\ Observation({}, "negative", Unrated) \in Heard /\ Observation({}, "inconclusive", Unrated) \in Heard
        /\ Observation({"synthetic"}, "positive", 99) \in Heard
    BY DEF Heard
  <2>1. kind \in Seq(Heard) /\ c2pa \in Seq(Heard) /\ origin \in Seq(Heard)
    BY <2>0, <2>4
  <2>2. Baseline(provenance) = kind \o c2pa \o origin
    BY DEF Baseline
  <2> HIDE DEF kind, c2pa, origin
  <2>3. Baseline(provenance) \in Seq(Heard)
    BY <2>1, <2>2
  <2>. QED
    BY <1>2, <2>3 DEF AskBaseline, VerifyInv
<1>3. CASE AskProvider
  <2>1. PICK o \in Heard : observed' = Append(observed, o)
    BY <1>3 DEF AskProvider, Heard
  <2>. QED
    BY <1>3, <2>1 DEF AskProvider, VerifyInv
<1>4. CASE UNCHANGED verifyVars
  BY <1>4 DEF verifyVars, VerifyInv
<1>. QED
  BY <1>1, <1>2, <1>3, <1>4 DEF VerifyNext

(* What one of the resolvers makes of what was found, whatever the score.    *)
LEMMA ResolversMatch ==
  ASSUME NEW p, NEW obs, NEW d
  PROVE  /\ Record(p, obs, d).decision = "SUPPRESS" <=> Record(p, obs, d).verdict = "BLOCK"
         /\ Record(p, obs, d).verdict = "REVIEW" => Record(p, obs, d).decision = "REVIEW"
         /\ Record(p, obs, d).decision \in {"TRUST", "PROMOTE"} =>
              /\ Record(p, obs, d).verdict \in Origins \cup {"UNVERIFIED"}
              /\ Record(p, obs, d).verdict = "AI_VERIFIED" => d \notin {"NONE", "UNKNOWN"}
         /\ Record(p, obs, d).decision = "PROMOTE" => p.status = "verified"
<1> DEFINE score == TrustScore(TrustVector(p, obs, d))
<1>1. Record(p, obs, d).verdict = Verdict(p, obs) /\ Record(p, obs, d).decision = Decide(score, p, obs, d)
  BY DEF Record
<1> HIDE DEF score
<1>2. /\ Manipulation(obs) <=> Verdict(p, obs) = "BLOCK"
      /\ Manipulation(obs) <=> Decide(score, p, obs, d) = "SUPPRESS"
  BY DEF Verdict, Decide
<1>3. Verdict(p, obs) = "REVIEW" <=> ~Manipulation(obs) /\ Conflict(obs)
  BY DEF Verdict
<1>4. Conflict(obs) /\ ~Manipulation(obs) => Decide(score, p, obs, d) = "REVIEW"
  BY DEF Decide
<1>5. Decide(score, p, obs, d) \in {"TRUST", "PROMOTE"} =>
        ~Manipulation(obs) /\ ~Conflict(obs) /\ DisclosureConsistent(obs, d)
  BY DEF Decide
<1>6. Verdict(p, obs) = "AI_VERIFIED" => Synthetic(obs)
  BY DEF Verdict
<1>7. Verdict(p, obs) \in {"BLOCK", "REVIEW", "UNVERIFIED"} \cup Origins
  BY DEF Verdict, Origins
<1>8. Decide(score, p, obs, d) = "PROMOTE" => p.status = "verified"
  BY DEF Decide, ProvenanceVerified
<1>9. Verdict(p, obs) = "AI_VERIFIED" /\ DisclosureConsistent(obs, d) => d \notin {"NONE", "UNKNOWN"}
  BY <1>6 DEF DisclosureConsistent
<1>. QED
  BY <1>1, <1>2, <1>3, <1>4, <1>5, <1>7, <1>8, <1>9

(* Decision and verdict, coded apart, never contradict each other, whatever  *)
(* the providers found (trust.ts:57-63, verdict.ts:30-40).                   *)
THEOREM ResolversAlwaysAgree == VerifySpec => []ResolversAgree
<1>1. VerifyInv => ResolversAgree
  BY ResolversMatch DEF VerifyInv, ResolversAgree, Recorded
<1>. QED
  BY <1>1, VerifyStart, VerifyStep, PTL DEF VerifySpec

(* One observation more: what was heard before stands in its place.          *)
LEMMA OneMore ==
  ASSUME NEW S, NEW obs \in Seq(S), NEW o \in S, NEW more, more = Append(obs, o)
  PROVE  /\ Len(obs) \in Nat /\ Len(more) = Len(obs) + 1 /\ more[Len(more)] = o /\ more \in Seq(S)
         /\ \A i \in 1..Len(obs) : more[i] = obs[i]
         /\ 1..Len(more) = 1..Len(obs) \cup {Len(more)}
OBVIOUS

LEMMA MatchingMore ==
  ASSUME NEW S, NEW obs \in Seq(S), NEW o \in S, NEW more, NEW words, more = Append(obs, o)
  PROVE  /\ Matching(obs, words) \subseteq Matching(more, words)
         /\ Matching(more, words) \subseteq Matching(obs, words) \cup {Len(more)}
BY OneMore DEF Matching

LEMMA PositiveMore ==
  ASSUME NEW S, NEW obs \in Seq(S), NEW o \in S, NEW more, NEW words, more = Append(obs, o)
  PROVE  /\ Positive(obs, words) => Positive(more, words)
         /\ o.result # "positive" => (Positive(more, words) => Positive(obs, words))
<1>1. \A i \in Matching(obs, words) : i \in 1..Len(obs) /\ more[i] = obs[i]
  BY OneMore DEF Matching
<1>2. /\ Matching(obs, words) \subseteq Matching(more, words)
      /\ Matching(more, words) \subseteq Matching(obs, words) \cup {Len(more)}
  BY MatchingMore
<1>3. more[Len(more)] = o
  BY OneMore
<1>4. ASSUME NEW i \in Having(obs, words, "positive") PROVE i \in Having(more, words, "positive")
  BY <1>1, <1>2 DEF Having
<1>5. ASSUME o.result # "positive", NEW i \in Having(more, words, "positive")
      PROVE  i \in Having(obs, words, "positive")
  BY <1>1, <1>2, <1>3, <1>5 DEF Having
<1>. QED
  BY <1>4, <1>5 DEF Positive

LEMMA ConflictMore ==
  ASSUME NEW S, NEW obs \in Seq(S), NEW o \in S, NEW more, more = Append(obs, o), Conflict(obs)
  PROVE  Conflict(more)
<1>1. PICK i \in 1..Len(obs) : obs[i].result = "inconclusive" /\ obs[i].conflict
  BY DEF Conflict
<1>2. i \in 1..Len(more) /\ more[i] = obs[i]
  BY OneMore
<1>. QED
  BY <1>1, <1>2 DEF Conflict

(* An observation like a provider's failure is one that no part of the       *)
(* outcome counts.                                                           *)
Uncounted(o) == o.about = {} /\ o.confidence = Unrated /\ ~o.conflict

LEMMA FailureCountsNot ==
  ASSUME NEW o \in Heard, Uncounted(o), VerifyInv, observed' = Append(observed, o),
         UNCHANGED <<provenance, declared>>
  PROVE  Recorded' = Recorded
<1>0. /\ observed \in Seq(Heard) /\ observed' = Append(observed, o)
      /\ provenance' = provenance /\ declared' = declared
  BY DEF VerifyInv
<1>1. /\ Len(observed) \in Nat /\ Len(observed') = Len(observed) + 1 /\ observed'[Len(observed')] = o
      /\ \A i \in 1..Len(observed) : observed'[i] = observed[i]
      /\ 1..Len(observed') = 1..Len(observed) \cup {Len(observed')}
  BY <1>0, OneMore
<1>2. ASSUME NEW words PROVE Matching(observed', words) = Matching(observed, words)
  <2>1. o.about \cap words = {}
    BY DEF Uncounted
  <2>. QED
    BY <1>1, <2>1 DEF Matching
<1>3. \A words : Matching(observed, words) \subseteq 1..Len(observed)
  BY DEF Matching
<1>4. \A words, result : Having(observed', words, result) = Having(observed, words, result)
  BY <1>1, <1>2, <1>3 DEF Having
<1>5. \A words : Positive(observed', words) = Positive(observed, words)
  BY <1>4 DEF Positive
<1>6. Conflict(observed') = Conflict(observed)
  BY <1>1 DEF Uncounted, Conflict
<1>7. \A words : RiskScore(observed', words) = RiskScore(observed, words)
  BY <1>4 DEF RiskScore
<1>8. ASSUME NEW places \in SUBSET (1..Len(observed))
      PROVE  /\ Rated(observed', places) = Rated(observed, places)
             /\ Confidence(observed', places) = Confidence(observed, places)
             /\ Weighted(observed', places) = Weighted(observed, places)
  <2>1. \A i \in places : observed'[i] = observed[i]
    BY <1>1
  <2>2. [i \in places |-> observed'[i].confidence] = [i \in places |-> observed[i].confidence]
    BY <2>1
  <2>3. [i \in places |-> Weight(observed'[i].result) * observed'[i].confidence]
          = [i \in places |-> Weight(observed[i].result) * observed[i].confidence]
    BY <2>1
  <2>. QED
    BY <2>1, <2>2, <2>3 DEF Rated, Confidence, Weighted
<1>9. \A words : ObservationsScore(observed', words) = ObservationsScore(observed, words)
  <2> SUFFICES ASSUME NEW words PROVE ObservationsScore(observed', words) = ObservationsScore(observed, words)
    OBVIOUS
  <2>1. Rated(observed', Matching(observed', words)) = Rated(observed, Matching(observed, words))
    BY <1>2, <1>3, <1>8
  <2>2. Rated(observed, Matching(observed, words)) \in SUBSET (1..Len(observed))
    BY <1>3 DEF Rated
  <2>. QED
    BY <2>1, <2>2, <1>8 DEF ObservationsScore
<1>10. EvidenceQuality(observed') = EvidenceQuality(observed)
  <2>1. Rated(observed', 1..Len(observed')) = Rated(observed', 1..Len(observed))
    BY <1>1 DEF Uncounted, Rated
  <2>2. Rated(observed', 1..Len(observed)) = Rated(observed, 1..Len(observed))
    BY <1>8
  <2>3. Rated(observed, 1..Len(observed)) \in SUBSET (1..Len(observed))
    BY DEF Rated
  <2>. QED
    BY <2>1, <2>2, <2>3, <1>8 DEF EvidenceQuality
<1>11. /\ Synthetic(observed') = Synthetic(observed) /\ HumanCapture(observed') = HumanCapture(observed)
       /\ Manipulation(observed') = Manipulation(observed)
  BY <1>5 DEF Synthetic, HumanCapture, Manipulation
<1>12. Verdict(provenance, observed') = Verdict(provenance, observed)
  BY <1>6, <1>11 DEF Verdict
<1>13. /\ AiStatus(observed', declared) = AiStatus(observed, declared)
       /\ DisclosureConsistent(observed', declared) = DisclosureConsistent(observed, declared)
  BY <1>11 DEF AiStatus, DisclosureConsistent
<1>14. TrustVector(provenance, observed', declared) = TrustVector(provenance, observed, declared)
  BY <1>7, <1>9, <1>10, <1>13 DEF TrustVector
<1>15. \A score : Decide(score, provenance, observed', declared)
                  = Decide(score, provenance, observed, declared)
  BY <1>6, <1>11, <1>13 DEF Decide
<1>. QED
  BY <1>0, <1>12, <1>14, <1>15 DEF Recorded, Record

(* No provider that fails or is not positive establishes an origin, a        *)
(* failure changes nothing, and what is blocked or held stays so             *)
(* (engine.ts:16-36).                                                        *)
THEOREM DoubtNeverEstablishes == VerifySpec => DoubtEstablishesNothing
<1>1. ASSUME VerifyInv, stage = "outside", AskProvider
      PROVE  /\ Last(observed').result # "positive" =>
                  (Recorded'.verdict \in Origins => Recorded.verdict = Recorded'.verdict)
             /\ Last(observed') = ProviderFailure => Recorded' = Recorded
             /\ Manipulation(observed) => Recorded'.verdict = "BLOCK" /\ Recorded'.decision = "SUPPRESS"
             /\ Conflict(observed) => /\ Recorded'.verdict \in {"REVIEW", "BLOCK"}
                                      /\ Recorded'.decision \in {"REVIEW", "SUPPRESS"}
  <2>1. PICK o \in Heard : observed' = Append(observed, o)
    BY <1>1 DEF AskProvider, Heard
  <2>2. observed \in Seq(Heard) /\ provenance' = provenance /\ declared' = declared
    BY <1>1 DEF VerifyInv, AskProvider
  <2>3. Last(observed') = o
    BY <2>1, <2>2, OneMore DEF Last
  <2>4. /\ Recorded = Record(provenance, observed, declared)
        /\ Recorded' = Record(provenance, observed', declared)
    BY <2>2 DEF Recorded
  <2>5. /\ Recorded.verdict = Verdict(provenance, observed)
        /\ Recorded'.verdict = Verdict(provenance, observed')
        /\ \E score : Recorded'.decision = Decide(score, provenance, observed', declared)
    BY <2>4 DEF Record
  <2>6. Manipulation(observed) => Manipulation(observed')
    BY <2>1, <2>2, PositiveMore DEF Manipulation
  <2>7. Conflict(observed) => Conflict(observed')
    BY <2>1, <2>2, ConflictMore
  <2>8. o.result # "positive" =>
          /\ Synthetic(observed') => Synthetic(observed)
          /\ HumanCapture(observed') => HumanCapture(observed)
    BY <2>1, <2>2, PositiveMore DEF Synthetic, HumanCapture
  <2>9. ASSUME o.result # "positive", Recorded'.verdict \in Origins
        PROVE  Recorded.verdict = Recorded'.verdict
    <3>1. Synthetic(observed) => Synthetic(observed')
      BY <2>1, <2>2, PositiveMore DEF Synthetic
    <3>. QED
      BY <2>5, <2>6, <2>7, <2>8, <2>9, <3>1 DEF Verdict, Origins
  <2>10. ASSUME o = ProviderFailure PROVE Recorded' = Recorded
    <3>1. Uncounted(o)
      BY <2>10 DEF ProviderFailure, Observation, Uncounted
    <3>. QED
      BY <1>1, <2>1, <2>2, <3>1, FailureCountsNot
  <2>11. Manipulation(observed) => Recorded'.verdict = "BLOCK" /\ Recorded'.decision = "SUPPRESS"
    BY <2>5, <2>6 DEF Verdict, Decide
  <2>12. Conflict(observed) => Recorded'.verdict \in {"REVIEW", "BLOCK"}
    BY <2>5, <2>7 DEF Verdict
  <2>13. Conflict(observed) => Recorded'.decision \in {"REVIEW", "SUPPRESS"}
    BY <2>5, <2>7 DEF Decide
  <2>. QED
    BY <2>3, <2>9, <2>10, <2>11, <2>12, <2>13
<1>2. VerifyInv /\ [VerifyNext]_verifyVars =>
        [stage = "outside" =>
           /\ Last(observed').result # "positive" =>
                (Recorded'.verdict \in Origins => Recorded.verdict = Recorded'.verdict)
           /\ Last(observed') = ProviderFailure => Recorded' = Recorded
           /\ Manipulation(observed) => Recorded'.verdict = "BLOCK" /\ Recorded'.decision = "SUPPRESS"
           /\ Conflict(observed) => /\ Recorded'.verdict \in {"REVIEW", "BLOCK"}
                                    /\ Recorded'.decision \in {"REVIEW", "SUPPRESS"}]_verifyVars
  <2>1. stage = "outside" => ~Inspect /\ ~AskBaseline
    BY DEF Inspect, AskBaseline
  <2>. QED
    BY <1>1, <2>1, Zenon DEF VerifyNext
<1>. QED
  BY <1>2, VerifyStart, VerifyStep, PTL DEF VerifySpec, DoubtEstablishesNothing

-----------------------------------------------------------------------------
(* The model that is checked is each of the components at a time: what holds *)
(* of them holds of it.                                                      *)
THEOREM RulesTakenApart == MCSpec => Spec /\ VerifySpec /\ StoreSpec
<1>1. MCInit => Init /\ VerifyInit /\ StoreInit
  BY DEF MCInit
<1>2. [MCNext]_allVars => [Next]_vars /\ [VerifyNext]_verifyVars /\ [StoreNext]_storeVars
  BY DEF MCNext, allVars
<1>. QED
  BY <1>1, <1>2, PTL DEF MCSpec, Spec, VerifySpec, StoreSpec
=============================================================================
