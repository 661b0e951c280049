------------------------- MODULE FlightRecorderProofs -------------------------
(***************************************************************************)
(* The flight records of every AI are one linear chain, each confirmation    *)
(* is recorded once, results answer declared actions, readers miss nothing,  *)
(* answers are true and waits end: for any number of AIs, requests, external *)
(* ids and faults.                                                           *)
(***************************************************************************)
EXTENDS FlightRecorder, FiniteSetTheorems, TLAPS

Writing == {"locked", "read", "inserted"}

(* A request at work knows what it was asked.                                *)
InputsGiven ==
  \A q \in Requests : request[q].phase \notin Answers \cup {"none"} => In(q) \in Inputs

(* From its lock to its commit, a request holds its AI's row.                *)
WritersHoldLock ==
  \A q \in Requests : request[q].phase \in Writing => lock[In(q).ai] = q

(* A chain that is not empty has a last record.                              *)
LastExists ==
  \A a \in Ais : RowsOf(a) # {} =>
    \E row \in RowsOf(a) : \A other \in RowsOf(a) : other.sequence <= row.sequence

(* The tail a writer has read is still the tail.                             *)
TailCurrent ==
  \A q \in Requests : request[q].phase \in {"read", "inserted"} => request[q].tail = TailOf(In(q).ai)

(* A sequence that has been drawn is above every record of its AI.           *)
SequencesAhead ==
  /\ \A row \in flight : row.sequence < nextSequence
  /\ \A q \in Requests : request[q].phase = "inserted" =>
       \A row \in RowsOf(In(q).ai) : row.sequence < request[q].sequence
  /\ \A q \in Requests : request[q].phase = "inserted" => request[q].sequence < nextSequence

(* A confirmation on its way names a declared action, a declaration nothing. *)
ClaimsHeld ==
  \A q \in Requests : request[q].phase \in {"read", "inserted"} =>
    IF Confirming(q) THEN ClaimIn(In(q).ai, request[q].claim) ELSE request[q].claim = None

(* An external id that has been inserted is nobody else's.                   *)
ExternalsReserved ==
  \A q \in Requests : request[q].phase = "inserted" /\ Confirming(q) =>
    /\ \A row \in flight : row.external # In(q).external
    /\ \A r \in Requests : r # q /\ request[r].phase = "inserted" /\ Confirming(r)
                             => In(r).external # In(q).external

Inv ==
  /\ RecorderTypeOK
  /\ InputsGiven /\ WritersHoldLock
  /\ LastExists /\ TailCurrent /\ SequencesAhead
  /\ ClaimsHeld /\ ExternalsReserved
  /\ ChainLinear /\ ConfirmedOnce /\ ResultsAnswerClaims

-----------------------------------------------------------------------------
(* Records                                                                   *)

(* Changing the phase of a request's record leaves a request record.         *)
LEMMA PhaseChange ==
  ASSUME request \in [Requests -> RequestRecords], NEW q \in Requests, NEW p \in Phases
  PROVE  /\ [request[q] EXCEPT !.phase = p] \in RequestRecords
         /\ [request[q] EXCEPT !.phase = p].phase = p
         /\ [request[q] EXCEPT !.phase = p].input = In(q)
         /\ [request EXCEPT ![q].phase = p] = [request EXCEPT ![q] = [request[q] EXCEPT !.phase = p]]
BY DEF RequestRecords, In

(* An answered request's record is a request record.                         *)
LEMMA AnswerRecord ==
  ASSUME NEW p \in Phases
  PROVE  [Unborn EXCEPT !.phase = p] \in RequestRecords /\ [Unborn EXCEPT !.phase = p].phase = p
BY DEF RequestRecords, Unborn, Phases

(* Every input names an AI.                                                  *)
LEMMA InputAi == \A input \in Inputs : input.ai \in Ais
BY DEF Inputs, Declarations, Confirmations

(* A confirmation has an external id and an outcome.                         *)
LEMMA ConfirmationExternal ==
  \A input \in Inputs : input.kind = "confirmation" => input.external \in ExternalIds /\ input.outcome \in Outcomes
BY DEF Inputs, Declarations, Confirmations

(* A declaration has a type.                                                 *)
LEMMA DeclarationType == \A input \in Inputs : input.kind # "confirmation" => input.type \in EventTypes
BY DEF Inputs, Declarations, Confirmations

-----------------------------------------------------------------------------
(* Steps of a request that neither lock, read, insert nor commit             *)

(* A step that takes a request out of the writing phases, or leaves it       *)
(* outside, keeps the invariant, whether it releases the lock or burns a     *)
(* sequence.                                                                 *)
LEMMA Leaving ==
  ASSUME Inv, NEW q \in Requests, NEW x \in RequestRecords,
         x.phase \notin Writing,
         x.phase \notin Answers \cup {"none"} => x.input \in Inputs,
         request' = [request EXCEPT ![q] = x],
         flight' = flight, registered' \subseteq Ais,
         nextSequence' = nextSequence \/ nextSequence' = nextSequence + 1,
         lock' = lock \/ lock' = [lock EXCEPT ![In(q).ai] = IF @ = q THEN None ELSE @]
  PROVE  Inv'
<1> USE DEF Inv, RecorderTypeOK
<1>1. RecorderTypeOK'
  OBVIOUS
<1>2. \A r \in Requests : r # q => request'[r] = request[r]
  OBVIOUS
<1>3. request'[q] = x
  OBVIOUS
<1>4. \A r \in Requests : request'[r].phase \in Writing => r # q /\ request'[r] = request[r]
  BY <1>2, <1>3
<1>5. InputsGiven'
  BY <1>2, <1>3 DEF InputsGiven, In
<1>6. WritersHoldLock'
  <2> SUFFICES ASSUME NEW r \in Requests, request'[r].phase \in Writing
               PROVE  lock'[In(r)'.ai] = r
    BY DEF WritersHoldLock
  <2>1. r # q /\ request'[r] = request[r] /\ In(r)' = In(r)
    BY <1>4 DEF In
  <2>2. lock[In(r).ai] = r /\ In(r) \in Inputs
    BY <2>1 DEF WritersHoldLock, InputsGiven, Writing, Answers
  <2>3. In(r).ai \in Ais
    BY <2>2, InputAi
  <2> QED BY <2>1, <2>2, <2>3
<1>7. \A a : RowsOf(a)' = RowsOf(a) /\ TailOf(a)' = TailOf(a)
  BY DEF RowsOf, TailOf
<1>8. \A a, c : ClaimIn(a, c)' = ClaimIn(a, c)
  BY DEF ClaimIn, RowsOf
<1>9. LastExists'
  BY <1>7 DEF LastExists
<1>10. TailCurrent'
  BY <1>4, <1>7 DEF TailCurrent, Writing, In
<1>11. SequencesAhead'
  <2>1. \A row \in flight : row.sequence \in Nat
    BY DEF Rows
  <2>2. \A r \in Requests : request[r].sequence \in Nat
    BY DEF RequestRecords
  <2> QED BY <1>4, <1>7, <2>1, <2>2 DEF SequencesAhead, Writing, In
<1>12. ClaimsHeld'
  BY <1>4, <1>8 DEF ClaimsHeld, Writing, In, Confirming
<1>13. ExternalsReserved'
  BY <1>4 DEF ExternalsReserved, Writing, In, Confirming
<1>14. ChainLinear' /\ ConfirmedOnce' /\ ResultsAnswerClaims'
  BY DEF ChainLinear, ConfirmedOnce, ResultsAnswerClaims, Before, RowsOf
<1> QED BY <1>1, <1>5, <1>6, <1>9, <1>10, <1>11, <1>12, <1>13, <1>14

(* A step of the registry, the readers or nobody.                            *)
LEMMA Elsewhere ==
  ASSUME Inv, registered' \subseteq Ais, UNCHANGED <<lock, nextSequence, flight, request>>
  PROVE  Inv'
<1>1. RecorderTypeOK'
  BY DEF Inv, RecorderTypeOK
<1>2. InputsGiven' /\ WritersHoldLock'
  BY DEF Inv, InputsGiven, WritersHoldLock, In
<1>3. LastExists' /\ TailCurrent' /\ SequencesAhead'
  BY DEF Inv, LastExists, TailCurrent, SequencesAhead, RowsOf, TailOf, In
<1>4. ClaimsHeld' /\ ExternalsReserved'
  BY DEF Inv, ClaimsHeld, ExternalsReserved, ClaimIn, RowsOf, In, Confirming
<1>5. ChainLinear' /\ ConfirmedOnce' /\ ResultsAnswerClaims'
  BY DEF Inv, ChainLinear, ConfirmedOnce, ResultsAnswerClaims, Before, RowsOf
<1> QED BY <1>1, <1>2, <1>3, <1>4, <1>5 DEF Inv

(* A step that answers.                                                      *)
LEMMA Answering ==
  ASSUME Inv, NEW q \in Requests, NEW p \in Answers, Answer(q, p),
         flight' = flight, registered' \subseteq Ais,
         nextSequence' = nextSequence \/ nextSequence' = nextSequence + 1,
         lock' = lock \/ lock' = [lock EXCEPT ![In(q).ai] = IF @ = q THEN None ELSE @]
  PROVE  Inv'
<1>1. p \in Phases /\ p \notin Writing
  BY DEF Phases, Answers, Writing
<1>2. PICK x \in RequestRecords : x.phase = p /\ request' = [request EXCEPT ![q] = x]
  BY <1>1, AnswerRecord DEF Answer
<1> QED BY <1>1, <1>2, Leaving

(* A step to a phase outside the transaction.                                *)
LEMMA Proceeding ==
  ASSUME Inv, NEW q \in Requests, NEW p \in Phases \ Writing, To(q, p), In(q) \in Inputs,
         flight' = flight, registered' \subseteq Ais,
         nextSequence' = nextSequence, lock' = lock
  PROVE  Inv'
<1>1. PICK x \in RequestRecords : x.phase = p /\ x.input = In(q) /\ request' = [request EXCEPT ![q] = x]
  BY PhaseChange DEF To, Inv, RecorderTypeOK
<1> QED BY <1>1, Leaving

(* A request that is at work has been given its input.                       *)
LEMMA AtWork ==
  ASSUME Inv, NEW q \in Requests, request[q].phase \notin Answers \cup {"none"}
  PROVE  In(q) \in Inputs /\ In(q).ai \in Ais
BY InputAi DEF Inv, InputsGiven

(* The invariant holds initially.                                            *)
LEMMA InitInv == Init => Inv
<1> SUFFICES ASSUME Init PROVE Inv
  OBVIOUS
<1> USE DEF Init
<1>1. \A q \in Requests : request[q] = Unborn /\ request[q].phase = "none"
  BY DEF Unborn
<1>2. Unborn \in RequestRecords
  BY DEF Unborn, RequestRecords, Phases
<1>3. RecorderTypeOK
  BY <1>2 DEF RecorderTypeOK
<1>4. InputsGiven /\ WritersHoldLock /\ TailCurrent /\ ClaimsHeld /\ ExternalsReserved
  BY <1>1 DEF InputsGiven, WritersHoldLock, TailCurrent, ClaimsHeld, ExternalsReserved, Writing
<1>5. LastExists /\ SequencesAhead
  BY <1>1 DEF LastExists, SequencesAhead, RowsOf
<1>6. ChainLinear /\ ConfirmedOnce /\ ResultsAnswerClaims
  BY DEF ChainLinear, ConfirmedOnce, ResultsAnswerClaims
<1> QED BY <1>3, <1>4, <1>5, <1>6 DEF Inv

(* A new request is given its input, or is refused.                          *)
LEMMA ReceiveInv ==
  ASSUME Inv, NEW q \in Requests, NEW input \in Inputs, Receive(q, input) PROVE Inv'
<1>0. flight' = flight /\ registered' \subseteq Ais /\ nextSequence' = nextSequence /\ lock' = lock
  BY DEF Receive, recorder, Inv, RecorderTypeOK
<1>1. CASE input.kind = "declaration" /\ ~Declarable(input.type)
  <2>1. Answer(q, "400")
    BY <1>1 DEF Receive
  <2> QED BY <1>0, <2>1, Answering DEF Answers
<1>2. CASE ~(input.kind = "declaration" /\ ~Declarable(input.type))
  <2> DEFINE p == IF input.kind = "declaration" THEN "bind" ELSE "begin"
             x == [request[q] EXCEPT !.input = input, !.phase = p]
  <2>1. p \in Phases \ Writing /\ p \notin Answers \cup {"none"}
    BY DEF Phases, Writing, Answers
  <2>2. request[q] \in RequestRecords
    BY DEF Inv, RecorderTypeOK
  <2> HIDE DEF p
  <2>3. x \in RequestRecords /\ x.phase = p /\ x.input = input
    BY <2>1, <2>2 DEF RequestRecords
  <2>4. request' = [request EXCEPT ![q] = x]
    BY <1>2 DEF Receive, p, Inv, RecorderTypeOK
  <2> HIDE DEF x
  <2> QED BY <1>0, <2>1, <2>3, <2>4, Leaving
<1> QED BY <1>1, <1>2

(* A declaration binds its evidence and goes on, or is refused.              *)
LEMMA BindDeclaredInv ==
  ASSUME Inv, NEW q \in Requests, NEW known \in BOOLEAN, NEW matches \in BOOLEAN,
         BindDeclared(q, known, matches)
  PROVE  Inv'
<1>0. flight' = flight /\ registered' \subseteq Ais /\ nextSequence' = nextSequence /\ lock' = lock
  BY DEF BindDeclared, recorder, Inv, RecorderTypeOK
<1>1. In(q) \in Inputs
  BY AtWork DEF BindDeclared, Answers
<1>2. CASE To(q, "begin")
  BY <1>0, <1>1, <1>2, Proceeding DEF Phases, Writing
<1>3. CASE Answer(q, "400")
  BY <1>0, <1>3, Answering DEF Answers
<1> QED BY <1>2, <1>3 DEF BindDeclared

(* The refusals: no such AI, no such action, a duplicate, a failure.         *)
LEMMA RefusalsInv ==
  ASSUME Inv, NEW q \in Requests,
         \/ UnknownAi(q) \/ InsertDuplicate(q) \/ Fail(q)
         \/ \E answer \in {"404", "422"} : RejectConfirmation(q, answer)
  PROVE  Inv'
<1>0. registered \subseteq Ais
  BY DEF Inv, RecorderTypeOK
<1>1. CASE UnknownAi(q)
  BY <1>0, <1>1, Answering DEF UnknownAi, recorder, Answers
<1>2. CASE InsertDuplicate(q)
  BY <1>0, <1>2, Answering DEF InsertDuplicate, Abandon, Answers
<1>3. CASE Fail(q)
  BY <1>0, <1>3, Answering DEF Fail, Abandon, Answers
<1>4. CASE \E answer \in {"404", "422"} : RejectConfirmation(q, answer)
  <2>1. PICK answer \in {"404", "422"} : RejectConfirmation(q, answer)
    BY <1>4
  <2> QED BY <1>0, <2>1, Answering DEF RejectConfirmation, Abandon, Answers
<1> QED BY <1>1, <1>2, <1>3, <1>4

(* The lineage of a committed confirmation.                                  *)
LEMMA LineageInv ==
  ASSUME Inv, NEW q \in Requests,
         \/ \E ahead \in BOOLEAN : RecordEvidence(q, ahead)
         \/ \E age \in {0, 2} : ClaimEvidence(q, age)
         \/ BindEvidence(q)
  PROVE  Inv'
<1>0. flight' = flight /\ registered' \subseteq Ais /\ nextSequence' = nextSequence /\ lock' = lock
  BY DEF RecordEvidence, ClaimEvidence, BindEvidence, recorder, Inv, RecorderTypeOK
<1>1. In(q) \in Inputs
  BY AtWork DEF RecordEvidence, ClaimEvidence, BindEvidence, Answers
<1>2. CASE Answer(q, "500") \/ Answer(q, "201")
  BY <1>0, <1>2, Answering DEF Answers
<1>3. CASE To(q, "claim") \/ To(q, "bound")
  BY <1>0, <1>1, <1>3, Proceeding DEF Phases, Writing
<1>4. CASE request' = [request EXCEPT ![q].phase = "claim", ![q].domain = "INCIDENT"]
  <2> DEFINE x == [request[q] EXCEPT !.phase = "claim", !.domain = "INCIDENT"]
  <2>1. request[q] \in RequestRecords
    BY DEF Inv, RecorderTypeOK
  <2>2. x \in RequestRecords /\ x.phase = "claim" /\ x.input = In(q)
    BY <2>1 DEF RequestRecords, Phases, In
  <2>3. request' = [request EXCEPT ![q] = x]
    BY <1>4 DEF Inv, RecorderTypeOK
  <2> HIDE DEF x
  <2> QED BY <1>0, <1>1, <2>2, <2>3, Leaving DEF Writing
<1> QED BY <1>2, <1>3, <1>4 DEF RecordEvidence, ClaimEvidence, BindEvidence

-----------------------------------------------------------------------------
(* Steps inside the transaction                                              *)

(* A request that holds its AI's row may advance, as long as its own record  *)
(* says what the invariant asks of a writer.                                 *)
LEMMA Advancing ==
  ASSUME Inv, NEW q \in Requests, In(q) \in Inputs, NEW x \in RequestRecords,
         x.phase \in Writing, x.input = In(q),
         request' = [request EXCEPT ![q] = x],
         flight' = flight, registered' = registered,
         nextSequence' = nextSequence \/ nextSequence' = nextSequence + 1,
         \/ lock' = lock /\ lock[In(q).ai] = q
         \/ lock' = [lock EXCEPT ![In(q).ai] = q] /\ lock[In(q).ai] = None,
         x.phase \in {"read", "inserted"} =>
           /\ x.tail = TailOf(In(q).ai)
           /\ IF Confirming(q) THEN ClaimIn(In(q).ai, x.claim) ELSE x.claim = None,
         x.phase = "inserted" =>
           /\ \A row \in RowsOf(In(q).ai) : row.sequence < x.sequence
           /\ x.sequence < nextSequence'
           /\ Confirming(q) =>
                /\ \A row \in flight : row.external # In(q).external
                /\ \A r \in Requests : ~Rival(q, r)
  PROVE  Inv'
<1> USE DEF Inv, RecorderTypeOK
<1>1. In(q).ai \in Ais
  BY InputAi
<1>2. RecorderTypeOK'
  BY <1>1
<1>3. \A r \in Requests : r # q => request'[r] = request[r] /\ In(r)' = In(r) /\ Confirming(r)' = Confirming(r)
  BY DEF In, Confirming
<1>4. request'[q] = x /\ In(q)' = In(q) /\ Confirming(q)' = Confirming(q)
  BY DEF In, Confirming
<1>5. InputsGiven'
  BY <1>3, <1>4 DEF InputsGiven
<1>6. WritersHoldLock'
  <2> SUFFICES ASSUME NEW r \in Requests, request'[r].phase \in Writing
               PROVE  lock'[In(r)'.ai] = r
    BY DEF WritersHoldLock
  <2>1. CASE r = q
    BY <2>1, <1>1, <1>4
  <2>2. CASE r # q
    <3>1. request[r].phase \in Writing /\ In(r)' = In(r)
      BY <2>2, <1>3
    <3>2. lock[In(r).ai] = r /\ In(r) \in Inputs
      BY <3>1 DEF WritersHoldLock, InputsGiven, Writing, Answers
    <3>3. In(r).ai \in Ais
      BY <3>2, InputAi
    <3> QED BY <3>1, <3>2, <3>3, <2>2, ConstantsOK
  <2> QED BY <2>1, <2>2
<1>7. \A a : RowsOf(a)' = RowsOf(a) /\ TailOf(a)' = TailOf(a)
  BY DEF RowsOf, TailOf
<1>8. \A a, c : ClaimIn(a, c)' = ClaimIn(a, c)
  BY DEF ClaimIn, RowsOf
<1>9. LastExists'
  BY <1>7 DEF LastExists
<1>10. TailCurrent'
  <2> SUFFICES ASSUME NEW r \in Requests, request'[r].phase \in {"read", "inserted"}
               PROVE  request'[r].tail = TailOf(In(r)'.ai)
    BY <1>7 DEF TailCurrent
  <2> QED BY <1>3, <1>4 DEF TailCurrent
<1>11. SequencesAhead'
  <2>1. \A row \in flight : row.sequence \in Nat
    BY DEF Rows
  <2>2. \A r \in Requests : request[r].sequence \in Nat
    BY DEF RequestRecords
  <2>3. \A row \in flight' : row.sequence < nextSequence'
    BY <2>1 DEF SequencesAhead
  <2>4. ASSUME NEW r \in Requests, request'[r].phase = "inserted"
        PROVE  /\ \A row \in RowsOf(In(r)'.ai) : row.sequence < request'[r].sequence
               /\ request'[r].sequence < nextSequence'
    <3>1. CASE r = q
      BY <3>1, <1>4, <2>4
    <3>2. CASE r # q
      BY <3>2, <1>3, <2>2, <2>4 DEF SequencesAhead
    <3> QED BY <3>1, <3>2
  <2> QED BY <1>7, <2>3, <2>4 DEF SequencesAhead
<1>12. ClaimsHeld'
  <2> SUFFICES ASSUME NEW r \in Requests, request'[r].phase \in {"read", "inserted"}
               PROVE  IF Confirming(r)' THEN ClaimIn(In(r)'.ai, request'[r].claim)
                      ELSE request'[r].claim = None
    BY <1>8 DEF ClaimsHeld
  <2> QED BY <1>3, <1>4 DEF ClaimsHeld
<1>13. ExternalsReserved'
  <2>1. ASSUME NEW r \in Requests, request'[r].phase = "inserted", Confirming(r)'
        PROVE  \A row \in flight : row.external # In(r)'.external
    BY <2>1, <1>3, <1>4 DEF ExternalsReserved
  <2>2. ASSUME NEW r \in Requests, request'[r].phase = "inserted", Confirming(r)',
               NEW o \in Requests, o # r, request'[o].phase = "inserted", Confirming(o)'
        PROVE  In(o)'.external # In(r)'.external
    <3>1. CASE r = q
      <4>1. ~Rival(q, o) /\ request[o].phase = "inserted" /\ Confirming(o) /\ Confirming(q)
        BY <3>1, <2>2, <1>3, <1>4
      <4> QED BY <4>1, <3>1, <2>2, <1>3, <1>4 DEF Rival
    <3>2. CASE o = q
      <4>1. ~Rival(q, r) /\ request[r].phase = "inserted" /\ Confirming(r) /\ Confirming(q)
        BY <3>2, <2>2, <1>3, <1>4
      <4> QED BY <4>1, <3>2, <2>2, <1>3, <1>4 DEF Rival
    <3>3. CASE r # q /\ o # q
      BY <3>3, <2>2, <1>3 DEF ExternalsReserved
    <3> QED BY <3>1, <3>2, <3>3
  <2> QED BY <2>1, <2>2 DEF ExternalsReserved
<1>14. ChainLinear' /\ ConfirmedOnce' /\ ResultsAnswerClaims'
  BY DEF ChainLinear, ConfirmedOnce, ResultsAnswerClaims, Before, RowsOf
<1> QED BY <1>2, <1>5, <1>6, <1>9, <1>10, <1>11, <1>12, <1>13, <1>14

(* The row is locked.                                                        *)
LEMMA LockInv ==
  ASSUME Inv, NEW q \in Requests, Lock(q) PROVE Inv'
<1>1. In(q) \in Inputs
  BY AtWork DEF Lock, Answers
<1>2. PICK x \in RequestRecords : /\ x.phase = "locked" /\ x.input = In(q)
                                  /\ request' = [request EXCEPT ![q] = x]
  BY PhaseChange DEF Lock, To, Inv, RecorderTypeOK, Phases
<1>3. flight' = flight /\ registered' = registered /\ nextSequence' = nextSequence
  BY DEF Lock
<1>4. lock' = [lock EXCEPT ![In(q).ai] = q] /\ lock[In(q).ai] = None
  BY DEF Lock, Lockable
<1> QED BY <1>1, <1>2, <1>3, <1>4, Advancing DEF Writing

(* The tail of a chain is a request or nothing.                              *)
LEMMA TailType ==
  ASSUME Inv, NEW a \in Ais PROVE TailOf(a) \in Requests \cup {None}
<1>1. \A row \in RowsOf(a) : row.event \in Requests
  BY DEF Inv, RecorderTypeOK, RowsOf, Rows
<1> QED BY <1>1 DEF Inv, LastExists, TailOf, Last

(* The tail is read, and the action a confirmation names is found.           *)
LEMMA ReadTailInv ==
  ASSUME Inv, NEW q \in Requests, NEW claim \in Requests \cup {None}, ReadTail(q, claim) PROVE Inv'
<1>1. In(q) \in Inputs /\ In(q).ai \in Ais
  BY AtWork DEF ReadTail, Answers
<1>2. PICK tail : tail = TailOf(In(q).ai)
  OBVIOUS
<1>3. tail \in Requests \cup {None}
  BY <1>1, <1>2, TailType
<1> DEFINE x == [request[q] EXCEPT !.phase = "read", !.claim = claim, !.tail = tail]
<1>4. request[q] \in RequestRecords
  BY DEF Inv, RecorderTypeOK
<1>5. x \in RequestRecords /\ x.phase = "read" /\ x.input = In(q) /\ x.claim = claim /\ x.tail = tail
  BY <1>3, <1>4 DEF RequestRecords, Phases, In
<1>6. request' = [request EXCEPT ![q] = x]
  BY <1>2 DEF ReadTail, Inv, RecorderTypeOK
<1> HIDE DEF x
<1>7. flight' = flight /\ registered' = registered /\ nextSequence' = nextSequence /\ lock' = lock
  BY DEF ReadTail, recorder
<1>8. lock[In(q).ai] = q
  BY DEF ReadTail, Inv, WritersHoldLock, Writing
<1>9. IF Confirming(q) THEN ClaimIn(In(q).ai, x.claim) ELSE x.claim = None
  BY <1>5 DEF ReadTail
<1> QED BY <1>1, <1>2, <1>5, <1>6, <1>7, <1>8, <1>9, Advancing DEF Writing

(* The row is inserted with the next sequence.                               *)
LEMMA InsertInv ==
  ASSUME Inv, NEW q \in Requests, Insert(q) PROVE Inv'
<1>1. In(q) \in Inputs
  BY AtWork DEF Insert, Answers
<1> DEFINE x == [request[q] EXCEPT !.phase = "inserted", !.sequence = nextSequence]
<1>2. request[q] \in RequestRecords /\ nextSequence \in Nat
  BY DEF Inv, RecorderTypeOK
<1>3. /\ x \in RequestRecords /\ x.phase = "inserted" /\ x.input = In(q)
      /\ x.sequence = nextSequence /\ x.claim = request[q].claim /\ x.tail = request[q].tail
  BY <1>2 DEF RequestRecords, Phases, In
<1>4. request' = [request EXCEPT ![q] = x]
  BY DEF Insert, Inv, RecorderTypeOK
<1> HIDE DEF x
<1>5. flight' = flight /\ registered' = registered /\ nextSequence' = nextSequence + 1 /\ lock' = lock
  BY DEF Insert
<1>6. lock[In(q).ai] = q
  BY DEF Insert, Inv, WritersHoldLock, Writing
<1>7. x.tail = TailOf(In(q).ai) /\ IF Confirming(q) THEN ClaimIn(In(q).ai, x.claim) ELSE x.claim = None
  BY <1>3 DEF Insert, Inv, TailCurrent, ClaimsHeld
<1>8. /\ \A row \in RowsOf(In(q).ai) : row.sequence < x.sequence
      /\ x.sequence < nextSequence'
  BY <1>2, <1>3, <1>5 DEF Inv, SequencesAhead, RowsOf
<1>9. Confirming(q) => /\ \A row \in flight : row.external # In(q).external
                       /\ \A r \in Requests : ~Rival(q, r)
  BY DEF Insert, Duplicate
<1> QED BY <1>1, <1>3, <1>4, <1>5, <1>6, <1>7, <1>8, <1>9, Advancing DEF Writing

(* The record that a commit adds is a row.                                   *)
LEMMA EventType ==
  ASSUME Inv, NEW q \in Requests, In(q) \in Inputs PROVE EventOf(q) \in Rows
<1>1. request[q] \in RequestRecords
  BY DEF Inv, RecorderTypeOK
<1>2. request[q].sequence \in Nat /\ request[q].tail \in Requests \cup {None}
      /\ request[q].claim \in Requests \cup {None}
  BY <1>1 DEF RequestRecords
<1>3. In(q).ai \in Ais
  BY InputAi
<1>4. PICK type : type = IF Confirming(q) THEN ResultType(In(q).outcome) ELSE In(q).type
  OBVIOUS
<1>5. type \in EventTypes \cup {"ACTION_CONFIRMED", "ACTION_FAILED", "ACTION_UNAVAILABLE"}
  BY <1>4, DeclarationType DEF Confirming, ResultType
<1>6. PICK state : state = IF Confirming(q) THEN ReconciledState(In(q).outcome) ELSE "DECLARED"
  OBVIOUS
<1>7. state \in Validations
  BY <1>6 DEF ReconciledState, Validations
<1>8. PICK external : external = IF Confirming(q) THEN In(q).external ELSE None
  OBVIOUS
<1>9. external \in ExternalIds \cup {None}
  BY <1>8, ConfirmationExternal DEF Confirming
<1>10. EventOf(q) = [event |-> q, ai |-> In(q).ai, sequence |-> request[q].sequence,
                    previous |-> request[q].tail, type |-> type, state |-> state,
                    related |-> request[q].claim, external |-> external]
  BY <1>4, <1>6, <1>8 DEF EventOf
<1> QED BY <1>2, <1>3, <1>5, <1>7, <1>9, <1>10 DEF Rows

(* Committing extends the chain of one AI, whose row nobody else holds.      *)
LEMMA CommitInv ==
  ASSUME Inv, NEW q \in Requests, Commit(q) PROVE Inv'
<1> USE DEF Inv, RecorderTypeOK
<1>1. In(q) \in Inputs /\ In(q).ai \in Ais
  BY AtWork DEF Commit, Answers
<1>2. PICK a \in Ais : a = In(q).ai
  BY <1>1
<1>3. PICK e \in Rows : e = EventOf(q)
  BY <1>1, EventType
<1>4. /\ e.ai = a /\ e.sequence = request[q].sequence /\ e.previous = request[q].tail
      /\ e.related = request[q].claim
      /\ Confirming(q) => e.external = In(q).external
      /\ ~Confirming(q) => e.external = None /\ e.state = "DECLARED"
  BY <1>2, <1>3 DEF EventOf
<1>5. flight' = flight \cup {e} /\ registered' = registered /\ nextSequence' = nextSequence
  BY <1>3 DEF Commit
<1>6. lock[a] = q /\ lock' = [lock EXCEPT ![a] = None]
  BY <1>2 DEF Commit, WritersHoldLock, Writing
<1>7. PICK x \in RequestRecords :
        /\ x.phase \in {"record", "201"}
        /\ x.phase = "record" => x.input \in Inputs
        /\ request' = [request EXCEPT ![q] = x]
  <2>1. CASE Confirming(q)
    <3> DEFINE y == [Unborn EXCEPT !.input = In(q), !.phase = "record"]
    <3>1. y \in RequestRecords /\ y.phase = "record" /\ y.input = In(q)
      BY <1>1 DEF Unborn, RequestRecords, Phases
    <3>2. request' = [request EXCEPT ![q] = y]
      BY <2>1 DEF Commit
    <3> HIDE DEF y
    <3> QED BY <1>1, <3>1, <3>2
  <2>2. CASE ~Confirming(q)
    <3>1. Answer(q, "201")
      BY <2>2 DEF Commit
    <3> DEFINE z == [Unborn EXCEPT !.phase = "201"]
    <3>2. "201" \in Phases
      BY DEF Phases, Answers
    <3>3. z \in RequestRecords /\ z.phase = "201"
      BY <3>2, AnswerRecord
    <3>4. request' = [request EXCEPT ![q] = z]
      BY <3>1 DEF Answer
    <3> HIDE DEF z
    <3> QED BY <3>3, <3>4
  <2> QED BY <2>1, <2>2
<1>8. \A r \in Requests : request'[r].phase \in Writing => r # q
  BY <1>7 DEF Writing
<1>9. \A r \in Requests : r # q =>
        request'[r] = request[r] /\ In(r)' = In(r) /\ Confirming(r)' = Confirming(r)
  BY <1>7 DEF In, Confirming
<1>10. \A r \in Requests : request'[r].phase \in Writing =>
         /\ In(r) \in Inputs /\ In(r).ai \in Ais /\ In(r).ai # a /\ lock[In(r).ai] = r
  <2> SUFFICES ASSUME NEW r \in Requests, request'[r].phase \in Writing
               PROVE  In(r) \in Inputs /\ In(r).ai \in Ais /\ In(r).ai # a /\ lock[In(r).ai] = r
    OBVIOUS
  <2>1. r # q /\ request[r].phase \in Writing
    BY <1>8, <1>9
  <2>2. lock[In(r).ai] = r /\ In(r) \in Inputs
    BY <2>1 DEF WritersHoldLock, InputsGiven, Writing, Answers
  <2> QED BY <2>1, <2>2, <1>6, InputAi
<1>11. \A b : b # a => RowsOf(b)' = RowsOf(b) /\ TailOf(b)' = TailOf(b)
  <2>1. \A b : b # a => RowsOf(b)' = RowsOf(b)
    BY <1>4, <1>5 DEF RowsOf
  <2>2. ASSUME NEW b, b # a PROVE TailOf(b)' = TailOf(b)
    <3>1. RowsOf(b)' = RowsOf(b)
      BY <2>1, <2>2
    <3> QED BY <3>1 DEF TailOf
  <2> QED BY <2>1, <2>2
<1>12. RowsOf(a)' = RowsOf(a) \cup {e}
  BY <1>4, <1>5 DEF RowsOf
<1>13. \A row \in RowsOf(a) : row.sequence < e.sequence
  BY <1>2, <1>4 DEF SequencesAhead, Commit
<1>14. e.sequence < nextSequence
  BY <1>4 DEF SequencesAhead, Commit
<1>15. \A row \in flight : row \in Rows /\ row.sequence \in Nat /\ row.event \in Requests
  BY DEF Rows
<1>16. e.sequence \in Nat
  BY DEF Rows
<1>17. \A row \in RowsOf(a) : row \in flight /\ row.ai = a /\ row.sequence \in Nat
  BY <1>15 DEF RowsOf
<1>18. Before(e)' = RowsOf(a)
  BY <1>4, <1>12, <1>13, <1>16, <1>17 DEF Before
<1>19. \A row \in flight : Before(row)' = Before(row)
  <2> SUFFICES ASSUME NEW row \in flight PROVE Before(row)' = Before(row)
    OBVIOUS
  <2>1. CASE row.ai = a
    <3>1. row \in RowsOf(a)
      BY <2>1 DEF RowsOf
    <3>2. ~(e.sequence < row.sequence)
      BY <3>1, <1>13, <1>16, <1>17
    <3> QED BY <2>1, <3>2, <1>12 DEF Before
  <2>2. CASE row.ai # a
    BY <2>2, <1>11 DEF Before
  <2> QED BY <2>1, <2>2
<1>20. RecorderTypeOK'
  BY <1>2, <1>5, <1>6, <1>7
<1>21. InputsGiven'
  BY <1>7, <1>9 DEF InputsGiven, In, Answers
<1>22. WritersHoldLock'
  BY <1>6, <1>8, <1>9, <1>10 DEF WritersHoldLock
<1>23. LastExists'
  <2> SUFFICES ASSUME NEW b \in Ais, RowsOf(b)' # {}
               PROVE  \E row \in RowsOf(b)' : \A other \in RowsOf(b)' : other.sequence <= row.sequence
    BY DEF LastExists
  <2>1. CASE b = a
    BY <2>1, <1>12, <1>13, <1>16, <1>17
  <2>2. CASE b # a
    BY <2>2, <1>11 DEF LastExists
  <2> QED BY <2>1, <2>2
<1>24. TailCurrent'
  <2> SUFFICES ASSUME NEW r \in Requests, request'[r].phase \in {"read", "inserted"}
               PROVE  request'[r].tail = TailOf(In(r).ai)'
    BY DEF TailCurrent
  <2>1. r # q /\ In(r).ai # a /\ request'[r] = request[r] /\ In(r)' = In(r)
    BY <1>8, <1>9, <1>10 DEF Writing
  <2> QED BY <2>1, <1>11 DEF TailCurrent
<1>25. SequencesAhead'
  <2>1. \A row \in flight' : row.sequence < nextSequence'
    BY <1>5, <1>14 DEF SequencesAhead
  <2>2. ASSUME NEW r \in Requests, request'[r].phase = "inserted"
        PROVE  /\ \A row \in RowsOf(In(r).ai)' : row.sequence < request'[r].sequence
               /\ request'[r].sequence < nextSequence'
    <3>1. r # q /\ In(r).ai # a /\ request'[r] = request[r] /\ In(r)' = In(r)
      BY <2>2, <1>8, <1>9, <1>10 DEF Writing
    <3>2. RowsOf(In(r).ai)' = RowsOf(In(r).ai)
      BY <3>1, <1>11
    <3> QED BY <2>2, <3>1, <3>2, <1>5 DEF SequencesAhead
  <2> QED BY <2>1, <2>2 DEF SequencesAhead
<1>26. ClaimsHeld'
  <2> SUFFICES ASSUME NEW r \in Requests, request'[r].phase \in {"read", "inserted"}
               PROVE  IF Confirming(r)' THEN ClaimIn(In(r).ai, request[r].claim)'
                      ELSE request'[r].claim = None
    BY DEF ClaimsHeld
  <2>1. r # q /\ In(r).ai # a /\ request'[r] = request[r] /\ In(r)' = In(r) /\ Confirming(r)' = Confirming(r)
    BY <1>8, <1>9, <1>10 DEF Writing
  <2> QED BY <2>1, <1>11 DEF ClaimsHeld, ClaimIn
<1>27. ExternalsReserved'
  <2>1. ASSUME NEW r \in Requests, request'[r].phase = "inserted", Confirming(r)'
        PROVE  \A row \in flight' : row.external # In(r)'.external
    <3>1. r # q /\ request'[r] = request[r] /\ In(r)' = In(r) /\ Confirming(r)
      BY <2>1, <1>8, <1>9 DEF Writing
    <3>2. \A row \in flight : row.external # In(r).external
      BY <2>1, <3>1 DEF ExternalsReserved
    <3>3. CASE Confirming(q)
      BY <2>1, <3>1, <3>2, <3>3, <1>4, <1>5 DEF ExternalsReserved, Commit
    <3>4. CASE ~Confirming(q)
      <4>1. In(r).external \in ExternalIds
        BY <2>1, <3>1, <1>10, ConfirmationExternal DEF Confirming, Writing
      <4> QED BY <3>1, <3>2, <3>4, <4>1, <1>4, <1>5, ConstantsOK
    <3> QED BY <3>3, <3>4
  <2>2. ASSUME NEW r \in Requests, request'[r].phase = "inserted", Confirming(r)',
               NEW o \in Requests, o # r, request'[o].phase = "inserted", Confirming(o)'
        PROVE  In(o)'.external # In(r)'.external
    <3>1. r # q /\ o # q
      BY <2>2, <1>8 DEF Writing
    <3> QED BY <2>2, <3>1, <1>9 DEF ExternalsReserved
  <2> QED BY <2>1, <2>2 DEF ExternalsReserved
<1>28. ChainLinear'
  <2>1. e.previous = TailOf(a)
    BY <1>2, <1>4 DEF TailCurrent, Commit
  <2>2. CASE RowsOf(a) = {}
    <3>1. Before(e)' = {} /\ e.previous = None
      BY <2>1, <2>2, <1>18 DEF TailOf, Last
    <3> QED BY <3>1, <1>5, <1>19 DEF ChainLinear
  <2>3. CASE RowsOf(a) # {}
    <3>1. \E prior \in RowsOf(a) : /\ e.previous = prior.event
                                   /\ \A other \in RowsOf(a) : other.sequence <= prior.sequence
      BY <2>1, <2>3 DEF LastExists, TailOf, Last
    <3> QED BY <3>1, <1>5, <1>18, <1>19 DEF ChainLinear
  <2> QED BY <2>2, <2>3
<1>29. ConfirmedOnce'
  <2>1. \A row \in flight : e.external # None => row.external # e.external
    BY <1>4 DEF ExternalsReserved, Commit
  <2> QED BY <2>1, <1>5 DEF ConfirmedOnce
<1>30. ResultsAnswerClaims'
  <2>1. CASE Confirming(q)
    <3>1. \E claim \in RowsOf(a) : claim.event = e.related /\ claim.type = "ACTION_REQUESTED"
      BY <2>1, <1>2, <1>4 DEF ClaimsHeld, ClaimIn, Commit
    <3>2. e.related # None
      BY <3>1, <1>15, <1>17, ConstantsOK
    <3> QED BY <3>1, <3>2, <1>5, <1>18, <1>19 DEF ResultsAnswerClaims
  <2>2. CASE ~Confirming(q)
    <3>1. e.related = None /\ e.state = "DECLARED"
      BY <2>2, <1>4 DEF ClaimsHeld, Commit
    <3> QED BY <3>1, <1>5, <1>19 DEF ResultsAnswerClaims
  <2> QED BY <2>1, <2>2
<1> QED BY <1>20, <1>21, <1>22, <1>23, <1>24, <1>25, <1>26, <1>27, <1>28, <1>29, <1>30

-----------------------------------------------------------------------------
(* Theorems                                                                  *)

(* Every step keeps the invariant.                                           *)
LEMMA StepInv == Inv /\ [Next]_vars => Inv'
<1> SUFFICES ASSUME Inv, [Next]_vars PROVE Inv'
  OBVIOUS
<1>0. registered \subseteq Ais
  BY DEF Inv, RecorderTypeOK
<1>1. CASE \E a \in Ais : Register(a)
  BY <1>0, <1>1, Elsewhere DEF Register
<1>2. ASSUME NEW q \in Requests, \E input \in Inputs : Receive(q, input) PROVE Inv'
  BY <1>2, ReceiveInv
<1>3. ASSUME NEW q \in Requests, \E known, matches \in BOOLEAN : BindDeclared(q, known, matches) PROVE Inv'
  BY <1>3, BindDeclaredInv
<1>4. ASSUME NEW q \in Requests, Lock(q) PROVE Inv'
  BY <1>4, LockInv
<1>5. ASSUME NEW q \in Requests, \E claim \in Requests \cup {None} : ReadTail(q, claim) PROVE Inv'
  BY <1>5, ReadTailInv
<1>6. ASSUME NEW q \in Requests, Insert(q) PROVE Inv'
  BY <1>6, InsertInv
<1>7. ASSUME NEW q \in Requests, Commit(q) PROVE Inv'
  BY <1>7, CommitInv
<1>8. ASSUME NEW q \in Requests,
             \/ UnknownAi(q) \/ InsertDuplicate(q) \/ Fail(q)
             \/ \E answer \in {"404", "422"} : RejectConfirmation(q, answer)
      PROVE  Inv'
  BY <1>8, RefusalsInv
<1>9. ASSUME NEW q \in Requests,
             \/ \E ahead \in BOOLEAN : RecordEvidence(q, ahead)
             \/ \E age \in {0, 2} : ClaimEvidence(q, age)
             \/ BindEvidence(q)
      PROVE  Inv'
  BY <1>9, LineageInv
<1>10. CASE \E c \in Readers : Page(c) \/ \E a \in Ais : StartReading(c, a)
  BY <1>0, <1>10, Elsewhere DEF Page, StartReading, recorder
<1>11. CASE UNCHANGED vars
  BY <1>0, <1>11, Elsewhere DEF vars, recorder
<1>12. CASE Quiet
  BY <1>11, <1>12 DEF Quiet
<1> QED BY <1>1, <1>2, <1>3, <1>4, <1>5, <1>6, <1>7, <1>8, <1>9, <1>10, <1>11, <1>12 DEF Next

(* The lock discipline of append and confirm holds in every reachable state. *)
THEOREM Invariance == Spec => []Inv
BY InitInv, StepInv, PTL DEF Spec

(* The recorder's own state keeps its types: every committed record passes   *)
(* the CHECK lists of migration 005.                                         *)
THEOREM RecorderTypes == Spec => []RecorderTypeOK
<1>1. Inv => RecorderTypeOK
  BY DEF Inv
<1> QED BY <1>1, Invariance, PTL

(* However appends and confirmations interleave and roll back, an AI's       *)
(* records in sequence order are one hash chain.                             *)
THEOREM ChainIsLinear == Spec => []ChainLinear
<1>1. Inv => ChainLinear
  BY DEF Inv
<1> QED BY <1>1, Invariance, PTL

(* One externalEventId is confirmed at most once, across all AIs.            *)
THEOREM ConfirmedAtMostOnce == Spec => []ConfirmedOnce
<1>1. Inv => ConfirmedOnce
  BY DEF Inv
<1> QED BY <1>1, Invariance, PTL

(* A result follows, in its AI's chain, the declared action it answers.      *)
THEOREM ResultsAnswerDeclaredActions == Spec => []ResultsAnswerClaims
<1>1. Inv => ResultsAnswerClaims
  BY DEF Inv
<1> QED BY <1>1, Invariance, PTL

-----------------------------------------------------------------------------
(* Who waits for whom                                                        *)

(* q cannot go on before r's transaction ends: r has q's AI locked, or has   *)
(* inserted q's external id.                                                 *)
BlockedOn(q, r) ==
  \/ request[q].phase = "begin" /\ lock[In(q).ai] = r
  \/ request[q].phase = "read" /\ Rival(q, r)

(* An AI's row is held by a request at work on that AI.                      *)
LocksHeldByWriters ==
  \A a \in Ais : lock[a] # None => request[lock[a]].phase \in Writing /\ In(lock[a]).ai = a

(* A step of q keeps it that takes no lock and leaves q at work if it was,   *)
(* or gives back what q holds, or takes the lock.                            *)
LEMMA HolderStep ==
  ASSUME RecorderTypeOK, LocksHeldByWriters, NEW q \in Requests, NEW x,
         request' = [request EXCEPT ![q] = x],
         \/ lock' = lock /\ (request[q].phase \in Writing => x.phase \in Writing /\ x.input = In(q))
         \/ lock' = [lock EXCEPT ![In(q).ai] = IF @ = q THEN None ELSE @]
         \/ lock' = [lock EXCEPT ![In(q).ai] = q] /\ x.phase \in Writing /\ x.input = In(q)
  PROVE  LocksHeldByWriters'
<1> SUFFICES ASSUME NEW a \in Ais, lock'[a] # None
             PROVE  request'[lock'[a]].phase \in Writing /\ request'[lock'[a]].input.ai = a
  BY DEF LocksHeldByWriters, In
<1>1. /\ request'[q] = x /\ \A r \in Requests : r # q => request'[r] = request[r]
      /\ lock[a] \in Requests \cup {None}
      /\ lock[a] # None => request[lock[a]].phase \in Writing /\ In(lock[a]).ai = a
  BY DEF RecorderTypeOK, LocksHeldByWriters
<1>2. CASE lock' = lock /\ (request[q].phase \in Writing => x.phase \in Writing /\ x.input = In(q))
  BY <1>1, <1>2 DEF In
<1>3. CASE lock' = [lock EXCEPT ![In(q).ai] = IF @ = q THEN None ELSE @]
  <2>1. lock'[a] = lock[a] /\ lock[a] # q
    BY <1>1, <1>3 DEF RecorderTypeOK
  <2>. QED
    BY <1>1, <2>1 DEF In
<1>4. CASE lock' = [lock EXCEPT ![In(q).ai] = q] /\ x.phase \in Writing /\ x.input = In(q)
  <2>1. lock'[a] = IF a = In(q).ai THEN q ELSE lock[a]
    BY <1>4 DEF RecorderTypeOK
  <2>. QED
    BY <1>1, <1>4, <2>1 DEF In
<1>. QED
  BY <1>2, <1>3, <1>4

LEMMA HoldersStep == Inv /\ LocksHeldByWriters /\ [Next]_vars => LocksHeldByWriters'
<1> SUFFICES ASSUME Inv, LocksHeldByWriters, [Next]_vars PROVE LocksHeldByWriters'
  OBVIOUS
<1>0. RecorderTypeOK /\ request \in [Requests -> RequestRecords]
  BY DEF Inv, RecorderTypeOK
<1>1. CASE UNCHANGED <<lock, request>>
  BY <1>1 DEF LocksHeldByWriters, In
<1>2. ASSUME NEW q \in Requests, NEW p, To(q, p), lock' = lock,
             request[q].phase \in Writing => p \in Writing
      PROVE  LocksHeldByWriters'
  <2> DEFINE x == [request[q] EXCEPT !.phase = p]
  <2>1. request' = [request EXCEPT ![q] = x] /\ x.phase = p /\ x.input = In(q)
    BY <1>0, <1>2 DEF To, In, RequestRecords
  <2> HIDE DEF x
  <2>. QED
    BY <1>0, <1>2, <2>1, HolderStep
<1>3. ASSUME NEW q \in Requests, NEW answer, Answer(q, answer), lock' = lock, request[q].phase \notin Writing
      PROVE  LocksHeldByWriters'
  BY <1>0, <1>3, HolderStep DEF Answer
<1>4. ASSUME NEW q \in Requests, NEW answer, Abandon(q, answer)
      PROVE  LocksHeldByWriters'
  BY <1>0, <1>4, HolderStep DEF Abandon, Answer
<1>5. ASSUME NEW q \in Requests, NEW input \in Inputs, Receive(q, input)
      PROVE  LocksHeldByWriters'
  <2>1. lock' = lock /\ request[q].phase \notin Writing
    BY <1>5 DEF Receive, recorder, Writing
  <2>2. CASE Answer(q, "400")
    BY <1>3, <2>1, <2>2
  <2>3. ASSUME NEW p, request' = [request EXCEPT ![q].input = input, ![q].phase = p]
        PROVE  LocksHeldByWriters'
    <3>1. \E x : request' = [request EXCEPT ![q] = x]
      BY <1>0, <2>3
    <3>. QED
      BY <1>0, <2>1, <3>1, HolderStep
  <2>. QED
    BY <1>5, <2>2, <2>3 DEF Receive
<1>6. ASSUME NEW q \in Requests, NEW known, NEW matches, BindDeclared(q, known, matches)
      PROVE  LocksHeldByWriters'
  BY <1>2, <1>3, <1>6 DEF BindDeclared, recorder, Writing
<1>7. ASSUME NEW q \in Requests, Lock(q)
      PROVE  LocksHeldByWriters'
  <2> DEFINE x == [request[q] EXCEPT !.phase = "locked"]
  <2>1. request' = [request EXCEPT ![q] = x] /\ x.phase \in Writing /\ x.input = In(q)
    BY <1>0, <1>7 DEF Lock, To, In, RequestRecords, Writing
  <2>2. lock' = [lock EXCEPT ![In(q).ai] = q]
    BY <1>7 DEF Lock
  <2> HIDE DEF x
  <2>. QED
    BY <1>0, <2>1, <2>2, HolderStep
<1>8. ASSUME NEW q \in Requests, NEW claim, ReadTail(q, claim)
      PROVE  LocksHeldByWriters'
  <2> DEFINE x == [request[q] EXCEPT !.phase = "read", !.claim = claim, !.tail = TailOf(In(q).ai)]
  <2>1. request' = [request EXCEPT ![q] = x] /\ x.phase \in Writing /\ x.input = In(q) /\ lock' = lock
    BY <1>0, <1>8 DEF ReadTail, recorder, In, RequestRecords, Writing
  <2> HIDE DEF x
  <2>. QED
    BY <1>0, <2>1, HolderStep
<1>9. ASSUME NEW q \in Requests, Insert(q)
      PROVE  LocksHeldByWriters'
  <2> DEFINE x == [request[q] EXCEPT !.phase = "inserted", !.sequence = nextSequence]
  <2>1. request' = [request EXCEPT ![q] = x] /\ x.phase \in Writing /\ x.input = In(q) /\ lock' = lock
    BY <1>0, <1>9 DEF Insert, In, RequestRecords, Writing
  <2> HIDE DEF x
  <2>. QED
    BY <1>0, <2>1, HolderStep
<1>10. ASSUME NEW q \in Requests, Commit(q)
       PROVE  LocksHeldByWriters'
  <2>1. \E x : request' = [request EXCEPT ![q] = x]
    BY <1>10 DEF Commit, Answer
  <2>. QED
    BY <1>0, <1>10, <2>1, HolderStep DEF Commit
<1>11. ASSUME NEW q \in Requests,
              \/ UnknownAi(q) \/ InsertDuplicate(q) \/ Fail(q)
              \/ \E answer \in {"404", "422"} : RejectConfirmation(q, answer)
       PROVE  LocksHeldByWriters'
  BY <1>3, <1>4, <1>11 DEF UnknownAi, InsertDuplicate, Fail, RejectConfirmation, recorder, Writing
<1>12. ASSUME NEW q \in Requests,
              \/ \E ahead \in BOOLEAN : RecordEvidence(q, ahead)
              \/ \E age \in {0, 2} : ClaimEvidence(q, age)
       PROVE  LocksHeldByWriters'
  BY <1>2, <1>3, <1>12 DEF RecordEvidence, ClaimEvidence, recorder, Writing
<1>13. ASSUME NEW q \in Requests, BindEvidence(q)
       PROVE  LocksHeldByWriters'
  <2>1. \E x : request' = [request EXCEPT ![q] = x]
    BY <1>0, <1>13 DEF BindEvidence, Answer
  <2>2. lock' = lock /\ request[q].phase \notin Writing
    BY <1>13 DEF BindEvidence, recorder, Writing
  <2>. QED
    BY <1>0, <2>1, <2>2, HolderStep
<1>14. \/ UNCHANGED <<lock, request>>
       \/ \E q \in Requests :
            \/ \E input \in Inputs : Receive(q, input)
            \/ \E known, matches \in BOOLEAN : BindDeclared(q, known, matches)
            \/ Lock(q) \/ UnknownAi(q)
            \/ \E claim \in Requests \cup {None} : ReadTail(q, claim)
            \/ \E answer \in {"404", "422"} : RejectConfirmation(q, answer)
            \/ Insert(q) \/ InsertDuplicate(q) \/ Commit(q)
            \/ \E ahead \in BOOLEAN : RecordEvidence(q, ahead)
            \/ \E age \in {0, 2} : ClaimEvidence(q, age)
            \/ BindEvidence(q) \/ Fail(q)
  BY DEF Next, Register, Page, StartReading, Quiet, vars, recorder
<1>. QED
  BY <1>1, <1>5, <1>6, <1>7, <1>8, <1>9, <1>10, <1>11, <1>12, <1>13, <1>14

(* No deadlock: one who waits for an AI's row waits for a transaction that   *)
(* waits, if at all, for one that has inserted and waits for nobody, however *)
(* many AIs, requests and external ids there are (ai.ts:86,94, db/005:23).   *)
WaitsEnd ==
  \A q, r \in Requests : BlockedOn(q, r) =>
    /\ request[r].phase \in Writing
    /\ \A s \in Requests : BlockedOn(r, s) => request[s].phase = "inserted" /\ \A t \in Requests : ~BlockedOn(s, t)

THEOREM WaitsEndSoon == Spec => []WaitsEnd
<1>1. Init => LocksHeldByWriters
  BY DEF Init, LocksHeldByWriters
<1>2. Inv /\ LocksHeldByWriters => WaitsEnd
  <2> SUFFICES ASSUME Inv, LocksHeldByWriters, NEW q \in Requests, NEW r \in Requests, BlockedOn(q, r)
               PROVE  /\ request[r].phase \in Writing
                      /\ \A s \in Requests : BlockedOn(r, s) =>
                           request[s].phase = "inserted" /\ \A t \in Requests : ~BlockedOn(s, t)
    BY DEF WaitsEnd
  <2>1. request[r].phase \in Writing
    <3>1. CASE request[q].phase = "begin" /\ lock[In(q).ai] = r
      <4>1. In(q).ai \in Ais
        BY <3>1, AtWork DEF Answers
      <4>2. lock[In(q).ai] # None
        BY <3>1, ConstantsOK
      <4>. QED
        BY <3>1, <4>1, <4>2 DEF LocksHeldByWriters
    <3>2. CASE request[q].phase = "read" /\ Rival(q, r)
      BY <3>2 DEF Rival, Writing
    <3>. QED
      BY <3>1, <3>2 DEF BlockedOn
  <2>. QED
    BY <2>1 DEF BlockedOn, Rival, Writing
<1>. QED
  BY <1>1, <1>2, HoldersStep, InitInv, StepInv, PTL DEF Spec

-----------------------------------------------------------------------------
(* What the clients are told: pages that miss nothing behind their cursor,   *)
(* and answers that are true.                                                *)

Readings == [ai : Ais \cup {None}, cursor : Nat, rows : SUBSET Rows, done : BOOLEAN]

(* There are finitely many records, and those of an AI stand in order: any   *)
(* of them have a first and a last one.                                      *)
FlightOrdered ==
  /\ IsFiniteSet(flight)
  /\ \A row \in flight : row.sequence # 0
  /\ \A q \in Requests : request[q].phase = "inserted" => request[q].sequence # 0
  /\ \A a \in Ais : \A S \in SUBSET RowsOf(a) : S # {} =>
       /\ \E row \in S : \A other \in S : row.sequence <= other.sequence
       /\ \E row \in S : \A other \in S : other.sequence <= row.sequence

(* A reader that is not done has all records up to its cursor, which is the  *)
(* sequence of one of them.                                                  *)
CursorsHonest ==
  \A c \in Readers :
    /\ IF reader[c].ai = None THEN reader[c].rows = {} ELSE reader[c].rows \subseteq RowsOf(reader[c].ai)
    /\ ~reader[c].done /\ reader[c].ai # None =>
         /\ \A row \in RowsOf(reader[c].ai) : row.sequence <= reader[c].cursor => row \in reader[c].rows
         /\ reader[c].cursor = 0 \/ \E row \in RowsOf(reader[c].ai) : row.sequence = reader[c].cursor

Paging ==
  /\ FlightOrdered
  /\ reader \in [Readers -> Readings]
  /\ CursorsHonest
  /\ TimelineComplete

-----------------------------------------------------------------------------
(* What a commit adds: a record above all others of its AI.                  *)
LEMMA CommitAdds ==
  ASSUME Inv, NEW q \in Requests, Commit(q)
  PROVE  \E e \in Rows :
           /\ e = EventOf(q) /\ e.ai \in Ais /\ e.sequence = request[q].sequence
           /\ flight' = flight \cup {e}
           /\ \A row \in RowsOf(e.ai) : row.sequence < e.sequence
<1>1. In(q) \in Inputs /\ In(q).ai \in Ais
  BY AtWork DEF Commit, Answers
<1>2. PICK e \in Rows : e = EventOf(q)
  BY <1>1, EventType
<1>3. e.ai = In(q).ai /\ e.sequence = request[q].sequence
  BY <1>2 DEF EventOf
<1>4. \A row \in RowsOf(e.ai) : row.sequence < e.sequence
  BY <1>3 DEF SequencesAhead, Commit, Inv
<1>5. flight' = flight \cup {e}
  BY <1>2 DEF Commit
<1> QED BY <1>1, <1>2, <1>3, <1>4, <1>5

(* Only a commit adds records.                                               *)
LEMMA OnlyCommits ==
  ASSUME [Next]_vars
  PROVE  flight' = flight \/ \E q \in Requests : Commit(q)
BY DEF Next, vars, recorder, Register, Receive, BindDeclared, Lock, UnknownAi, ReadTail, RejectConfirmation,
       Insert, InsertDuplicate, RecordEvidence, ClaimEvidence, BindEvidence, Fail, Page, StartReading, Quiet

(* Whoever has inserted drew the current sequence now or had one before.     *)
LEMMA InsertedDrew ==
  ASSUME Inv, [Next]_vars, NEW r \in Requests, request'[r].phase = "inserted"
  PROVE  \/ request[r].phase = "inserted" /\ request'[r].sequence = request[r].sequence
         \/ request'[r].sequence = nextSequence
<1> USE DEF Inv, RecorderTypeOK
<1>1. request[r] \in RequestRecords
  OBVIOUS
<1>2. ASSUME request'[r] = request[r] PROVE request[r].phase = "inserted" /\ request'[r].sequence = request[r].sequence
  BY <1>2
<1>3. CASE UNCHANGED request
  BY <1>2, <1>3
<1>4. ASSUME NEW q \in Requests, NEW p \in Answers, Answer(q, p) PROVE request'[r] = request[r]
  <2>1. "inserted" \notin Answers
    BY DEF Answers
  <2>2. [Unborn EXCEPT !.phase = p].phase = p
    BY DEF Unborn
  <2> QED BY <1>4, <2>1, <2>2 DEF Answer
<1>5. ASSUME NEW q \in Requests, NEW p, p # "inserted", To(q, p) PROVE request'[r] = request[r]
  <2>1. CASE r = q
    <3>1. request'[r].phase = p
      BY <1>1, <1>5, <2>1 DEF To, RequestRecords
    <3> QED BY <1>5, <3>1
  <2>2. CASE r # q
    BY <1>5, <2>2 DEF To
  <2> QED BY <2>1, <2>2
<1>6. ASSUME NEW q \in Requests, NEW input \in Inputs, Receive(q, input) PROVE request'[r] = request[r]
  <2>1. CASE Answer(q, "400")
    BY <2>1, <1>4 DEF Answers
  <2>2. CASE request' = [request EXCEPT ![q].input = input,
                              ![q].phase = IF input.kind = "declaration" THEN "bind" ELSE "begin"]
    BY <1>1, <2>2 DEF RequestRecords
  <2> QED BY <1>6, <2>1, <2>2 DEF Receive
<1>7. ASSUME NEW q \in Requests, NEW known \in BOOLEAN, NEW matches \in BOOLEAN, BindDeclared(q, known, matches)
      PROVE  request'[r] = request[r]
  <2>1. To(q, "begin") \/ Answer(q, "400")
    BY <1>7 DEF BindDeclared
  <2> QED BY <2>1, <1>4, <1>5 DEF Answers
<1>8. ASSUME NEW q \in Requests, Lock(q) PROVE request'[r] = request[r]
  BY <1>8, <1>5 DEF Lock
<1>9. ASSUME NEW q \in Requests, NEW claim \in Requests \cup {None}, ReadTail(q, claim) PROVE request'[r] = request[r]
  BY <1>1, <1>9 DEF ReadTail, RequestRecords
<1>10. ASSUME NEW q \in Requests, Insert(q)
       PROVE  \/ request'[r] = request[r]
              \/ request'[r].sequence = nextSequence
  BY <1>1, <1>10 DEF Insert, RequestRecords
<1>11. ASSUME NEW q \in Requests, Commit(q) PROVE request'[r] = request[r]
  <2>1. CASE Answer(q, "201")
    BY <2>1, <1>4 DEF Answers
  <2>2. CASE request' = [request EXCEPT ![q] = [Unborn EXCEPT !.input = In(q), !.phase = "record"]]
    <3>1. [Unborn EXCEPT !.input = In(q), !.phase = "record"].phase = "record"
      BY DEF Unborn
    <3> QED BY <2>2, <3>1
  <2> QED BY <1>11, <2>1, <2>2 DEF Commit
<1>12. ASSUME NEW q \in Requests,
              \/ UnknownAi(q) \/ InsertDuplicate(q) \/ Fail(q)
              \/ \E answer \in {"404", "422"} : RejectConfirmation(q, answer)
       PROVE  request'[r] = request[r]
  <2>1. \E p \in Answers : Answer(q, p)
    BY <1>12 DEF UnknownAi, InsertDuplicate, Fail, RejectConfirmation, Abandon, Answers
  <2> QED BY <2>1, <1>4
<1>13. ASSUME NEW q \in Requests,
              \/ \E ahead \in BOOLEAN : RecordEvidence(q, ahead)
              \/ \E age \in {0, 2} : ClaimEvidence(q, age)
       PROVE  request'[r] = request[r]
  <2>1. \/ \E p \in Answers : Answer(q, p)
        \/ \E p \in {"claim", "bound"} : To(q, p)
    BY <1>13 DEF RecordEvidence, ClaimEvidence, Answers
  <2> QED BY <2>1, <1>4, <1>5
<1>14. ASSUME NEW q \in Requests, BindEvidence(q) PROVE request'[r] = request[r]
  <2>1. CASE Answer(q, "201")
    BY <2>1, <1>4 DEF Answers
  <2>2. CASE request' = [request EXCEPT ![q].phase = "claim", ![q].domain = "INCIDENT"]
    BY <1>1, <2>2 DEF RequestRecords
  <2> QED BY <1>14, <2>1, <2>2 DEF BindEvidence
<1>15. \/ UNCHANGED request
       \/ \E q \in Requests : \E input \in Inputs : Receive(q, input)
       \/ \E q \in Requests : \E known, matches \in BOOLEAN : BindDeclared(q, known, matches)
       \/ \E q \in Requests : Lock(q) \/ Insert(q) \/ Commit(q) \/ BindEvidence(q)
       \/ \E q \in Requests : \E claim \in Requests \cup {None} : ReadTail(q, claim)
       \/ \E q \in Requests : \/ UnknownAi(q) \/ InsertDuplicate(q) \/ Fail(q)
                              \/ \E answer \in {"404", "422"} : RejectConfirmation(q, answer)
       \/ \E q \in Requests : \/ \E ahead \in BOOLEAN : RecordEvidence(q, ahead)
                              \/ \E age \in {0, 2} : ClaimEvidence(q, age)
  BY DEF Next, vars, Register, Page, StartReading, Quiet
<1> QED BY <1>2, <1>3, <1>6, <1>7, <1>8, <1>9, <1>10, <1>11, <1>12, <1>13, <1>14, <1>15

-----------------------------------------------------------------------------
(* Records in order                                                          *)

(* The order survives every step.                                            *)
LEMMA OrderedStep == Inv /\ FlightOrdered /\ [Next]_vars => FlightOrdered'
<1> SUFFICES ASSUME Inv, FlightOrdered, [Next]_vars PROVE FlightOrdered'
  OBVIOUS
<1>1. \A r \in Requests : request'[r].phase = "inserted" => request'[r].sequence # 0
  BY InsertedDrew DEF FlightOrdered, Inv, RecorderTypeOK
<1>2. CASE flight' = flight
  <2>1. \A a : RowsOf(a)' = RowsOf(a)
    BY <1>2 DEF RowsOf
  <2> QED BY <1>1, <1>2, <2>1 DEF FlightOrdered
<1>3. ASSUME NEW q \in Requests, Commit(q) PROVE FlightOrdered'
  <2>1. PICK e \in Rows : /\ e.ai \in Ais /\ e.sequence = request[q].sequence
                          /\ flight' = flight \cup {e}
                          /\ \A row \in RowsOf(e.ai) : row.sequence < e.sequence
    BY <1>3, CommitAdds
  <2>2. IsFiniteSet(flight')
    BY <2>1, FS_AddElement DEF FlightOrdered
  <2>3. e.sequence # 0
    BY <1>3, <2>1 DEF FlightOrdered, Commit
  <2>4. \A row \in flight' : row.sequence # 0
    BY <2>1, <2>3 DEF FlightOrdered
  <2>5. e.sequence \in Nat /\ \A row \in flight : row.sequence \in Nat
    BY DEF Rows, Inv, RecorderTypeOK
  <2>6. ASSUME NEW a \in Ais, NEW S \in SUBSET RowsOf(a)', S # {}
        PROVE  /\ \E row \in S : \A other \in S : row.sequence <= other.sequence
               /\ \E row \in S : \A other \in S : other.sequence <= row.sequence
    <3>1. S \ {e} \in SUBSET RowsOf(a)
      BY <2>1 DEF RowsOf
    <3>2. CASE e \notin S
      <4>1. S \in SUBSET RowsOf(a)
        BY <3>1, <3>2
      <4> QED BY <2>6, <4>1 DEF FlightOrdered
    <3>3. CASE S = {e}
      BY <2>5, <3>3
    <3>4. CASE e \in S /\ S # {e}
      <4>1. e.ai = a
        BY <3>4 DEF RowsOf
      <4>2. \A row \in S \ {e} : row.sequence < e.sequence /\ row.sequence \in Nat
        BY <2>1, <2>5, <3>1, <4>1 DEF RowsOf
      <4>3. \E row \in S \ {e} : \A other \in S \ {e} : row.sequence <= other.sequence
        BY <3>1, <3>4 DEF FlightOrdered
      <4>4. \E row \in S : \A other \in S : row.sequence <= other.sequence
        BY <2>5, <4>2, <4>3
      <4>5. \E row \in S : \A other \in S : other.sequence <= row.sequence
        BY <2>5, <3>4, <4>2
      <4> QED BY <4>4, <4>5
    <3> QED BY <3>2, <3>3, <3>4
  <2> QED BY <1>1, <2>2, <2>4, <2>6 DEF FlightOrdered
<1> QED BY <1>2, <1>3, OnlyCommits

(* The first records of a set contain whatever stands before one of them.    *)
LEMMA FirstClosed ==
  ASSUME NEW R \in SUBSET Rows, IsFiniteSet(R), NEW n \in Nat,
         NEW seen \in First(R, n), NEW row \in R, row.sequence <= seen.sequence
  PROVE  row \in First(R, n)
<1> DEFINE B == {r \in R : r.sequence < seen.sequence}
           A == {r \in R : r.sequence < row.sequence}
<1>1. \A r \in R : r.sequence \in Nat
  BY DEF Rows
<1>2. seen \in R /\ Cardinality(B) < n
  BY DEF First
<1>3. A \in SUBSET B /\ B \in SUBSET R
  BY <1>1, <1>2
<1>4. IsFiniteSet(B) /\ Cardinality(B) \in Nat
  BY <1>3, FS_Subset, FS_CardinalityType
<1>5. Cardinality(A) \in Nat /\ Cardinality(A) <= Cardinality(B)
  BY <1>3, <1>4, FS_Subset, FS_CardinalityType
<1>6. Cardinality(A) < n
  BY <1>2, <1>4, <1>5
<1> QED BY <1>6 DEF First

(* The first record of a set is among its first n.                           *)
LEMMA FirstSome ==
  ASSUME NEW R \in SUBSET Rows, NEW n \in Nat \ {0},
         NEW low \in R, \A other \in R : low.sequence <= other.sequence
  PROVE  low \in First(R, n)
<1>1. \A r \in R : r.sequence \in Nat
  BY DEF Rows
<1>2. {r \in R : r.sequence < low.sequence} = {}
  BY <1>1
<1>3. Cardinality({r \in R : r.sequence < low.sequence}) < n
  BY <1>2, FS_EmptySet
<1> QED BY <1>3 DEF First

-----------------------------------------------------------------------------
(* Paging                                                                    *)

(* A page closes the gap between the reader's cursor and its own last        *)
(* record, and the next cursor is that record's sequence.                    *)
LEMMA PageStep ==
  ASSUME Inv, Paging, NEW c \in Readers, Page(c)
  PROVE  reader' \in [Readers -> Readings] /\ CursorsHonest' /\ TimelineComplete'
<1> DEFINE a == reader[c].ai
           later == After(a, reader[c].cursor)
           fetched == First(later, PageSize + 1)
           page == First(fetched, PageSize)
           hasMore == Cardinality(fetched) > PageSize
           next == IF hasMore THEN NextCursor(fetched, page) ELSE reader[c].cursor
<1>1. /\ reader[c] \in Readings /\ a \in Ais /\ ~reader[c].done
  BY DEF Paging, Page, Readings
<1>2. reader[c].cursor \in Nat /\ PageSize \in Nat \ {0} /\ PageSize + 1 \in Nat \ {0}
  BY <1>1, ConstantsOK DEF Readings
<1>3. later \in SUBSET RowsOf(a) /\ RowsOf(a) \in SUBSET flight /\ flight \in SUBSET Rows
  BY DEF After, RowsOf, Inv, RecorderTypeOK
<1>4. fetched \in SUBSET later /\ page \in SUBSET fetched
  BY DEF First
<1>5. IsFiniteSet(later) /\ IsFiniteSet(fetched)
  BY <1>3, <1>4, FS_Subset DEF Paging, FlightOrdered
<1>6. \A row \in RowsOf(a) : row.sequence \in Nat
  BY <1>3 DEF Rows
<1>7. ASSUME NEW seen \in page, NEW row \in later, row.sequence <= seen.sequence PROVE row \in page
  <2>1. seen \in fetched /\ fetched \in SUBSET Rows /\ later \in SUBSET Rows
    BY <1>3, <1>4
  <2>2. row \in fetched
    BY <1>2, <1>5, <1>7, <2>1, FirstClosed
  <2> QED BY <1>2, <1>5, <1>7, <2>1, <2>2, FirstClosed
<1>8. ASSUME hasMore
      PROVE  \E last \in page : /\ last.sequence = LastSequence(page)
                                /\ \A row \in page : row.sequence <= last.sequence
  <2>1. fetched # {}
    BY <1>2, <1>8, FS_EmptySet
  <2>2. fetched \in SUBSET RowsOf(a) /\ fetched \in SUBSET Rows
    BY <1>3, <1>4
  <2>3. PICK low \in fetched : \A other \in fetched : low.sequence <= other.sequence
    BY <1>1, <2>1, <2>2 DEF Paging, FlightOrdered
  <2>4. low \in page
    BY <1>2, <2>2, <2>3, FirstSome
  <2>5. page \in SUBSET RowsOf(a) /\ page # {}
    BY <1>4, <2>2, <2>4
  <2> HIDE DEF page
  <2>6. PICK high \in page : \A other \in page : other.sequence <= high.sequence
    BY <1>1, <2>5 DEF Paging, FlightOrdered
  <2>7. high.sequence \in {row.sequence : row \in page}
    OBVIOUS
  <2>8. /\ LastSequence(page) \in {row.sequence : row \in page}
        /\ \A row \in page : row.sequence <= LastSequence(page)
    BY <2>6, <2>7 DEF LastSequence
  <2> QED BY <2>8
<1>9. page \in SUBSET RowsOf(a)
  BY <1>3, <1>4
<1>10. hasMore => \E last \in page : /\ last.sequence = next
                                     /\ \A row \in page : row.sequence <= last.sequence
  BY <1>8 DEF NextCursor
<1>11. next \in Nat
  BY <1>2, <1>6, <1>9, <1>10
<1>12. reader'[c] = [reader[c] EXCEPT !.rows = @ \cup page, !.done = ~hasMore, !.cursor = next]
       /\ \A d \in Readers : d # c => reader'[d] = reader[d]
  BY DEF Page, Paging
<1>13. \A row \in RowsOf(a) : row \in later \/ row.sequence <= reader[c].cursor
  BY <1>2, <1>6 DEF After
<1>14. \A row \in RowsOf(a) : row.sequence <= reader[c].cursor => row \in reader[c].rows
  BY <1>1, ConstantsOK DEF Paging, CursorsHonest
<1>15. \A seen \in reader[c].rows, row \in RowsOf(a) : row.sequence <= seen.sequence => row \in reader[c].rows
  BY DEF Paging, TimelineComplete
<1>16. reader[c].rows \subseteq RowsOf(a) /\ reader[c].rows \subseteq Rows
  BY <1>1, ConstantsOK DEF Paging, CursorsHonest, Readings
<1>17. flight' = flight
  BY DEF Page, recorder
<1>18. \A b : RowsOf(b)' = RowsOf(b)
  BY <1>17 DEF RowsOf
<1>19. hasMore \in BOOLEAN
  OBVIOUS
<1>20. page \in SUBSET Rows
  BY <1>3, <1>9
<1> HIDE DEF page, fetched, later, hasMore, next
<1>21. /\ reader'[c].ai = a /\ reader'[c].cursor = next
       /\ reader'[c].rows = reader[c].rows \cup page
       /\ reader'[c].done = ~hasMore
       /\ reader'[c] \in Readings
  BY <1>1, <1>11, <1>12, <1>16, <1>19, <1>20 DEF Readings
<1>22. reader' \in [Readers -> Readings]
  BY <1>21 DEF Page, Paging
<1>23. \A seen \in reader[c].rows \cup page, row \in RowsOf(a) :
         row.sequence <= seen.sequence => row \in reader[c].rows \cup page
  BY <1>7, <1>13, <1>14, <1>15
<1>24. TimelineComplete'
  <2> SUFFICES ASSUME NEW d \in Readers, NEW seen \in reader'[d].rows, NEW row \in RowsOf(reader'[d].ai),
                      row.sequence <= seen.sequence
               PROVE  row \in reader'[d].rows
    BY <1>18 DEF TimelineComplete
  <2>1. CASE d = c
    BY <2>1, <1>21, <1>23
  <2>2. CASE d # c
    BY <2>2, <1>12 DEF Paging, TimelineComplete
  <2> QED BY <2>1, <2>2
<1>25. CursorsHonest'
  <2>1. ASSUME NEW d \in Readers, d # c
        PROVE  /\ IF reader'[d].ai = None THEN reader'[d].rows = {}
                  ELSE reader'[d].rows \subseteq RowsOf(reader'[d].ai)
               /\ ~reader'[d].done /\ reader'[d].ai # None =>
                    /\ \A row \in RowsOf(reader'[d].ai) : row.sequence <= reader'[d].cursor => row \in reader'[d].rows
                    /\ reader'[d].cursor = 0 \/ \E row \in RowsOf(reader'[d].ai) : row.sequence = reader'[d].cursor
    BY <2>1, <1>12 DEF Paging, CursorsHonest
  <2>2. reader'[c].ai # None /\ reader'[c].rows \subseteq RowsOf(a)
    BY <1>1, <1>9, <1>16, <1>21, ConstantsOK
  <2>3. ASSUME hasMore
        PROVE  /\ \A row \in RowsOf(a) : row.sequence <= next => row \in reader[c].rows \cup page
               /\ \E row \in RowsOf(a) : row.sequence = next
    BY <2>3, <1>9, <1>10, <1>23
  <2> QED BY <2>1, <2>2, <2>3, <1>18, <1>21 DEF CursorsHonest
<1> QED BY <1>22, <1>24, <1>25

(* A reader that starts has nothing and has missed nothing.                  *)
LEMMA StartStep ==
  ASSUME Inv, Paging, NEW c \in Readers, NEW a \in Ais, StartReading(c, a)
  PROVE  reader' \in [Readers -> Readings] /\ CursorsHonest' /\ TimelineComplete'
<1>1. /\ reader'[c].ai = a /\ reader'[c].cursor = 0 /\ reader'[c].rows = {} /\ reader'[c].done = FALSE
      /\ reader'[c] \in Readings
      /\ \A d \in Readers : d # c => reader'[d] = reader[d]
  <2>1. reader'[c] = [Resting EXCEPT !.ai = a] /\ \A d \in Readers : d # c => reader'[d] = reader[d]
    BY DEF StartReading, Paging
  <2>2. reader'[c] = [ai |-> a, cursor |-> 0, rows |-> {}, done |-> FALSE]
    BY <2>1 DEF Resting
  <2>3. [ai |-> a, cursor |-> 0, rows |-> {}, done |-> FALSE] \in Readings
    BY DEF Readings
  <2> QED BY <2>1, <2>2, <2>3
<1>2. reader' \in [Readers -> Readings]
  BY <1>1 DEF StartReading, Paging
<1>3. flight' = flight /\ \A b : RowsOf(b)' = RowsOf(b)
  BY DEF StartReading, recorder, RowsOf
<1>4. \A row \in flight : ~(row.sequence <= 0)
  BY DEF Paging, FlightOrdered, Rows, Inv, RecorderTypeOK
<1>5. TimelineComplete'
  <2> SUFFICES ASSUME NEW d \in Readers, NEW seen \in reader'[d].rows, NEW row \in RowsOf(reader'[d].ai),
                      row.sequence <= seen.sequence
               PROVE  row \in reader'[d].rows
    BY <1>3 DEF TimelineComplete
  <2>1. d # c
    BY <1>1
  <2> QED BY <1>1, <2>1 DEF Paging, TimelineComplete
<1>6. CursorsHonest'
  <2>1. ASSUME NEW d \in Readers, d # c
        PROVE  /\ IF reader'[d].ai = None THEN reader'[d].rows = {}
                  ELSE reader'[d].rows \subseteq RowsOf(reader'[d].ai)
               /\ ~reader'[d].done /\ reader'[d].ai # None =>
                    /\ \A row \in RowsOf(reader'[d].ai) : row.sequence <= reader'[d].cursor => row \in reader'[d].rows
                    /\ reader'[d].cursor = 0 \/ \E row \in RowsOf(reader'[d].ai) : row.sequence = reader'[d].cursor
    BY <2>1, <1>1 DEF Paging, CursorsHonest
  <2>2. \A row \in RowsOf(a) : ~(row.sequence <= 0)
    BY <1>4 DEF RowsOf
  <2> QED BY <2>1, <2>2, <1>1, <1>3 DEF CursorsHonest
<1> QED BY <1>2, <1>5, <1>6

(* A commit adds a record beyond every cursor and every record seen.         *)
LEMMA CommitPages ==
  ASSUME Inv, Paging, NEW q \in Requests, Commit(q)
  PROVE  reader' \in [Readers -> Readings] /\ CursorsHonest' /\ TimelineComplete'
<1>1. PICK e \in Rows : /\ e.ai \in Ais /\ flight' = flight \cup {e}
                        /\ \A row \in RowsOf(e.ai) : row.sequence < e.sequence
                        /\ e.sequence = request[q].sequence
  BY CommitAdds
<1>2. reader' = reader
  BY DEF Commit
<1>3. e.sequence \in Nat /\ e.sequence # 0
  BY <1>1 DEF Rows, Commit, Paging, FlightOrdered
<1>4. \A b : RowsOf(b)' \subseteq RowsOf(b) \cup {e} /\ RowsOf(b) \subseteq RowsOf(b)'
  BY <1>1 DEF RowsOf
<1>5. \A b : e \in RowsOf(b)' => b = e.ai
  BY DEF RowsOf
<1>6. \A row \in flight : row.sequence \in Nat
  BY DEF Rows, Inv, RecorderTypeOK
<1>7. ASSUME NEW d \in Readers, reader[d].ai # None
      PROVE  reader[d].rows \subseteq RowsOf(reader[d].ai) /\ reader[d].cursor \in Nat
  BY <1>7 DEF Paging, CursorsHonest, Readings
<1>8. TimelineComplete'
  <2> SUFFICES ASSUME NEW d \in Readers, NEW seen \in reader[d].rows, NEW row \in RowsOf(reader[d].ai)',
                      row.sequence <= seen.sequence
               PROVE  row \in reader[d].rows
    BY <1>2 DEF TimelineComplete
  <2>1. reader[d].ai # None /\ seen \in RowsOf(reader[d].ai)
    BY <1>7 DEF Paging, CursorsHonest
  <2>2. row # e \/ row \in RowsOf(reader[d].ai)
    <3> SUFFICES ASSUME row = e PROVE FALSE
      OBVIOUS
    <3>1. seen.sequence < e.sequence /\ seen.sequence \in Nat
      BY <1>1, <1>2, <1>5, <1>6, <2>1 DEF RowsOf
    <3> QED BY <3>1, <1>3
  <2>3. row \in RowsOf(reader[d].ai)
    BY <1>2, <1>4, <2>2
  <2> QED BY <2>3 DEF Paging, TimelineComplete
<1>9. CursorsHonest'
  <2> SUFFICES ASSUME NEW d \in Readers
               PROVE  /\ IF reader[d].ai = None THEN reader[d].rows = {}
                         ELSE reader[d].rows \subseteq RowsOf(reader[d].ai)'
                      /\ ~reader[d].done /\ reader[d].ai # None =>
                           /\ \A row \in RowsOf(reader[d].ai)' : row.sequence <= reader[d].cursor => row \in reader[d].rows
                           /\ reader[d].cursor = 0 \/ \E row \in RowsOf(reader[d].ai)' : row.sequence = reader[d].cursor
    BY <1>2 DEF CursorsHonest
  <2>1. IF reader[d].ai = None THEN reader[d].rows = {}
        ELSE reader[d].rows \subseteq RowsOf(reader[d].ai)'
    BY <1>2, <1>4 DEF Paging, CursorsHonest
  <2>2. ASSUME ~reader[d].done, reader[d].ai # None
        PROVE  /\ \A row \in RowsOf(reader[d].ai)' : row.sequence <= reader[d].cursor => row \in reader[d].rows
               /\ reader[d].cursor = 0 \/ \E row \in RowsOf(reader[d].ai)' : row.sequence = reader[d].cursor
    <3>1. /\ \A row \in RowsOf(reader[d].ai) : row.sequence <= reader[d].cursor => row \in reader[d].rows
          /\ reader[d].cursor = 0 \/ \E row \in RowsOf(reader[d].ai) : row.sequence = reader[d].cursor
      BY <2>2 DEF Paging, CursorsHonest
    <3>2. e \in RowsOf(reader[d].ai)' => ~(e.sequence <= reader[d].cursor)
      <4> SUFFICES ASSUME e \in RowsOf(reader[d].ai)' PROVE reader[d].cursor < e.sequence
        BY <1>3, <1>7, <2>2
      <4>1. CASE reader[d].cursor = 0
        BY <1>3, <4>1
      <4>2. CASE \E row \in RowsOf(reader[d].ai) : row.sequence = reader[d].cursor
        BY <1>1, <1>2, <1>5, <4>2
      <4> QED BY <3>1, <4>1, <4>2
    <3>3. \A row \in RowsOf(reader[d].ai)' : row.sequence <= reader[d].cursor => row \in reader[d].rows
      BY <1>2, <1>4, <3>1, <3>2
    <3> QED BY <1>2, <1>4, <3>1, <3>3
  <2> QED BY <2>1, <2>2
<1>10. reader' \in [Readers -> Readings]
  BY <1>2 DEF Paging
<1> QED BY <1>8, <1>9, <1>10

(* Every other step leaves the readers and the records alone.                *)
LEMMA OtherPages ==
  ASSUME Paging, UNCHANGED <<reader, flight>>
  PROVE  reader' \in [Readers -> Readings] /\ CursorsHonest' /\ TimelineComplete'
<1>1. \A b : RowsOf(b)' = RowsOf(b)
  BY DEF RowsOf
<1>2. CursorsHonest'
  BY <1>1 DEF Paging, CursorsHonest
<1>3. TimelineComplete'
  BY <1>1 DEF Paging, TimelineComplete
<1> QED BY <1>2, <1>3 DEF Paging

(* Every step keeps paging complete.                                         *)
LEMMA PagingStep == Inv /\ Paging /\ [Next]_vars => Paging'
<1> SUFFICES ASSUME Inv, Paging, [Next]_vars PROVE Paging'
  OBVIOUS
<1>1. FlightOrdered'
  BY OrderedStep DEF Paging
<1>2. CASE \E c \in Readers : Page(c) \/ \E a \in Ais : StartReading(c, a)
  BY <1>1, <1>2, PageStep, StartStep DEF Paging
<1>3. CASE \E q \in Requests : Commit(q)
  BY <1>1, <1>3, CommitPages DEF Paging
<1>4. CASE UNCHANGED <<reader, flight>>
  BY <1>1, <1>4, OtherPages DEF Paging
<1>5. \/ \E c \in Readers : Page(c) \/ \E a \in Ais : StartReading(c, a)
      \/ \E q \in Requests : Commit(q)
      \/ UNCHANGED <<reader, flight>>
  BY ZenonT(60) DEF Next, vars, recorder, Register, Receive, BindDeclared, Lock, UnknownAi, ReadTail, RejectConfirmation,
         Insert, InsertDuplicate, RecordEvidence, ClaimEvidence, BindEvidence, Fail, Quiet
<1> QED BY <1>2, <1>3, <1>4, <1>5

(* Paging is complete initially.                                             *)
LEMMA PagingInit == Init => Paging
<1> SUFFICES ASSUME Init PROVE Paging
  OBVIOUS
<1>1. FlightOrdered
  <2>1. IsFiniteSet(flight) /\ flight = {}
    BY FS_EmptySet DEF Init
  <2>2. \A q \in Requests : request[q].phase # "inserted"
    BY DEF Init, Unborn
  <2> QED BY <2>1, <2>2 DEF FlightOrdered, RowsOf
<1>2. \A c \in Readers : reader[c] = Resting
  BY DEF Init
<1>3. Resting.ai = None /\ Resting.rows = {} /\ Resting \in Readings
  BY DEF Resting, Readings
<1> QED BY <1>1, <1>2, <1>3 DEF Paging, CursorsHonest, TimelineComplete, Init

(* A client that follows nextCursor while others append, confirm and roll    *)
(* back has every record up to the last one it has seen                      *)
(* (ai.ts:104, server.ts:199-202).                                           *)
THEOREM PagesMissNothing == Spec => []TimelineComplete
<1>1. Init => Paging
  BY PagingInit
<1>2. Inv /\ Paging /\ [Next]_vars => Paging'
  BY PagingStep
<1>3. Paging => TimelineComplete
  BY DEF Paging
<1> QED BY <1>1, <1>2, <1>3, Invariance, PTL DEF Spec

-----------------------------------------------------------------------------
(* Answers                                                                   *)

Refusals == {"400", "404", "409", "422"}
Early == {"none", "bind", "begin", "locked", "read", "inserted"}
Late == {"record", "claim", "bound"}

RecordsOf(q) == {row \in flight : row.event = q}

(* Before its commit, and when it is refused, a request has no record.       *)
Unrecorded(q) == request[q].phase \in Early \cup Refusals => RecordsOf(q) = {}

(* A declaration past its binding is bound.                                  *)
DeclaredBound(q) ==
  request[q].phase \in Early \ {"none", "bind"} /\ ~Confirming(q) => Bound(q, "AI_FLIGHT", In(q).ai)

(* The record of a confirmation, with the alert a contradiction raises.      *)
Confirmed(q) ==
  /\ RecordsOf(q) # {}
  /\ \A row \in RecordsOf(q) :
       /\ row.related # None /\ row.state = ReconciledState(In(q).outcome)
       /\ row.state = "CONFLICTING" => [claim |-> row.related, result |-> q] \in alerts

(* A confirmation whose lineage is being written has the steps before.       *)
LineageSoFar(q) ==
  request[q].phase \in Late =>
    /\ Confirming(q) /\ Confirmed(q)
    /\ request[q].phase # "record" => q \in evidence
    /\ request[q].phase = "bound" => <<q, request[q].domain>> \in claims
    /\ request[q].domain = "INCIDENT" => Lineage(q, "AI_FLIGHT")

(* A created event has what AnswersAreTrue promises.                         *)
Created(q) ==
  request[q].phase = "201" =>
    /\ RecordsOf(q) # {}
    /\ \A row \in RecordsOf(q) :
         IF row.related = None THEN Bound(q, "AI_FLIGHT", row.ai)
         ELSE /\ q \in evidence /\ Lineage(q, "AI_FLIGHT")
              /\ row.state = "CONFLICTING" =>
                   /\ [claim |-> row.related, result |-> q] \in alerts
                   /\ Lineage(q, "INCIDENT")

Truth(q) == Unrecorded(q) /\ DeclaredBound(q) /\ LineageSoFar(q) /\ Created(q)

LedgerTypeOK ==
  /\ alerts \subseteq [claim : Requests, result : Requests]
  /\ evidence \subseteq Requests
  /\ claims \subseteq Requests \X {"AI_FLIGHT", "INCIDENT"}
  /\ bindings \subseteq Requests \X {"AI_FLIGHT", "INCIDENT"} \X (Requests \cup Ais)
  /\ faults \in 0..MaxFaults

Truthful == LedgerTypeOK /\ \A q \in Requests : Truth(q)

(* Rows are only added to the tables.                                        *)
Monotone == alerts \subseteq alerts' /\ evidence \subseteq evidence' /\ claims \subseteq claims' /\ bindings \subseteq bindings'

(* A request that does not move, and gets no record, keeps its truth.        *)
LEMMA Undisturbed ==
  ASSUME NEW r \in Requests, Truth(r), Monotone, request'[r] = request[r], RecordsOf(r)' = RecordsOf(r)
  PROVE  Truth(r)'
<1>1. In(r)' = In(r) /\ Confirming(r)' = Confirming(r)
  BY DEF In, Confirming
<1>2. Unrecorded(r)'
  BY DEF Truth, Unrecorded
<1>3. DeclaredBound(r)'
  BY <1>1 DEF Truth, DeclaredBound, Bound, Monotone
<1>4. Confirmed(r) => Confirmed(r)'
  BY <1>1 DEF Confirmed, Monotone
<1>5. \A domain : Lineage(r, domain) => Lineage(r, domain)'
  BY DEF Lineage, Bound, Monotone
<1>6. LineageSoFar(r)'
  BY <1>1, <1>4, <1>5 DEF Truth, LineageSoFar, Monotone
<1>7. Created(r)'
  BY <1>5 DEF Truth, Created, Bound, Monotone
<1> QED BY <1>2, <1>3, <1>6, <1>7 DEF Truth

(* So a step of one request that adds no record has to answer for itself.    *)
LEMMA Alone ==
  ASSUME \A r \in Requests : Truth(r), NEW q \in Requests, Monotone, flight' = flight,
         \A r \in Requests : r # q => request'[r] = request[r],
         Truth(q)'
  PROVE  \A r \in Requests : Truth(r)'
<1>1. \A r : RecordsOf(r)' = RecordsOf(r)
  BY DEF RecordsOf
<1> QED BY <1>1, Undisturbed

(* The fields after a change of phase or an answer.                          *)
LEMMA ToFields ==
  ASSUME Inv, NEW q \in Requests, NEW p, To(q, p)
  PROVE  /\ request'[q].phase = p /\ request'[q].domain = request[q].domain
         /\ In(q)' = In(q) /\ Confirming(q)' = Confirming(q)
         /\ \A r \in Requests : r # q => request'[r] = request[r]
<1>1. request \in [Requests -> RequestRecords]
  BY DEF Inv, RecorderTypeOK
<1> QED BY <1>1 DEF To, RequestRecords, In, Confirming

(* An answered request keeps nothing but its answer.                         *)
LEMMA AnswerFields ==
  ASSUME Inv, NEW q \in Requests, NEW p, Answer(q, p)
  PROVE  /\ request'[q].phase = p
         /\ \A r \in Requests : r # q => request'[r] = request[r]
<1>1. request \in [Requests -> RequestRecords]
  BY DEF Inv, RecorderTypeOK
<1>2. [Unborn EXCEPT !.phase = p].phase = p
  BY DEF Unborn
<1> QED BY <1>1, <1>2 DEF Answer

(* A failure is answered 500 and promises nothing; a refusal must come       *)
(* before the commit.                                                        *)
LEMMA RefusalTrue ==
  ASSUME Inv, Truthful, NEW q \in Requests, NEW p \in Refusals \cup {"500"}, Answer(q, p),
         p # "500" => request[q].phase \in Early,
         Monotone, flight' = flight
  PROVE  \A r \in Requests : Truth(r)'
<1>1. request'[q].phase = p /\ \A r \in Requests : r # q => request'[r] = request[r]
  BY AnswerFields
<1>2. p \notin Early /\ p \notin Late /\ p # "201"
  BY DEF Refusals, Early, Late
<1>3. p # "500" => RecordsOf(q)' = {}
  BY DEF Truthful, Truth, Unrecorded, RecordsOf
<1>4. "500" \notin Early \cup Refusals
  BY DEF Refusals, Early
<1>5. Truth(q)'
  BY <1>1, <1>2, <1>3, <1>4 DEF Truth, Unrecorded, DeclaredBound, LineageSoFar, Created
<1> QED BY <1>1, <1>5, Alone DEF Truthful

(* A step between two phases before the commit keeps the truth, once a       *)
(* declaration that leaves its binding is bound.                             *)
LEMMA EarlyTrue ==
  ASSUME Inv, Truthful, NEW q \in Requests, request[q].phase \in Early, request'[q].phase \in Early,
         request'[q].phase \notin {"none", "bind"} /\ ~Confirming(q)' => Bound(q, "AI_FLIGHT", In(q).ai)',
         \A r \in Requests : r # q => request'[r] = request[r],
         Monotone, flight' = flight
  PROVE  \A r \in Requests : Truth(r)'
<1>1. RecordsOf(q)' = {}
  BY DEF Truthful, Truth, Unrecorded, RecordsOf
<1>2. request'[q].phase \notin Late /\ request'[q].phase # "201"
  BY DEF Early, Late
<1>3. Truth(q)'
  BY <1>1, <1>2 DEF Truth, Unrecorded, DeclaredBound, LineageSoFar, Created
<1> QED BY <1>3, Alone DEF Truthful

(* The start of a request.                                                   *)
LEMMA ReceiveTrue ==
  ASSUME Inv, Truthful, NEW q \in Requests, NEW input \in Inputs, Receive(q, input)
  PROVE  LedgerTypeOK' /\ \A r \in Requests : Truth(r)'
<1>1. UNCHANGED <<flight, alerts, evidence, claims, bindings, faults>> /\ Monotone
  BY DEF Receive, recorder, kernel, Monotone
<1>2. LedgerTypeOK'
  BY <1>1 DEF Truthful, LedgerTypeOK
<1>3. request[q].phase = "none" /\ request[q].phase \in Early
  BY DEF Receive, Early
<1>4. CASE Answer(q, "400")
  BY <1>1, <1>2, <1>3, <1>4, RefusalTrue DEF Refusals
<1>5. CASE request' = [request EXCEPT ![q].input = input,
                            ![q].phase = IF input.kind = "declaration" THEN "bind" ELSE "begin"]
  <2>1. request[q] \in RequestRecords /\ request \in [Requests -> RequestRecords]
    BY DEF Inv, RecorderTypeOK
  <2>2. /\ request'[q].phase = IF input.kind = "declaration" THEN "bind" ELSE "begin"
        /\ request'[q].input = input
        /\ \A r \in Requests : r # q => request'[r] = request[r]
    BY <1>5, <2>1 DEF RequestRecords
  <2>3. input.kind \in {"declaration", "confirmation"}
    BY DEF Inputs, Declarations, Confirmations
  <2>4. request'[q].phase \in Early /\ (request'[q].phase \notin {"none", "bind"} => Confirming(q)')
    BY <2>2, <2>3 DEF Early, Confirming, In
  <2> QED BY <1>1, <1>2, <1>3, <2>2, <2>4, EarlyTrue
<1> QED BY <1>4, <1>5 DEF Receive

(* Evidence is bound before the event is appended.                           *)
LEMMA BindDeclaredTrue ==
  ASSUME Inv, Truthful, NEW q \in Requests, NEW known \in BOOLEAN, NEW matches \in BOOLEAN,
         BindDeclared(q, known, matches)
  PROVE  LedgerTypeOK' /\ \A r \in Requests : Truth(r)'
<1>1. UNCHANGED <<flight, alerts, evidence, claims, faults>>
  BY DEF BindDeclared, recorder
<1>2. request[q].phase = "bind" /\ request[q].phase \in Early /\ In(q).ai \in Ais
  BY AtWork DEF BindDeclared, Early, Answers
<1>3. bindings' = bindings \/ bindings' = bindings \cup {<<q, "AI_FLIGHT", In(q).ai>>}
  BY DEF BindDeclared
<1>4. LedgerTypeOK' /\ Monotone
  BY <1>1, <1>2, <1>3 DEF Truthful, LedgerTypeOK, Monotone
<1>5. CASE Answer(q, "400")
  BY <1>1, <1>2, <1>4, <1>5, RefusalTrue DEF Refusals
<1>6. CASE known /\ matches /\ To(q, "begin")
  <2>1. Bound(q, "AI_FLIGHT", In(q).ai)'
    BY <1>6, ToFields DEF BindDeclared, Bound
  <2>2. request'[q].phase \in Early /\ \A r \in Requests : r # q => request'[r] = request[r]
    BY <1>6, ToFields DEF Early
  <2> QED BY <1>1, <1>2, <1>4, <2>1, <2>2, EarlyTrue
<1> QED BY <1>5, <1>6 DEF BindDeclared

(* The transaction up to its commit.                                         *)
LEMMA WritingTrue ==
  ASSUME Inv, Truthful, NEW q \in Requests,
         Lock(q) \/ Insert(q) \/ \E claim \in Requests \cup {None} : ReadTail(q, claim)
  PROVE  LedgerTypeOK' /\ \A r \in Requests : Truth(r)'
<1>1. UNCHANGED <<flight, alerts, evidence, claims, bindings, faults>> /\ Monotone
  BY DEF Lock, Insert, ReadTail, recorder, kernel, Monotone
<1>2. LedgerTypeOK'
  BY <1>1 DEF Truthful, LedgerTypeOK
<1>3. request[q] \in RequestRecords /\ request \in [Requests -> RequestRecords]
  BY DEF Inv, RecorderTypeOK
<1>4. request[q].phase \in Early \ {"none", "bind"}
  BY DEF Lock, Insert, ReadTail, Early
<1>5. /\ request'[q].phase \in Early /\ request'[q].input = request[q].input
      /\ \A r \in Requests : r # q => request'[r] = request[r]
  <2>1. CASE Lock(q)
    BY <1>3, <2>1 DEF Lock, To, Early, RequestRecords
  <2>2. CASE Insert(q)
    BY <1>3, <2>2 DEF Insert, Early, RequestRecords
  <2>3. CASE \E claim \in Requests \cup {None} : ReadTail(q, claim)
    <3>1. PICK claim, tail :
            request' = [request EXCEPT ![q].phase = "read", ![q].claim = claim, ![q].tail = tail]
      BY <2>3 DEF ReadTail
    <3> QED BY <1>3, <3>1 DEF Early, RequestRecords
  <2> QED BY <2>1, <2>2, <2>3
<1>6. ~Confirming(q)' => Bound(q, "AI_FLIGHT", In(q).ai)'
  BY <1>1, <1>4, <1>5 DEF Truthful, Truth, DeclaredBound, Bound, Confirming, In
<1> QED BY <1>1, <1>2, <1>4, <1>5, <1>6, EarlyTrue

(* Refusals and failures.                                                    *)
LEMMA RefusalsTrue ==
  ASSUME Inv, Truthful, NEW q \in Requests,
         \/ UnknownAi(q) \/ InsertDuplicate(q) \/ Fail(q)
         \/ \E answer \in {"404", "422"} : RejectConfirmation(q, answer)
  PROVE  LedgerTypeOK' /\ \A r \in Requests : Truth(r)'
<1>1. UNCHANGED <<flight, alerts, evidence, claims, bindings>> /\ Monotone
  BY DEF UnknownAi, InsertDuplicate, Fail, RejectConfirmation, recorder, kernel, Monotone
<1>2. faults' \in 0..MaxFaults
  BY ConstantsOK DEF UnknownAi, InsertDuplicate, Fail, RejectConfirmation, Truthful, LedgerTypeOK
<1>3. LedgerTypeOK'
  BY <1>1, <1>2 DEF Truthful, LedgerTypeOK
<1>4. \E p \in Refusals \cup {"500"} : Answer(q, p) /\ (p # "500" => request[q].phase \in Early)
  BY DEF UnknownAi, InsertDuplicate, Fail, RejectConfirmation, Abandon, Refusals, Early
<1> QED BY <1>1, <1>3, <1>4, RefusalTrue

(* A commit adds the one record of its request: a declaration's is bound, a  *)
(* confirmation's names its action and raises the alert it should.           *)
LEMMA CommitTrue ==
  ASSUME Inv, Truthful, NEW q \in Requests, Commit(q)
  PROVE  LedgerTypeOK' /\ \A r \in Requests : Truth(r)'
<1>1. /\ UNCHANGED <<evidence, claims, bindings, faults>>
      /\ request[q].phase = "inserted"
  BY DEF Commit, kernel
<1>2. In(q) \in Inputs /\ In(q).ai \in Ais
  BY <1>1, AtWork DEF Answers
<1>3. PICK e \in Rows : /\ e = EventOf(q) /\ flight' = flight \cup {e}
  BY CommitAdds
<1>4. /\ e.event = q /\ e.ai = In(q).ai /\ e.related = request[q].claim
      /\ Confirming(q) => e.state = ReconciledState(In(q).outcome)
  BY <1>3 DEF EventOf
<1>5. \A r : r # q => RecordsOf(r)' = RecordsOf(r)
  BY <1>3, <1>4 DEF RecordsOf
<1>6. RecordsOf(q)' = {e}
  <2>1. RecordsOf(q) = {}
    BY <1>1 DEF Truthful, Truth, Unrecorded, Early
  <2> QED BY <2>1, <1>3, <1>4 DEF RecordsOf
<1>7. IF Confirming(q) THEN request[q].claim \in Requests ELSE request[q].claim = None
  <2>1. IF Confirming(q) THEN ClaimIn(In(q).ai, request[q].claim) ELSE request[q].claim = None
    BY <1>1 DEF Inv, ClaimsHeld
  <2>2. \A row \in flight : row.event \in Requests
    BY DEF Inv, RecorderTypeOK, Rows
  <2> QED BY <2>1, <2>2 DEF ClaimIn, RowsOf
<1>8. alerts \subseteq alerts' /\ alerts' \subseteq [claim : Requests, result : Requests]
  <2>1. alerts' = alerts \/ (Confirming(q) /\ alerts' = alerts \cup {[claim |-> request[q].claim, result |-> q]})
    BY DEF Commit
  <2> QED BY <1>7, <2>1 DEF Truthful, LedgerTypeOK
<1>9. LedgerTypeOK' /\ Monotone
  BY <1>1, <1>8 DEF Truthful, LedgerTypeOK, Monotone
<1>10. ASSUME Confirming(q) PROVE Truth(q)'
  <2>1. request' = [request EXCEPT ![q] = [Unborn EXCEPT !.input = In(q), !.phase = "record"]]
    BY <1>10 DEF Commit
  <2> DEFINE x == [Unborn EXCEPT !.input = In(q), !.phase = "record"]
  <2>2. x.phase = "record" /\ x.domain = "AI_FLIGHT" /\ x.input = In(q)
    BY DEF Unborn
  <2>3. request'[q].phase = "record" /\ request'[q].domain = "AI_FLIGHT" /\ request'[q].input = In(q)
    BY <2>1, <2>2 DEF Inv, RecorderTypeOK
  <2> HIDE DEF x
  <2>4. In(q)' = In(q) /\ Confirming(q)' /\ Confirming(q)' = Confirming(q)
    BY <1>10, <2>3 DEF In, Confirming
  <2>5. e.related # None /\ e.related = request[q].claim
    BY <1>4, <1>7, <1>10, ConstantsOK
  <2>6. In(q).outcome \in Outcomes
    BY <1>2, <1>10, ConfirmationExternal DEF Confirming
  <2>7. e.state = "CONFLICTING" => Contradicts(q)
    BY <1>4, <1>10, <2>6 DEF ReconciledState, Contradicts, Outcomes
  <2>8. e.state = "CONFLICTING" => [claim |-> e.related, result |-> q] \in alerts'
    BY <1>10, <2>5, <2>7 DEF Commit
  <2>9. Confirmed(q)'
    BY <1>4, <1>6, <1>10, <2>4, <2>5, <2>8 DEF Confirmed, ReconciledState
  <2>10. LineageSoFar(q)'
    BY <2>3, <2>4, <2>9 DEF LineageSoFar
  <2> QED BY <2>3, <2>10 DEF Truth, Unrecorded, DeclaredBound, Created, Early, Refusals
<1>11. ASSUME ~Confirming(q) PROVE Truth(q)'
  <2>1. Answer(q, "201")
    BY <1>11 DEF Commit
  <2>2. request'[q].phase = "201"
    BY <2>1, AnswerFields
  <2>3. e.related = None
    BY <1>4, <1>7, <1>11
  <2>4. Bound(q, "AI_FLIGHT", e.ai)
    BY <1>1, <1>4, <1>11 DEF Truthful, Truth, DeclaredBound, Early
  <2>5. Bound(q, "AI_FLIGHT", e.ai)'
    BY <1>1, <2>4 DEF Bound
  <2>6. Created(q)'
    BY <1>6, <2>3, <2>5 DEF Created, Bound
  <2> QED BY <2>2, <2>6 DEF Truth, Unrecorded, DeclaredBound, LineageSoFar, Early, Late, Refusals
<1>12. \A r \in Requests : r # q => request'[r] = request[r]
  BY DEF Commit, Answer, Inv, RecorderTypeOK
<1>13. \A r \in Requests : r # q => Truth(r)'
  BY <1>5, <1>9, <1>12, Undisturbed DEF Truthful
<1> QED BY <1>9, <1>10, <1>11, <1>13

(* The lineage of a committed confirmation, step by step.                    *)
LEMMA LineageTrue ==
  ASSUME Inv, Truthful, NEW q \in Requests,
         \/ \E ahead \in BOOLEAN : RecordEvidence(q, ahead)
         \/ \E age \in {0, 2} : ClaimEvidence(q, age)
         \/ BindEvidence(q)
  PROVE  LedgerTypeOK' /\ \A r \in Requests : Truth(r)'
<1>1. UNCHANGED <<flight, alerts, faults>>
  BY DEF RecordEvidence, ClaimEvidence, BindEvidence, recorder
<1>2. request[q].phase \in Late
  BY DEF RecordEvidence, ClaimEvidence, BindEvidence, Late
<1>3. request[q].domain \in {"AI_FLIGHT", "INCIDENT"} /\ request[q] \in RequestRecords
  BY DEF Inv, RecorderTypeOK, RequestRecords
<1>4. /\ evidence' = evidence \/ evidence' = evidence \cup {q}
      /\ claims' = claims \/ claims' = claims \cup {<<q, request[q].domain>>}
      /\ bindings' = bindings \/ bindings' = bindings \cup {<<q, request[q].domain, q>>}
  BY DEF RecordEvidence, ClaimEvidence, BindEvidence
<1>5. LedgerTypeOK' /\ Monotone
  BY <1>1, <1>3, <1>4 DEF Truthful, LedgerTypeOK, Monotone
<1>6. /\ Confirming(q) /\ Confirmed(q)
      /\ request[q].phase # "record" => q \in evidence
      /\ request[q].phase = "bound" => <<q, request[q].domain>> \in claims
      /\ request[q].domain = "INCIDENT" => Lineage(q, "AI_FLIGHT")
  BY <1>2 DEF Truthful, Truth, LineageSoFar
<1>7. RecordsOf(q)' = RecordsOf(q)
  BY <1>1 DEF RecordsOf
<1>8. \A domain : Lineage(q, domain) => Lineage(q, domain)'
  BY <1>5 DEF Lineage, Bound, Monotone
<1>9. CASE Answer(q, "500")
  BY <1>1, <1>5, <1>9, RefusalTrue
<1>10. ASSUME \/ To(q, "claim") /\ evidence' = evidence \cup {q}
              \/ To(q, "bound") /\ claims' = claims \cup {<<q, request[q].domain>>} /\ request[q].phase = "claim"
       PROVE  \A r \in Requests : Truth(r)'
  <2>1. /\ request'[q].phase \in {"claim", "bound"} /\ request'[q].domain = request[q].domain
        /\ In(q)' = In(q) /\ Confirming(q)' = Confirming(q)
        /\ \A r \in Requests : r # q => request'[r] = request[r]
        /\ request'[q].phase = "bound" => To(q, "bound")
    BY <1>10, ToFields
  <2>2. Confirmed(q)'
    BY <1>1, <1>6, <1>7, <2>1 DEF Confirmed
  <2>3. q \in evidence'
    BY <1>5, <1>6, <1>10 DEF Monotone
  <2>4. request'[q].phase = "bound" => <<q, request'[q].domain>> \in claims'
    <3>1. ASSUME To(q, "claim") PROVE request'[q].phase = "claim"
      BY <3>1, ToFields
    <3> QED BY <1>10, <2>1, <3>1
  <2>5. LineageSoFar(q)'
    BY <1>6, <1>8, <2>1, <2>2, <2>3, <2>4 DEF LineageSoFar
  <2>6. Truth(q)'
    BY <2>1, <2>5 DEF Truth, Unrecorded, DeclaredBound, Created, Early, Refusals
  <2> QED BY <1>1, <1>5, <2>1, <2>6, Alone DEF Truthful
<1>11. ASSUME BindEvidence(q) PROVE \A r \in Requests : Truth(r)'
  <2>1. /\ request[q].phase = "bound" /\ bindings' = bindings \cup {<<q, request[q].domain, q>>}
        /\ UNCHANGED <<evidence, claims>>
    BY <1>11 DEF BindEvidence
  <2>2. ASSUME NEW domain, domain = request[q].domain PROVE Lineage(q, domain)'
    BY <1>6, <2>1, <2>2 DEF Lineage, Bound
  <2>3. CASE IncidentFollows(q)
    <3>1. request' = [request EXCEPT ![q].phase = "claim", ![q].domain = "INCIDENT"]
      BY <1>11, <2>3 DEF BindEvidence
    <3>2. /\ request'[q].phase = "claim" /\ request'[q].domain = "INCIDENT" /\ request'[q].input = In(q)
          /\ \A r \in Requests : r # q => request'[r] = request[r]
      BY <1>3, <3>1 DEF RequestRecords, In, Inv, RecorderTypeOK
    <3>3. In(q)' = In(q) /\ Confirming(q)' = Confirming(q)
      BY <3>2 DEF In, Confirming
    <3>4. Confirmed(q)'
      BY <1>1, <1>6, <1>7, <3>3 DEF Confirmed
    <3>5. Lineage(q, "AI_FLIGHT")'
      BY <2>1, <1>6, <2>3 DEF IncidentFollows, Lineage, Bound
    <3>6. LineageSoFar(q)'
      BY <1>6, <2>1, <3>2, <3>3, <3>4, <3>5 DEF LineageSoFar
    <3>7. Truth(q)'
      BY <3>2, <3>6 DEF Truth, Unrecorded, DeclaredBound, Created, Early, Refusals
    <3> QED BY <1>1, <1>5, <3>2, <3>7, Alone DEF Truthful
  <2>4. CASE ~IncidentFollows(q)
    <3>1. Answer(q, "201")
      BY <1>11, <2>4 DEF BindEvidence
    <3>2. request'[q].phase = "201" /\ \A r \in Requests : r # q => request'[r] = request[r]
      BY <3>1, AnswerFields
    <3>3. In(q).outcome \in Outcomes
      <4>1. In(q) \in Inputs
        BY <1>2, AtWork DEF Late, Answers
      <4> QED BY <1>6, <4>1, ConfirmationExternal DEF Confirming
    <3>4. Lineage(q, "AI_FLIGHT")'
      BY <1>3, <1>6, <1>8, <2>2, <2>1 DEF Lineage, Bound
    <3>5. ReconciledState(In(q).outcome) = "CONFLICTING" => Lineage(q, "INCIDENT")'
      <4> SUFFICES ASSUME ReconciledState(In(q).outcome) = "CONFLICTING" PROVE Lineage(q, "INCIDENT")'
        OBVIOUS
      <4>1. Contradicts(q)
        BY <3>3 DEF ReconciledState, Contradicts, Outcomes
      <4>2. request[q].domain = "INCIDENT"
        BY <1>3, <2>4, <4>1 DEF IncidentFollows
      <4> QED BY <2>1, <1>6, <4>2 DEF Lineage, Bound
    <3>6. Created(q)'
      BY <1>1, <1>6, <1>7, <2>1, <3>4, <3>5 DEF Created, Confirmed
    <3>7. Truth(q)'
      BY <3>2, <3>6 DEF Truth, Unrecorded, DeclaredBound, LineageSoFar, Early, Late, Refusals
    <3> QED BY <1>1, <1>5, <3>2, <3>7, Alone DEF Truthful
  <2> QED BY <2>3, <2>4
<1>12. \/ Answer(q, "500")
       \/ To(q, "claim") /\ evidence' = evidence \cup {q}
       \/ To(q, "bound") /\ claims' = claims \cup {<<q, request[q].domain>>} /\ request[q].phase = "claim"
       \/ BindEvidence(q)
  BY DEF RecordEvidence, ClaimEvidence
<1> QED BY <1>5, <1>9, <1>10, <1>11, <1>12

(* Steps of the registry and the readers.                                    *)
LEMMA ElsewhereTrue ==
  ASSUME Truthful, UNCHANGED <<flight, alerts, kernel, request, faults>>
  PROVE  LedgerTypeOK' /\ \A r \in Requests : Truth(r)'
<1>1. UNCHANGED <<evidence, claims, bindings>> /\ Monotone
  BY DEF kernel, Monotone
<1>2. LedgerTypeOK'
  BY <1>1 DEF Truthful, LedgerTypeOK
<1>3. \A r : RecordsOf(r)' = RecordsOf(r)
  BY DEF RecordsOf
<1> QED BY <1>1, <1>2, <1>3, Undisturbed DEF Truthful

(* Every step keeps the answers true.                                        *)
LEMMA TruthStep == Inv /\ Truthful /\ [Next]_vars => Truthful'
<1> SUFFICES ASSUME Inv, Truthful, [Next]_vars PROVE LedgerTypeOK' /\ \A r \in Requests : Truth(r)'
  BY DEF Truthful
<1>1. CASE UNCHANGED <<flight, alerts, kernel, request, faults>>
  BY <1>1, ElsewhereTrue
<1>2. \/ UNCHANGED <<flight, alerts, kernel, request, faults>>
      \/ \E q \in Requests : \E input \in Inputs : Receive(q, input)
      \/ \E q \in Requests : \E known, matches \in BOOLEAN : BindDeclared(q, known, matches)
      \/ \E q \in Requests : Lock(q) \/ Insert(q) \/ \E claim \in Requests \cup {None} : ReadTail(q, claim)
      \/ \E q \in Requests : Commit(q)
      \/ \E q \in Requests : \/ UnknownAi(q) \/ InsertDuplicate(q) \/ Fail(q)
                             \/ \E answer \in {"404", "422"} : RejectConfirmation(q, answer)
      \/ \E q \in Requests : \/ \E ahead \in BOOLEAN : RecordEvidence(q, ahead)
                             \/ \E age \in {0, 2} : ClaimEvidence(q, age)
                             \/ BindEvidence(q)
  BY DEF Next, vars, recorder, Register, Page, StartReading, Quiet
<1> QED BY <1>1, <1>2, ReceiveTrue, BindDeclaredTrue, WritingTrue, CommitTrue, RefusalsTrue, LineageTrue

(* No request has been answered initially.                                   *)
LEMMA TruthInit == Init => Truthful
<1> SUFFICES ASSUME Init PROVE Truthful
  OBVIOUS
<1>1. \A q \in Requests : request[q].phase = "none"
  BY DEF Init, Unborn
<1>2. flight = {} /\ \A q : RecordsOf(q) = {}
  BY DEF Init, RecordsOf
<1>3. LedgerTypeOK
  BY ConstantsOK DEF Init, LedgerTypeOK
<1> QED BY <1>1, <1>2, <1>3 DEF Truthful, Truth, Unrecorded, DeclaredBound, LineageSoFar, Created, Late

(* 201 means that the event is in the chain with its lineage, alert and      *)
(* incident; a refusal means that nothing was recorded                       *)
(* (server.ts:187-192,241-247).                                              *)
THEOREM AnswersTrue == Spec => []AnswersAreTrue
<1>1. Init => Truthful
  BY TruthInit
<1>2. Inv /\ Truthful /\ [Next]_vars => Truthful'
  BY TruthStep
<1>3. Truthful => AnswersAreTrue
  BY DEF Truthful, Truth, Unrecorded, Created, AnswersAreTrue, RecordsOf, Refusals
<1> QED BY <1>1, <1>2, <1>3, Invariance, PTL DEF Spec

(* Every table, transaction local and cursor keeps its type.                 *)
THEOREM TypeCorrect == Spec => []TypeOK
<1>1. Init => Truthful /\ Paging
  BY TruthInit, PagingInit
<1>2. Inv /\ Truthful /\ [Next]_vars => Truthful'
  BY TruthStep
<1>3. Inv /\ Paging /\ [Next]_vars => Paging'
  BY PagingStep
<1>4. Inv /\ Truthful /\ Paging => TypeOK
  BY DEF Inv, Truthful, LedgerTypeOK, Paging, Readings, TypeOK
<1> QED BY <1>1, <1>2, <1>3, <1>4, Invariance, PTL DEF Spec
=============================================================================
