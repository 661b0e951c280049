--------------------------- MODULE ScannerProofs ---------------------------
(***************************************************************************)
(* For any number of uploads, any files, signatures and failures: the scan   *)
(* keeps its types and implements ScanService.                               *)
(*                                                                           *)
(* The inductive invariant adds one fact to the types: once a handler awaits *)
(* the replies, the ones its sessions hold are true of the file of its own   *)
(* upload.  An early reply need not be, but its session is closed to the     *)
(* terminator, which its handler must write before it awaits.  Verdicts are  *)
(* drawn from awaited replies only, and answers reach only requests not      *)
(* answered before.                                                          *)
(***************************************************************************)
EXTENDS Scanner, TLAPS

Places == {"idle", "checking", "connecting", "reading", "writing", "draining", "hung", "awaiting"}
Told == {"REFUSED", "PASSED", "MALWARE", "UNAVAILABLE"}

RepliesTrue ==
  \A u \in Uploads : handler[u].at = "awaiting" =>
    \A s \in Shards :
      /\ session[u][s] = "OK" => ~FoundBy(s, file[u])
      /\ session[u][s] = "FOUND" => FoundBy(s, file[u])

(* Nobody starts to await but with all sessions open.                        *)
NoneAwaitsSooner ==
  \A u \in Uploads : handler'[u].at = "awaiting" =>
    handler[u].at = "awaiting" \/ \A s \in Shards : session[u][s] = "open"

IInv == TypeOK /\ RepliesTrue

-----------------------------------------------------------------------------
(* Moving a handler keeps its type.                                          *)
LEMMA HandlerUpdate ==
  ASSUME NEW h \in Handler
  PROVE  /\ \A at \in Places : [h EXCEPT !.at = at] \in Handler
         /\ \A at \in Places, s \in Shards : [h EXCEPT !.at = at, !.shard = s] \in Handler
  BY DEF Handler, Places

LEMMA IdleTypes == Idle \in Handler /\ Closed \in [Shards -> {"closed", "opening", "open"} \cup Replies]
  BY ConstantsOK DEF Idle, Closed, Handler, Shards

LEMMA GotoType ==
  ASSUME handler \in [Uploads -> Handler], NEW u \in Uploads, NEW at \in Places, Goto(u, at)
  PROVE  /\ handler' \in [Uploads -> Handler]
         /\ handler'[u].at = at
         /\ \A v \in Uploads : v # u => handler'[v] = handler[v]
<1>1. handler[u] \in Handler /\ [handler[u] EXCEPT !.at = at] \in Handler
  BY HandlerUpdate
<1>2. [handler[u] EXCEPT !.at = at].at = at
  BY <1>1 DEF Handler
<1>. QED
  BY <1>1, <1>2 DEF Goto

(* An answer keeps the types, and changes only outcomes not told before.     *)
LEMMA AnswerChanges ==
  ASSUME TypeOK, NEW S \in SUBSET Uploads, NEW o \in Told, Answer(S, o)
  PROVE  /\ request' \in [Uploads -> {"new", "ready", "posted", "answered"}]
         /\ outcome' \in [Uploads -> {"NONE", "REFUSED", "PASSED", "MALWARE", "UNAVAILABLE"}]
         /\ \A u \in Uploads : (outcome'[u] = "NONE") <=> (request'[u] # "answered")
         /\ \A u \in Uploads : outcome'[u] # outcome[u] =>
              u \in S /\ outcome[u] = "NONE" /\ outcome'[u] = o
<1> DEFINE heard == {u \in S : request[u] = "posted"}
<1>1. /\ request' = [u \in Uploads |-> IF u \in heard THEN "answered" ELSE request[u]]
      /\ outcome' = [u \in Uploads |-> IF u \in heard THEN o ELSE outcome[u]]
  BY DEF Answer
<1>2. \A u \in Uploads : u \in heard => outcome[u] = "NONE"
  BY DEF TypeOK
<1>3. \A u \in Uploads : u \in heard => u \in S
  OBVIOUS
<1> HIDE DEF heard
<1>. QED
  BY <1>1, <1>2, <1>3 DEF TypeOK, Told

(* So does a handler's end, and the sessions it closes hold no reply.        *)
LEMMA FinishKeeps ==
  ASSUME IInv, NEW u \in Uploads, NEW o \in Told, Finish(u, o)
  PROVE  IInv'
<1>1. file' = file /\ Answer({u}, o)
  BY DEF Finish
<1>2. /\ handler' = [handler EXCEPT ![u] = Idle]
      /\ session' = [session EXCEPT ![u] = Closed]
  BY DEF Finish
<1>3. TypeOK'
  BY <1>1, <1>2, AnswerChanges, IdleTypes DEF IInv, TypeOK
<1>4. RepliesTrue'
  BY <1>1, <1>2 DEF IInv, TypeOK, RepliesTrue, FoundBy, Idle
<1>. QED
  BY <1>3, <1>4 DEF IInv

(* The death of the adapter closes every session.                            *)
LEMMA DeathKeeps ==
  ASSUME IInv, AdapterDies
  PROVE  IInv'
<1>1. file' = file /\ Answer(Uploads, "UNAVAILABLE")
  BY DEF AdapterDies
<1>2. /\ handler' = [u \in Uploads |-> Idle]
      /\ session' = [u \in Uploads |-> Closed]
  BY DEF AdapterDies
<1>3. TypeOK'
  BY <1>1, <1>2, AnswerChanges, IdleTypes DEF IInv, TypeOK, Told
<1>4. RepliesTrue'
  BY <1>2 DEF RepliesTrue, Idle
<1>. QED
  BY <1>3, <1>4 DEF IInv

(* A step of one handler that answers nobody keeps the invariant when it     *)
(* keeps the types and the truth of the replies.                             *)
LEMMA SilentKeeps ==
  ASSUME IInv, UNCHANGED <<file, request, outcome>>,
         handler' \in [Uploads -> Handler],
         session' \in [Uploads -> [Shards -> {"closed", "opening", "open"} \cup Replies]],
         RepliesTrue'
  PROVE  IInv'
<1>1. TypeOK'
  BY DEF IInv, TypeOK
<1>. QED
  BY <1>1 DEF IInv

(* One session moves, to a true reply if it is awaited.                      *)
LEMMA SessionMoves ==
  ASSUME IInv, UNCHANGED <<file, request, outcome>>, handler' \in [Uploads -> Handler],
         \A v \in Uploads : handler'[v].at = "awaiting" => handler[v].at = "awaiting",
         NEW u \in Uploads, NEW s \in Shards,
         NEW r \in {"closed", "opening", "open"} \cup Replies,
         session' = [session EXCEPT ![u][s] = r],
         handler[u].at = "awaiting" => /\ r = "OK" => ~FoundBy(s, file[u])
                                       /\ r = "FOUND" => FoundBy(s, file[u])
  PROVE  IInv'
<1>1. session' \in [Uploads -> [Shards -> {"closed", "opening", "open"} \cup Replies]]
  BY DEF IInv, TypeOK
<1>2. \A v \in Uploads, t \in Shards :
        session'[v][t] # session[v][t] => v = u /\ t = s /\ session'[v][t] = r
  BY DEF IInv, TypeOK
<1>3. RepliesTrue'
  BY <1>2 DEF IInv, RepliesTrue, FoundBy
<1>. QED
  BY <1>1, <1>3, SilentKeeps

LEMMA HandlerMoves ==
  ASSUME IInv, UNCHANGED <<file, request, outcome, session>>, handler' \in [Uploads -> Handler],
         NoneAwaitsSooner
  PROVE  IInv'
<1>1. RepliesTrue'
  BY DEF IInv, RepliesTrue, NoneAwaitsSooner, FoundBy
<1>. QED
  BY <1>1, SilentKeeps DEF IInv, TypeOK

LEMMA AdvanceType ==
  ASSUME IInv, NEW u \in Uploads, Advance(u)
  PROVE  handler' \in [Uploads -> Handler] /\ NoneAwaitsSooner
<1> DEFINE h == handler[u]
<1>1. h \in Handler
  BY DEF IInv, TypeOK
<1>2. 1 \in Shards /\ (h.shard < NumShards => h.shard + 1 \in Shards)
  BY <1>1, ConstantsOK DEF Handler, Shards
<1>3. /\ [h EXCEPT !.at = "reading", !.shard = 1] \in Handler
      /\ h.shard < NumShards => [h EXCEPT !.at = "writing", !.shard = h.shard + 1] \in Handler
  BY <1>1, <1>2, HandlerUpdate DEF Places
<1>4. handler' = [handler EXCEPT ![u] = IF h.shard < NumShards
                                        THEN [h EXCEPT !.at = "writing", !.shard = h.shard + 1]
                                        ELSE [h EXCEPT !.at = "reading", !.shard = 1]]
  BY DEF Advance
<1>5. (IF h.shard < NumShards THEN [h EXCEPT !.at = "writing", !.shard = h.shard + 1]
                              ELSE [h EXCEPT !.at = "reading", !.shard = 1]) \in {g \in Handler : g.at # "awaiting"}
  BY <1>1, <1>3 DEF Handler
<1> HIDE DEF h
<1>. QED
  BY <1>4, <1>5 DEF IInv, TypeOK, NoneAwaitsSooner

-----------------------------------------------------------------------------
(* The replies of all shards together give a true verdict.                   *)
LEMMA VerdictTrue ==
  ASSUME IInv, NEW u \in Uploads, handler[u].at = "awaiting"
  PROVE  LET v == Verdict({session[u][s] : s \in Shards})
         IN v \in Told /\ Promise!Justified(u, v)
<1> DEFINE replies == {session[u][s] : s \in Shards}
<1>1. "FOUND" \in replies => ~Clean(file[u])
  BY DEF IInv, RepliesTrue, Clean
<1>2. replies = {"OK"} => Clean(file[u])
  <2> SUFFICES ASSUME replies = {"OK"}, NEW s \in Shards PROVE ~FoundBy(s, file[u])
    BY DEF Clean
  <2>1. session[u][s] = "OK"
    OBVIOUS
  <2>. QED
    BY <2>1 DEF IInv, RepliesTrue
<1> HIDE DEF replies
<1>3. Verdict(replies) \in Told /\ Promise!Justified(u, Verdict(replies))
  BY <1>1, <1>2 DEF Verdict, Told, Promise!Justified
<1>. QED
  BY <1>3 DEF replies

-----------------------------------------------------------------------------
LEMMA Initially == Init => IInv
  BY IdleTypes DEF Init, IInv, TypeOK, RepliesTrue, Idle

LEMMA Inductive == IInv /\ [Next]_vars => IInv'
<1> SUFFICES ASSUME IInv, [Next]_vars PROVE IInv'
  OBVIOUS
<1> USE DEF Places
<1>1. CASE UNCHANGED vars
  BY <1>1, HandlerMoves DEF vars, IInv, TypeOK, NoneAwaitsSooner
<1>2. ASSUME NEW u \in Uploads, Probe(u) PROVE IInv'
  <2>1. TypeOK'
    BY <1>2 DEF Probe, IInv, TypeOK
  <2>2. RepliesTrue'
    BY <1>2 DEF Probe, IInv, RepliesTrue, FoundBy
  <2>. QED
    BY <2>1, <2>2 DEF IInv
<1>3. ASSUME NEW u \in Uploads, Post(u) PROVE IInv'
  <2>1. handler' \in [Uploads -> Handler]
    <3>1. \/ handler' = [handler EXCEPT ![u].at = "checking"]
          \/ handler' = handler
      BY <1>3 DEF Post
    <3>2. [handler[u] EXCEPT !.at = "checking"] \in Handler
      BY HandlerUpdate DEF IInv, TypeOK
    <3>. QED
      BY <3>1, <3>2 DEF IInv, TypeOK
  <2>2. /\ request' \in [Uploads -> {"new", "ready", "posted", "answered"}]
        /\ outcome' \in [Uploads -> {"NONE", "REFUSED", "PASSED", "MALWARE", "UNAVAILABLE"}]
        /\ \A v \in Uploads : (outcome'[v] = "NONE") <=> (request'[v] # "answered")
    BY <1>3 DEF Post, IInv, TypeOK
  <2>3. file' = file /\ session' = session
    BY <1>3 DEF Post
  <2>4. TypeOK'
    BY <2>1, <2>2, <2>3 DEF IInv, TypeOK
  <2>5. \A v \in Uploads : handler'[v].at = "awaiting" => handler[v].at = "awaiting"
    <3>1. [handler[u] EXCEPT !.at = "checking"].at = "checking"
      BY DEF IInv, TypeOK, Handler
    <3>. QED
      BY <1>3, <3>1 DEF Post, IInv, TypeOK
  <2>6. RepliesTrue'
    BY <2>3, <2>5 DEF IInv, RepliesTrue, FoundBy
  <2>. QED
    BY <2>4, <2>6 DEF IInv
<1>4. ASSUME NEW u \in Uploads, GiveUp(u) PROVE IInv'
  <2>1. Answer({u}, "UNAVAILABLE") /\ UNCHANGED <<file, handler, session>>
    BY <1>4 DEF GiveUp
  <2>2. TypeOK'
    BY <2>1, AnswerChanges DEF IInv, TypeOK, Told
  <2>3. RepliesTrue'
    BY <2>1 DEF IInv, RepliesTrue, FoundBy
  <2>. QED
    BY <2>2, <2>3 DEF IInv
<1>5. ASSUME NEW u \in Uploads, Check(u) PROVE IInv'
  <2>1. CASE Finish(u, "UNAVAILABLE")
    BY <2>1, FinishKeeps DEF Told
  <2>2. CASE /\ Goto(u, "connecting")
             /\ session' = [session EXCEPT ![u] = [s \in Shards |-> "opening"]]
             /\ UNCHANGED <<file, request, outcome>>
    <3>1. /\ handler' \in [Uploads -> Handler]
          /\ \A v \in Uploads : handler'[v].at = "awaiting" => v # u /\ handler'[v] = handler[v]
      BY <2>2, GotoType DEF IInv, TypeOK
    <3>2. session' \in [Uploads -> [Shards -> {"closed", "opening", "open"} \cup Replies]]
      BY <2>2 DEF IInv, TypeOK
    <3>3. \A v \in Uploads : v # u => session'[v] = session[v]
      BY <2>2 DEF IInv, TypeOK
    <3>4. RepliesTrue'
      BY <2>2, <3>1, <3>3 DEF IInv, RepliesTrue, FoundBy
    <3>. QED
      BY <2>2, <3>1, <3>2, <3>4, SilentKeeps
  <2>. QED
    BY <1>5, <2>1, <2>2 DEF Check
<1>6. ASSUME NEW u \in Uploads, NEW s \in Shards, Connect(u, s) PROVE IInv'
  <2>1. /\ session' = [session EXCEPT ![u][s] = "open"]
        /\ UNCHANGED <<file, request, outcome>>
        /\ handler' = handler /\ handler' \in [Uploads -> Handler]
    BY <1>6 DEF Connect, IInv, TypeOK
  <2>2. "open" \in {"closed", "opening", "open"} \cup Replies
    OBVIOUS
  <2>. QED
    BY <2>1, <2>2, SessionMoves
<1>7. ASSUME NEW u \in Uploads, Begin(u) \/ Terminate(u) PROVE IInv'
  <2>1. PICK at \in {"reading", "awaiting"} :
          /\ Goto(u, at)
          /\ at = "awaiting" => \A s \in Shards : session[u][s] = "open"
          /\ UNCHANGED <<file, request, outcome, session>>
    BY <1>7 DEF Begin, Terminate
  <2>2. /\ handler' \in [Uploads -> Handler]
        /\ handler'[u].at = at
        /\ \A v \in Uploads : v # u => handler'[v] = handler[v]
    BY <2>1, GotoType DEF IInv, TypeOK
  <2>3. NoneAwaitsSooner
    BY <2>1, <2>2 DEF NoneAwaitsSooner
  <2>. QED
    BY <2>1, <2>2, <2>3, HandlerMoves
<1>8. ASSUME NEW u \in Uploads, ReadChunk(u) PROVE IInv'
  <2>1. [at |-> "writing", chunk |-> handler[u].chunk + 1, shard |-> 1] \in Handler
    BY ConstantsOK DEF IInv, TypeOK, Handler, Shards
  <2>2. handler' \in [Uploads -> Handler] /\ NoneAwaitsSooner
    BY <1>8, <2>1 DEF ReadChunk, IInv, TypeOK, NoneAwaitsSooner
  <2>. QED
    BY <1>8, <2>2, HandlerMoves DEF ReadChunk
<1>9. ASSUME NEW u \in Uploads, Aborted(u) \/ WriteFails(u) \/ HungWriteFails(u) PROVE IInv'
  BY <1>9, FinishKeeps DEF Aborted, WriteFails, HungWriteFails, Told
<1>10. ASSUME NEW u \in Uploads, Write(u) \/ Drain(u) PROVE IInv'
  <2>1. /\ Advance(u) \/ Goto(u, "draining")
        /\ UNCHANGED <<file, request, outcome, session>>
    BY <1>10 DEF Write, Drain
  <2>2. CASE Advance(u)
    BY <2>1, <2>2, AdvanceType, HandlerMoves
  <2>3. CASE Goto(u, "draining")
    <3>1. /\ handler' \in [Uploads -> Handler]
          /\ handler'[u].at = "draining"
          /\ \A v \in Uploads : v # u => handler'[v] = handler[v]
      BY <2>3, GotoType DEF IInv, TypeOK
    <3>2. NoneAwaitsSooner
      BY <3>1 DEF NoneAwaitsSooner
    <3>. QED
      BY <2>1, <3>1, <3>2, HandlerMoves
  <2>. QED
    BY <2>1, <2>2, <2>3
<1>11. ASSUME NEW u \in Uploads, Conclude(u) PROVE IInv'
  BY <1>11, VerdictTrue, FinishKeeps DEF Conclude
<1>12. ASSUME NEW u \in Uploads, NEW s \in Shards, Reply(u, s) PROVE IInv'
  <2>1. PICK r \in {IF FoundBy(s, file[u]) THEN "FOUND" ELSE "OK", "ERROR"} :
          session' = [session EXCEPT ![u][s] = r]
    BY <1>12 DEF Reply
  <2>2. /\ r \in {"closed", "opening", "open"} \cup Replies
        /\ r = "OK" => ~FoundBy(s, file[u])
        /\ r = "FOUND" => FoundBy(s, file[u])
    BY <2>1 DEF Replies
  <2>3. UNCHANGED <<file, request, outcome, handler>> /\ handler' \in [Uploads -> Handler]
    BY <1>12 DEF Reply, IInv, TypeOK
  <2>. QED
    BY <2>1, <2>2, <2>3, SessionMoves
<1>13. ASSUME NEW u \in Uploads, NEW s \in Shards, EarlyReply(u, s) PROVE IInv'
  <2>1. PICK r \in Replies : session' = [session EXCEPT ![u][s] = r]
    BY <1>13 DEF EarlyReply
  <2>2. /\ UNCHANGED <<file, request, outcome>>
        /\ handler[u].at # "awaiting"
        /\ Goto(u, "hung") \/ UNCHANGED handler
    BY <1>13 DEF EarlyReply
  <2>3. /\ handler' \in [Uploads -> Handler]
        /\ \A v \in Uploads : handler'[v].at = "awaiting" => handler[v].at = "awaiting"
    BY <2>2, GotoType DEF IInv, TypeOK
  <2>. QED
    BY <2>1, <2>2, <2>3, SessionMoves
<1>14. ASSUME NEW u \in Uploads, NEW s \in Shards, SessionFails(u, s) PROVE IInv'
  BY <1>14, FinishKeeps, DeathKeeps DEF SessionFails, Told
<1>15. CASE AdapterDies
  BY <1>15, DeathKeeps
<1>. QED
  BY <1>1, <1>2, <1>3, <1>4, <1>5, <1>6, <1>7, <1>8, <1>9, <1>10, <1>11, <1>12, <1>13, <1>14, <1>15
  DEF Next

(* The inductive invariant: the types, and the truth of the awaited replies. *)
THEOREM Invariance == Spec => []IInv
  BY Initially, Inductive, PTL DEF Spec

(* request, outcome, handler and session keep their types.                   *)
THEOREM TypeCorrect == Spec => []TypeOK
<1>1. IInv => TypeOK
  BY DEF IInv
<1>. QED
  BY <1>1, Invariance, PTL

-----------------------------------------------------------------------------
(* A justified answer is a step of the promise.                              *)
LEMMA AnswerTells ==
  ASSUME IInv, NEW S \in SUBSET Uploads, NEW o \in Told, Answer(S, o), file' = file,
         \A u \in S : Promise!Justified(u, o)
  PROVE  Promise!Tell
<1>1. /\ outcome' \in [Uploads -> Promise!Outcomes]
      /\ \A u \in Uploads : outcome'[u] # outcome[u] =>
           u \in S /\ outcome[u] = "NONE" /\ outcome'[u] = o
  BY AnswerChanges DEF IInv, Promise!Outcomes
<1>2. [u \in Uploads |-> Clean(file[u])]' = [u \in Uploads |-> Clean(file[u])]
  OBVIOUS
<1>. QED
  BY <1>1, <1>2 DEF Promise!Tell

LEMMA Unjudged == ASSUME NEW u PROVE Promise!Justified(u, "UNAVAILABLE") /\ Promise!Justified(u, "REFUSED")
  BY DEF Promise!Justified

LEMMA FinishTells ==
  ASSUME IInv, NEW u \in Uploads, NEW o \in Told, Finish(u, o), Promise!Justified(u, o)
  PROVE  Promise!Tell
  BY AnswerTells DEF Finish

(* The promise of a scan: a verdict only when it is true, and one answer per *)
(* upload, for any number of uploads and failures.                           *)
THEOREM Refinement == Spec => ImplementsScanService
<1>1. Init => Promise!Init
  BY DEF Init, Promise!Init, Clean, FoundBy
<1>2. IInv /\ [Next]_vars => [Promise!Tell]_<<outcome, [u \in Uploads |-> Clean(file[u])]>>
  <2> SUFFICES ASSUME IInv, [Next]_vars,
                      ~(outcome' = outcome /\ file' = file)
               PROVE  Promise!Tell
    OBVIOUS
  <2> USE DEF Told
  <2>1. ASSUME NEW u \in Uploads, Probe(u) \/ Post(u) PROVE Promise!Tell
    <3>1. /\ file' = file
          /\ \E o \in {"REFUSED", "UNAVAILABLE"} : outcome' = [outcome EXCEPT ![u] = o]
          /\ request[u] # "answered"
      BY <2>1 DEF Probe, Post
    <3>2. outcome[u] = "NONE"
      BY <3>1 DEF IInv, TypeOK
    <3>3. [v \in Uploads |-> Clean(file[v])]' = [v \in Uploads |-> Clean(file[v])]
      BY <3>1
    <3>4. outcome' \in [Uploads -> Promise!Outcomes]
      BY <3>1 DEF IInv, TypeOK, Promise!Outcomes
    <3>. QED
      BY <3>1, <3>2, <3>3, <3>4, Unjudged DEF Promise!Tell, IInv, TypeOK
  <2>2. ASSUME NEW u \in Uploads, GiveUp(u) PROVE Promise!Tell
    BY <2>2, AnswerTells, Unjudged DEF GiveUp
  <2>3. ASSUME NEW u \in Uploads,
               Finish(u, "UNAVAILABLE")
        PROVE  Promise!Tell
    BY <2>3, FinishTells, Unjudged
  <2>4. ASSUME NEW u \in Uploads, Conclude(u) PROVE Promise!Tell
    BY <2>4, VerdictTrue, FinishTells DEF Conclude
  <2>5. ASSUME AdapterDies PROVE Promise!Tell
    BY <2>5, AnswerTells, Unjudged DEF AdapterDies
  <2>6. ASSUME NEW u \in Uploads,
               \/ Check(u) \/ Aborted(u) \/ WriteFails(u) \/ HungWriteFails(u)
               \/ \E s \in Shards : SessionFails(u, s)
        PROVE  Promise!Tell
    BY <2>3, <2>5, <2>6 DEF Check, Aborted, WriteFails, HungWriteFails, SessionFails
  <2>7. ASSUME NEW u \in Uploads,
               \/ Begin(u) \/ ReadChunk(u) \/ Write(u) \/ Drain(u) \/ Terminate(u)
               \/ \E s \in Shards : Connect(u, s) \/ Reply(u, s) \/ EarlyReply(u, s)
        PROVE  FALSE
    BY <2>7 DEF Begin, ReadChunk, Write, Drain, Terminate, Connect, Reply, EarlyReply
  <2>8. ~UNCHANGED vars
    BY DEF vars
  <2>. QED
    BY <2>1, <2>2, <2>4, <2>5, <2>6, <2>7, <2>8 DEF Next
<1>. QED
  BY <1>1, <1>2, Invariance, PTL DEF Spec, ImplementsScanService, Promise!Spec
=============================================================================
