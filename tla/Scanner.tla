------------------------------- MODULE Scanner -------------------------------
(***************************************************************************)
(* The malware scan of an upload: the requests of MEDIA (src/src/server.ts, *)
(* security/malware.ts, security/scanner-readiness.ts), the scanner adapter *)
(* (src/scanner/server.mjs) and, external, the clamd shards it streams to.  *)
(*                                                                           *)
(* The adapter streams every chunk to all shards and asks each for a reply.  *)
(* A handler is suspended wherever the code awaits.  The sockets fail, time  *)
(* out, and a reply may arrive before the stream has ended (clamd's size     *)
(* limit); a failure before the replies are awaited is an unhandled          *)
(* rejection, which ends the adapter process and every scan in it.           *)
(*                                                                           *)
(* Of clamd it is assumed that the reply to a stream that has ended, unless  *)
(* it is an error, is true of the whole stream.                              *)
(***************************************************************************)
EXTENDS Naturals, Sequences

CONSTANTS Uploads,      (* requests of verifyUpload                          *)
          NumShards,    (* clamd instances: daily, and main when it is set   *)
          Constrained,  (* CLAMAV_CONSTRAINED_SIGNATURES                     *)
          Chunks,       (* kinds of chunk                                    *)
          Files,        (* files uploaded, as sequences of chunks            *)
          Known,        (* per shard: the chunks its signatures match        *)
          MaxBytes      (* MAX_SCAN_BYTES, in chunks                         *)

Shards == 1..NumShards

ASSUME ConstantsOK ==
  /\ NumShards \in {1, 2}
  /\ Constrained \in BOOLEAN
  /\ Files \subseteq Seq(Chunks)
  /\ Known \in [Shards -> SUBSET Chunks]
  /\ MaxBytes \in Nat \ {0}

VARIABLES file,     (* per upload: its content                               *)
          request,  (* per upload: where MEDIA's request is                  *)
          outcome,  (* per upload: what the scan told MEDIA                  *)
          handler,  (* per upload: where the adapter's /scan handler waits,  *)
                    (* the chunk in hand and the shard it is written to      *)
          session   (* per upload and shard: the INSTREAM session            *)

vars == <<file, request, outcome, handler, session>>

Idle == [at |-> "idle", chunk |-> 0, shard |-> 1]
Closed == [s \in Shards |-> "closed"]
Replies == {"OK", "FOUND", "ERROR"}

Init ==
  /\ file \in [Uploads -> Files]
  /\ request = [u \in Uploads |-> "new"]
  /\ outcome = [u \in Uploads |-> "NONE"]
  /\ handler = [u \in Uploads |-> Idle]
  /\ session = [u \in Uploads |-> Closed]

FoundBy(s, f) == \E i \in 1..Len(f) : f[i] \in Known[s]

Clean(f) == \A s \in Shards : ~FoundBy(s, f)

-----------------------------------------------------------------------------
(* MEDIA                                                                     *)

(* An answer reaches the requests that still wait for it.                    *)
Answer(told, o) ==
  LET heard == {u \in told : request[u] = "posted"}
  IN /\ request' = [u \in Uploads |-> IF u \in heard THEN "answered" ELSE request[u]]
     /\ outcome' = [u \in Uploads |-> IF u \in heard THEN o ELSE outcome[u]]

FullCoverage == NumShards = 2 \/ ~Constrained

(* scannerReady and GET /ready: nothing is stored before every shard answers *)
(* PING and has fresh signatures and coverage is FULL.  Errors and timeouts  *)
(* count as not ready; a shard may age or be unreachable at any time.        *)
Probe(u) ==
  /\ request[u] = "new"
  /\ \/ /\ FullCoverage
        /\ request' = [request EXCEPT ![u] = "ready"]
        /\ UNCHANGED outcome
     \/ /\ request' = [request EXCEPT ![u] = "answered"]
        /\ outcome' = [outcome EXCEPT ![u] = "REFUSED"]
  /\ UNCHANGED <<file, handler, session>>

(* scanForMalware POSTs the stored file.                                     *)
Post(u) ==
  /\ request[u] = "ready"
  /\ \/ /\ request' = [request EXCEPT ![u] = "posted"]
        /\ handler' = [handler EXCEPT ![u].at = "checking"]
        /\ UNCHANGED outcome
     \/ /\ request' = [request EXCEPT ![u] = "answered"]
        /\ outcome' = [outcome EXCEPT ![u] = "UNAVAILABLE"]
        /\ UNCHANGED handler
  /\ UNCHANGED <<file, session>>

(* The AbortController's timer fires; the adapter is not told why.           *)
GiveUp(u) ==
  /\ request[u] = "posted"
  /\ Answer({u}, "UNAVAILABLE")
  /\ UNCHANGED <<file, handler, session>>

-----------------------------------------------------------------------------
(* The adapter                                                               *)

Goto(u, at) == handler' = [handler EXCEPT ![u].at = at]

(* The response is sent and the sockets are ended or destroyed.              *)
Finish(u, o) ==
  /\ handler' = [handler EXCEPT ![u] = Idle]
  /\ session' = [session EXCEPT ![u] = Closed]
  /\ Answer({u}, o)
  /\ UNCHANGED file

(* signatureFresh of every shard, coverage and Content-Length come before    *)
(* the first connection; a shard may be found stale or silent at any time.   *)
Admissible(u) == FullCoverage /\ Len(file[u]) \in 1..MaxBytes

Check(u) ==
  /\ handler[u].at = "checking"
  /\ \/ Finish(u, "UNAVAILABLE")
     \/ /\ Admissible(u)
        /\ Goto(u, "connecting")
        /\ session' = [session EXCEPT ![u] = [s \in Shards |-> "opening"]]
        /\ UNCHANGED <<file, request, outcome>>

Connect(u, s) ==
  /\ session[u][s] = "opening"
  /\ session' = [session EXCEPT ![u][s] = "open"]
  /\ UNCHANGED <<file, request, outcome, handler>>

(* All sessions are ready and have got zINSTREAM.                            *)
Begin(u) ==
  /\ handler[u].at = "connecting"
  /\ \A s \in Shards : session[u][s] = "open"
  /\ Goto(u, "reading")
  /\ UNCHANGED <<file, request, outcome, session>>

ReadChunk(u) ==
  /\ handler[u].at = "reading"
  /\ handler[u].chunk < Len(file[u])
  /\ handler' = [handler EXCEPT ![u] = [at |-> "writing", chunk |-> @.chunk + 1, shard |-> 1]]
  /\ UNCHANGED <<file, request, outcome, session>>

(* The request has gone away in mid-stream: the body's iterator throws.      *)
Aborted(u) ==
  /\ handler[u].at = "reading"
  /\ request[u] = "answered"
  /\ Finish(u, "UNAVAILABLE")

AdvancePastLast(u) ==
  handler' = [handler EXCEPT ![u] = IF @.shard <= NumShards
                                    THEN [@ EXCEPT !.at = "writing", !.shard = handler[u].shard + 1]
                                    ELSE [@ EXCEPT !.at = "reading", !.shard = 1]]

(* The shards get a chunk one after the other.                               *)
Advance(u) ==
  handler' = [handler EXCEPT ![u] = IF @.shard < NumShards
                                    THEN [@ EXCEPT !.at = "writing", !.shard = handler[u].shard + 1]
                                    ELSE [@ EXCEPT !.at = "reading", !.shard = 1]]

(* write: at once, or after a drain when the socket's buffer is full.        *)
Write(u) ==
  /\ handler[u].at = "writing"
  /\ session[u][handler[u].shard] = "open"
  /\ Advance(u) \/ Goto(u, "draining")
  /\ UNCHANGED <<file, request, outcome, session>>

Drain(u) ==
  /\ handler[u].at = "draining"
  /\ session[u][handler[u].shard] = "open"
  /\ Advance(u)
  /\ UNCHANGED <<file, request, outcome, session>>

(* A session that has replied is ended: the next write to it fails.          *)
WriteFails(u) ==
  /\ \/ handler[u].at = "writing" /\ session[u][handler[u].shard] # "open"
     \/ /\ handler[u].at = "reading" /\ handler[u].chunk = Len(file[u])
        /\ \E s \in Shards : session[u][s] # "open"
  /\ Finish(u, "UNAVAILABLE")

TerminateUnchecked(u) ==
  /\ handler[u].at = "reading"
  /\ handler[u].chunk = Len(file[u])
  /\ Goto(u, "awaiting")
  /\ UNCHANGED <<file, request, outcome, session>>

(* The four-byte terminators fit every buffer.                               *)
Terminate(u) ==
  /\ handler[u].at = "reading"
  /\ handler[u].chunk = Len(file[u])
  /\ \A s \in Shards : session[u][s] = "open"
  /\ Goto(u, "awaiting")
  /\ UNCHANGED <<file, request, outcome, session>>

(* One FOUND is enough, every shard must say OK, the rest is indeterminate.  *)
Verdict(replies) ==
  IF "FOUND" \in replies THEN "MALWARE"
  ELSE IF replies = {"OK"} THEN "PASSED" ELSE "UNAVAILABLE"

Conclude(u) ==
  /\ handler[u].at = "awaiting"
  /\ \A s \in Shards : session[u][s] \in Replies
  /\ Finish(u, Verdict({session[u][s] : s \in Shards}))

-----------------------------------------------------------------------------
(* The shards, the process and time                                          *)

(* clamd scans a stream when it has its end; it may also give up on it.      *)
Reply(u, s) ==
  /\ handler[u].at = "awaiting"
  /\ session[u][s] = "open"
  /\ \E r \in {IF FoundBy(s, file[u]) THEN "FOUND" ELSE "OK", "ERROR"} :
       session' = [session EXCEPT ![u][s] = r]
  /\ UNCHANGED <<file, request, outcome, handler>>

(* A reply before the stream's end, the size limit's or any other: the       *)
(* adapter keeps it and ends the socket, on which no drain will be heard of  *)
(* again.                                                                    *)
EarlyReply(u, s) ==
  /\ handler[u].at \in {"reading", "writing", "draining", "hung"}
  /\ session[u][s] = "open"
  /\ \E r \in Replies : session' = [session EXCEPT ![u][s] = r]
  /\ IF handler[u].at = "draining" /\ handler[u].shard = s
     THEN Goto(u, "hung") ELSE UNCHANGED handler
  /\ UNCHANGED <<file, request, outcome>>

(* A reset may still be reported to the write that hangs.                    *)
HungWriteFails(u) ==
  /\ handler[u].at = "hung"
  /\ Finish(u, "UNAVAILABLE")

(* Every scan in the process is lost and its client told by a reset.  Until  *)
(* it is restarted, probes and posts fail, as they may at any time.          *)
AdapterDies ==
  /\ \E u \in Uploads : handler[u] # Idle
  /\ handler' = [u \in Uploads |-> Idle]
  /\ session' = [u \in Uploads |-> Closed]
  /\ Answer(Uploads, "UNAVAILABLE")
  /\ UNCHANGED file

SessionFailsOnlyOpening(u, s) ==
  /\ session[u][s] = "opening"
  /\ IF handler[u].at = "awaiting" THEN Finish(u, "UNAVAILABLE") ELSE AdapterDies

(* fail: an error, 120 s of silence, an end without an answer or an answer   *)
(* that is too long.  Nobody handles result's rejection before scanAll       *)
(* awaits it.                                                                *)
SessionFails(u, s) ==
  /\ session[u][s] \in {"opening", "open"}
  /\ IF handler[u].at = "awaiting" THEN Finish(u, "UNAVAILABLE") ELSE AdapterDies

Next ==
  \/ \E u \in Uploads :
       \/ Probe(u) \/ Post(u) \/ GiveUp(u)
       \/ Check(u) \/ Begin(u) \/ ReadChunk(u) \/ Aborted(u)
       \/ Write(u) \/ Drain(u) \/ WriteFails(u) \/ Terminate(u) \/ Conclude(u)
       \/ HungWriteFails(u)
       \/ \E s \in Shards : Connect(u, s) \/ Reply(u, s) \/ EarlyReply(u, s) \/ SessionFails(u, s)
  \/ AdapterDies

Spec == Init /\ [][Next]_vars

(* Promises and timers run: a handler that can go on does, and every session *)
(* is settled by its own 120 s timeout at the latest.                        *)
Fairness ==
  \A u \in Uploads :
    /\ WF_vars(Check(u) \/ Begin(u) \/ ReadChunk(u) \/ Aborted(u) \/ Write(u) \/ Drain(u)
                 \/ WriteFails(u) \/ Terminate(u) \/ Conclude(u))
    /\ \A s \in Shards : WF_vars(Connect(u, s) \/ Reply(u, s) \/ SessionFails(u, s))

FairSpec == Spec /\ Fairness

-----------------------------------------------------------------------------
(* Properties                                                                *)

Handler ==
  [at : {"idle", "checking", "connecting", "reading", "writing", "draining", "hung", "awaiting"},
   chunk : Nat, shard : Shards]

(* Type invariant: request, outcome, handler and session stay in their       *)
(* domains, and only an answered request has an outcome.                     *)
TypeOK ==
  /\ file \in [Uploads -> Files]
  /\ request \in [Uploads -> {"new", "ready", "posted", "answered"}]
  /\ outcome \in [Uploads -> {"NONE", "REFUSED", "PASSED", "MALWARE", "UNAVAILABLE"}]
  /\ handler \in [Uploads -> Handler]
  /\ session \in [Uploads -> [Shards -> {"closed", "opening", "open"} \cup Replies]]
  /\ \A u \in Uploads : (outcome[u] = "NONE") <=> (request[u] # "answered")

(* docs/OPERATIONS-SLO-DR.md:8, the scan fails closed: whatever fails, times *)
(* out, dies or answers late, and whatever a shard says before it has seen   *)
(* the whole stream, a file is PASSED only when no shard's signatures match  *)
(* any part of it, called MALWARE only when one does, and an upload is       *)
(* answered once (server.mjs:108-132,171-178).                               *)
Promise == INSTANCE ScanService WITH clean <- [u \in Uploads |-> Clean(file[u])]

ImplementsScanService == Promise!Spec

(* No handler stays in the adapter for ever, with one exception: a write     *)
(* that waits for the drain of a session that has replied, when every other  *)
(* session has replied too and no timeout is left to end it                  *)
(* (server.mjs:65-72,93-104).                                                *)
HandlersEnd ==
  \A u \in Uploads :
    handler[u].at # "idle" ~>
      \/ handler[u].at = "idle"
      \/ handler[u].at = "hung" /\ \A s \in Shards : session[u][s] \in Replies
=============================================================================
