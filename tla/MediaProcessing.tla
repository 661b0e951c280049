--------------------------- MODULE MediaProcessing ---------------------------
(***************************************************************************)
(* verifyUpload (src/src/server.ts): concurrent uploads of one organization, *)
(* each scanned, verified and persisted as a passport under an idempotency   *)
(* key whose progress is kept in media_processing_runs.                      *)
(*                                                                           *)
(* An upload is named by its asset id.  Every database call and every file   *)
(* move is a step; any of them may throw, and the process may die between    *)
(* two of them.  External: the malware scanner, which tells clean content    *)
(* from the rest, and the verification engine.                               *)
(***************************************************************************)
EXTENDS Naturals, FiniteSets

CONSTANTS Uploads,        (* uploads received, by their fresh asset id       *)
          Keys,           (* Idempotency-Key headers                         *)
          Contents,       (* SHA-256 classes of content                      *)
          CleanContents,  (* those the scanner passes                        *)
          NoUpload, NoKey, NoContent,
          MaxCrashes      (* bound: processes that die                       *)

ASSUME ConstantsOK ==
  /\ CleanContents \subseteq Contents
  /\ NoUpload \notin Uploads /\ NoKey \notin Keys /\ NoContent \notin Contents
  /\ MaxCrashes \in Nat

VARIABLES runs,       (* media_processing_runs by idempotency key            *)
          uploads,    (* the local state of every request                    *)
          files,      (* where an upload's media is on disk                  *)
          passports,  (* assets saved with their passport                    *)
          evidence,   (* assets with canonical evidence bound to them        *)
          crashes     (* processes lost so far                               *)

vars == <<runs, uploads, files, passports, evidence, crashes>>

Stages == {"NONE", "QUARANTINED", "SCANNED_CLEAN", "VERIFIED", "PERSISTED", "COMPLETED", "FAILED"}
Phases == {"new", "stored", "begun", "replaying", "scanned", "promoted", "verified", "evidenced",
           "saved", "persisted", "deleted", "failing", "answered", "dead"}
Answers == {"NONE", "CREATED", "REPLAYED", "MALWARE_DETECTED", "VERIFICATION_UNAVAILABLE"}

NoRun == [stage |-> "NONE", content |-> NoContent, asset |-> NoUpload]

Init ==
  /\ runs = [k \in Keys |-> NoRun]
  /\ uploads = [u \in Uploads |-> [phase |-> "new", key |-> NoKey, content |-> NoContent,
                                   owns |-> FALSE, answer |-> "NONE", passport |-> NoUpload]]
  /\ files = [u \in Uploads |-> "absent"]
  /\ passports = {}
  /\ evidence = {}
  /\ crashes = 0

Goto(u, from, to) ==
  /\ uploads[u].phase = from
  /\ uploads' = [uploads EXCEPT ![u].phase = to]

Reply(u, from, answer, p) ==
  /\ uploads[u].phase = from
  /\ uploads' = [uploads EXCEPT ![u].phase = "answered", ![u].answer = answer, ![u].passport = p]

KeptAsset(run, u) == IF run.asset = NoUpload THEN u ELSE run.asset

(* COALESCE(new asset, old asset): every caller passes its own.              *)
MarkedAsset(run, u) == u

MarkFailureCode(u, stage) ==
  LET k == uploads[u].key
  IN runs' = [runs EXCEPT ![k].stage = IF stage = "FAILED" THEN uploads[u].answer ELSE stage,
                          ![k].asset = MarkedAsset(runs[k], u)]

(* markProcessing: an unconditional UPDATE of the run by its id.             *)
Mark(u, stage) ==
  LET k == uploads[u].key
  IN runs' = [runs EXCEPT ![k].stage = stage, ![k].asset = MarkedAsset(runs[k], u)]

-----------------------------------------------------------------------------
(* storeUpload: an accepted file is in quarantine.                           *)
Store(u, k, c) ==
  /\ uploads[u].phase = "new"
  /\ uploads' = [uploads EXCEPT ![u].phase = "stored", ![u].key = k, ![u].content = c]
  /\ files' = [files EXCEPT ![u] = "quarantine"]
  /\ UNCHANGED <<runs, passports, evidence, crashes>>

MatchesAnything(run, c) == TRUE

ContentMatches(run, c) == run.stage = "NONE" \/ run.content = c

ReplayableOnlyPersisted(run) == run.stage = "PERSISTED" /\ run.asset # NoUpload

Replayable(run) == run.stage = "COMPLETED" /\ run.asset # NoUpload

(* beginProcessing: the upsert.  A completed run is replayed; a run in any   *)
(* other stage is simply processed by this request too.                      *)
Begin(u) ==
  LET k == uploads[u].key
      run == runs[k]
  IN /\ uploads[u].phase = "stored"
     /\ ContentMatches(run, uploads[u].content)
     /\ uploads' = [uploads EXCEPT ![u].phase = IF Replayable(run) THEN "replaying" ELSE "begun",
                                   ![u].owns = TRUE,
                                   ![u].passport = IF Replayable(run) THEN run.asset ELSE NoUpload]
     /\ runs' = IF run.stage = "NONE"
                THEN [runs EXCEPT ![k] = [stage |-> "QUARANTINED", asset |-> NoUpload,
                                          content |-> uploads[u].content]]
                ELSE runs
     /\ UNCHANGED <<files, passports, evidence, crashes>>

(* The prior passport is read back and returned with 200.                    *)
Replay(u) ==
  /\ Reply(u, "replaying", "REPLAYED", uploads[u].passport)
  /\ uploads[u].passport \in passports
  /\ UNCHANGED <<runs, files, passports, evidence, crashes>>


ScanPasses(c) == c \in CleanContents

Scan(u) ==
  /\ Goto(u, "begun", "scanned")
  /\ ScanPasses(uploads[u].content)
  /\ Mark(u, "SCANNED_CLEAN")
  /\ UNCHANGED <<files, passports, evidence, crashes>>

(* promoteStoredMedia: the rename from quarantine to clean.                  *)
Promote(u) ==
  /\ Goto(u, "scanned", "promoted")
  /\ files' = [files EXCEPT ![u] = "clean"]
  /\ UNCHANGED <<runs, passports, evidence, crashes>>

Verify(u) ==
  /\ Goto(u, "promoted", "verified")
  /\ Mark(u, "VERIFIED")
  /\ UNCHANGED <<files, passports, evidence, crashes>>

(* kernelStore.record and bind, for every observation.                       *)
RecordEvidence(u) ==
  /\ Goto(u, "verified", "evidenced")
  /\ evidence' = evidence \cup {u}
  /\ UNCHANGED <<runs, files, passports, crashes>>

(* store.save: asset, passport and observations in one transaction.          *)
Save(u) ==
  /\ Goto(u, "evidenced", "saved")
  /\ passports' = passports \cup {u}
  /\ UNCHANGED <<runs, files, evidence, crashes>>

MarkPersisted(u) ==
  /\ Goto(u, "saved", "persisted")
  /\ Mark(u, "PERSISTED")
  /\ UNCHANGED <<files, passports, evidence, crashes>>

(* DELETE_SOURCE_AFTER_VERIFICATION, which production requires.              *)
DeleteSource(u) ==
  /\ Goto(u, "persisted", "deleted")
  /\ files' = [files EXCEPT ![u] = "absent"]
  /\ UNCHANGED <<runs, passports, evidence, crashes>>

MarkCompleted(u) ==
  /\ Reply(u, "deleted", "CREATED", u)
  /\ Mark(u, "COMPLETED")
  /\ UNCHANGED <<files, passports, evidence, crashes>>

-----------------------------------------------------------------------------
(* Failure                                                                   *)

CleanupQuarantineOnly(u) == IF files[u] = "quarantine" THEN "absent" ELSE files[u]

(* The catch block removes the quarantined and the clean copy.               *)
Cleanup(u) == "absent"

(* Some step throws: the files go before the run is marked.  The malware     *)
(* verdict is a throw of the scan; any other step may fail on its own, and   *)
(* beginProcessing rolls back when the key was used for other content.       *)
Throw(u, answer) ==
  /\ \/ answer = "MALWARE_DETECTED" /\ uploads[u].phase = "begun" /\ ~ScanPasses(uploads[u].content)
     \/ answer = "VERIFICATION_UNAVAILABLE"
          /\ uploads[u].phase \notin {"new", "failing", "answered", "dead"}
  /\ uploads' = [uploads EXCEPT ![u].phase = "failing", ![u].answer = answer]
  /\ files' = [files EXCEPT ![u] = Cleanup(u)]
  /\ UNCHANGED <<runs, passports, evidence, crashes>>

(* The run this request began, if any, is marked FAILED (an error there is   *)
(* swallowed) and the request is answered.                                   *)
Settle(u) ==
  /\ Reply(u, "failing", uploads[u].answer, NoUpload)
  /\ \/ uploads[u].owns /\ Mark(u, "FAILED")
     \/ UNCHANGED runs
  /\ UNCHANGED <<files, passports, evidence, crashes>>

Crash(u) ==
  /\ crashes < MaxCrashes
  /\ uploads[u].phase \notin {"new", "answered", "dead"}
  /\ uploads' = [uploads EXCEPT ![u].phase = "dead"]
  /\ crashes' = crashes + 1
  /\ UNCHANGED <<runs, files, passports, evidence>>

Next ==
  \E u \in Uploads :
    \/ \E k \in Keys, c \in Contents : Store(u, k, c)
    \/ Begin(u) \/ Replay(u) \/ Scan(u) \/ Promote(u) \/ Verify(u) \/ RecordEvidence(u)
    \/ Save(u) \/ MarkPersisted(u) \/ DeleteSource(u) \/ MarkCompleted(u)
    \/ \E answer \in {"MALWARE_DETECTED", "VERIFICATION_UNAVAILABLE"} : Throw(u, answer)
    \/ Settle(u) \/ Crash(u)

Spec == Init /\ [][Next]_vars

-----------------------------------------------------------------------------
(* The types of the rows, the requests and the files.                        *)
TypeOK ==
  /\ runs \in [Keys -> [stage : Stages, content : Contents \cup {NoContent},
                        asset : Uploads \cup {NoUpload}]]
  /\ uploads \in [Uploads -> [phase : Phases, key : Keys \cup {NoKey},
                              content : Contents \cup {NoContent}, owns : BOOLEAN,
                              answer : Answers, passport : Uploads \cup {NoUpload}]]
  /\ files \in [Uploads -> {"absent", "quarantine", "clean"}]
  /\ passports \subseteq Uploads
  /\ evidence \subseteq Uploads
  /\ crashes \in 0..MaxCrashes

(* A run that says COMPLETED names a persisted passport of the very content  *)
(* the key was first used for, although rival requests on one key overwrite  *)
(* its stage and asset with their own (server.ts:259-268, db.ts:48).         *)
CompletedRunHasPassport ==
  \A k \in Keys : runs[k].stage = "COMPLETED" =>
    runs[k].asset \in passports /\ uploads[runs[k].asset].content = runs[k].content

(* A passport in an answer is persisted, and certifies the content of the    *)
(* request it answers: 201 for its own upload, 200 for a replay              *)
(* (server.ts:259,265; docs/failure-chaos-gate.md:6).                        *)
AnsweredPassportIsReal ==
  \A u \in Uploads : uploads[u].answer \in {"CREATED", "REPLAYED"} =>
    /\ uploads[u].passport \in passports
    /\ uploads[uploads[u].passport].content = uploads[u].content

(* Work that was answered 201 is repeated under its key only after another   *)
(* request had begun under that key: a rival that ran beside it, or a replay *)
(* that failed, marks the completed run with its own stage and asset, and    *)
(* the next upload then makes a second passport (server.ts:259,267; against  *)
(* docs/failure-chaos-gate.md:11,14, a key is executed once).                *)
RepeatedOnlyAfterRival ==
  [][\A u, v \in Uploads :
       /\ uploads[u].phase = "stored" /\ uploads'[u].phase = "begun"
       /\ uploads[v].answer = "CREATED" /\ uploads[v].key = uploads[u].key
       => \E w \in Uploads \ {u, v} : uploads[w].key = uploads[u].key /\ uploads[w].owns]_vars

(* A request that failed, or made a passport, leaves no media on disk, at    *)
(* whatever step it failed (server.ts:264,267).                              *)
NoMediaAfterProcessing ==
  \A u \in Uploads : uploads[u].phase = "answered" /\ uploads[u].answer # "REPLAYED" =>
    files[u] = "absent"
=============================================================================
