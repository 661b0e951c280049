------------------------ MODULE MediaProcessingProofs ------------------------
(***************************************************************************)
(* For any number of uploads, keys, contents and crashes: a completed run    *)
(* and an answer name a persisted passport of the right content, no media is *)
(* left behind, and a second passport under a key takes a rival.             *)
(*                                                                           *)
(* The inductive invariant keeps, for every upload, what its phase says of   *)
(* its run (same content as the run it owns), of its passport and of its     *)
(* file; whatever a rival writes over the run, the content it was first used *)
(* for stays.                                                                *)
(***************************************************************************)
EXTENDS MediaProcessing, TLAPS

RunState == [stage : Stages, content : Contents \cup {NoContent}, asset : Uploads \cup {NoUpload}]

UploadState ==
  [phase : Phases, key : Keys \cup {NoKey}, content : Contents \cup {NoContent}, owns : BOOLEAN,
   answer : Answers, passport : Uploads \cup {NoUpload}]

Working == {"begun", "replaying", "scanned", "promoted", "verified", "evidenced", "saved", "persisted", "deleted"}
Told == {"CREATED", "REPLAYED"}

Certified(u) ==
  uploads[u].passport \in passports /\ uploads[uploads[u].passport].content = uploads[u].content

(* What an upload's local state says of its run, its passport and its file.  *)
Coherent(u) ==
  /\ uploads[u].phase = "new" => u \notin passports
  /\ uploads[u].phase \in {"new", "stored"} => ~uploads[u].owns
  /\ uploads[u].phase = "stored" => uploads[u].key \in Keys
  /\ uploads[u].phase \in Working => uploads[u].owns
  /\ uploads[u].owns => /\ uploads[u].key \in Keys
                        /\ runs[uploads[u].key].stage # "NONE"
                        /\ runs[uploads[u].key].content = uploads[u].content
  /\ uploads[u].phase \in {"saved", "persisted", "deleted"} => u \in passports
  /\ uploads[u].phase = "replaying" => Certified(u)
  /\ uploads[u].answer \in Told => uploads[u].phase = "answered" /\ uploads[u].owns /\ Certified(u)
  /\ uploads[u].phase \in {"failing", "deleted"} => files[u] = "absent"
  /\ uploads[u].phase = "answered" /\ uploads[u].answer # "REPLAYED" => files[u] = "absent"

(* A run that was answered 201 is replayable until a rival takes it over.    *)
Remembered(v) ==
  uploads[v].answer = "CREATED" =>
    \/ Replayable(runs[uploads[v].key])
    \/ \E w \in Uploads \ {v} : uploads[w].key = uploads[v].key /\ uploads[w].owns

IInv ==
  /\ TypeOK
  /\ \A u \in Uploads : Coherent(u)
  /\ CompletedRunHasPassport
  /\ \A u \in Uploads : Remembered(u)

-----------------------------------------------------------------------------
Typed ==
  /\ runs \in [Keys -> RunState]
  /\ uploads \in [Uploads -> UploadState]
  /\ files \in [Uploads -> {"absent", "quarantine", "clean"}]
  /\ passports \subseteq Uploads
  /\ evidence \subseteq Uploads
  /\ crashes \in 0..MaxCrashes

LEMMA Types == (TypeOK <=> Typed) /\ (TypeOK' <=> Typed')
  BY DEF TypeOK, Typed, RunState, UploadState

(* A step of one upload that leaves the others' state alone and writes, at   *)
(* most, the run it owns, with its own asset and unchanged content.          *)
LEMMA UploadStep ==
  ASSUME IInv, TypeOK', NEW u \in Uploads, NEW r \in UploadState,
         uploads' = [uploads EXCEPT ![u] = r],
         uploads[u].phase # "answered", r.phase # "new",
         \A v \in Uploads \ {u} : files'[v] = files[v],
         passports \subseteq passports', passports' \subseteq passports \cup {u},
         uploads[u].phase # "new" => r.content = uploads[u].content /\ r.key = uploads[u].key,
         uploads[u].owns => r.owns,
         \A k \in Keys :
           \/ runs'[k] = runs[k]
           \/ /\ k = r.key /\ r.owns
              /\ runs'[k].stage # "NONE" /\ runs'[k].content = r.content
              /\ runs[k].stage # "NONE" => runs[k].content = r.content
              /\ runs'[k].stage = "COMPLETED" => runs'[k].asset = u /\ u \in passports',
         Coherent(u)',
         r.answer = "CREATED" => Replayable(runs'[r.key])
  PROVE  IInv'
<1>1. /\ uploads'[u] = r
      /\ \A v \in Uploads \ {u} : uploads'[v] = uploads[v]
      /\ passports \subseteq Uploads
  BY Types DEF IInv, Typed
<1>2. /\ \A v \in Uploads : uploads[v].phase # "new" =>
             uploads'[v].content = uploads[v].content /\ uploads'[v].key = uploads[v].key
      /\ \A v \in Uploads : uploads[v].owns => uploads'[v].owns /\ uploads[v].phase # "new"
      /\ \A v \in passports : v \in Uploads /\ uploads[v].phase # "new"
  BY <1>1 DEF IInv, Coherent
<1>3. \A k \in Keys : runs[k].stage # "NONE" => runs'[k].stage # "NONE" /\ runs'[k].content = runs[k].content
  OBVIOUS
<1>4. ASSUME NEW v \in Uploads \ {u}
      PROVE  Coherent(v)'
  <2>1. Coherent(v) /\ uploads'[v] = uploads[v] /\ files'[v] = files[v]
    BY <1>1 DEF IInv
  <2>2. Certified(v) => Certified(v)'
    BY <1>1, <1>2 DEF Certified
  <2>3. uploads[v].phase = "new" => v \notin passports'
    BY <2>1 DEF Coherent
  <2>. QED
    BY <1>3, <2>1, <2>2, <2>3 DEF Coherent
<1>5. CompletedRunHasPassport'
  <2> SUFFICES ASSUME NEW k \in Keys, runs'[k].stage = "COMPLETED"
               PROVE  runs'[k].asset \in passports' /\ uploads'[runs'[k].asset].content = runs'[k].content
    BY DEF CompletedRunHasPassport
  <2>1. CASE runs'[k] = runs[k]
    BY <1>2, <2>1 DEF IInv, CompletedRunHasPassport
  <2>2. CASE runs'[k] # runs[k]
    BY <1>1, <2>2
  <2>. QED
    BY <2>1, <2>2
<1>6. ASSUME NEW v \in Uploads, uploads'[v].answer = "CREATED"
      PROVE  \/ Replayable(runs'[uploads'[v].key])
             \/ \E w \in Uploads \ {v} : uploads'[w].key = uploads'[v].key /\ uploads'[w].owns
  <2>1. CASE v = u
    BY <1>1, <1>6, <2>1
  <2>2. CASE v # u
    <3>1. uploads'[v] = uploads[v] /\ uploads[v].answer = "CREATED" /\ uploads[v].key \in Keys
      BY <1>1, <1>6, <2>2 DEF IInv, Coherent, Told
    <3>2. CASE Replayable(runs[uploads[v].key])
      <4>1. CASE runs'[uploads[v].key] = runs[uploads[v].key]
        BY <3>1, <3>2, <4>1
      <4>2. CASE runs'[uploads[v].key] # runs[uploads[v].key]
        BY <1>1, <2>2, <3>1, <4>2
      <4>. QED
        BY <4>1, <4>2
    <3>3. CASE \E w \in Uploads \ {v} : uploads[w].key = uploads[v].key /\ uploads[w].owns
      BY <1>2, <3>1, <3>3
    <3>. QED
      BY <3>1, <3>2, <3>3 DEF IInv, Remembered
  <2>. QED
    BY <2>1, <2>2
<1>7. \A v \in Uploads : Remembered(v)'
  BY <1>6 DEF Remembered, Replayable
<1>8. \A v \in Uploads : Coherent(v)'
  BY <1>4
<1>. QED
  BY <1>5, <1>7, <1>8 DEF IInv

-----------------------------------------------------------------------------
(* What marking its run does, for an upload that owns one.                   *)
LEMMA MarkFacts ==
  ASSUME IInv, NEW u \in Uploads, uploads[u].owns, NEW s \in Stages \ {"NONE"}, Mark(u, s)
  PROVE  /\ runs' \in [Keys -> RunState]
         /\ \A k \in Keys \ {uploads[u].key} : runs'[k] = runs[k]
         /\ uploads[u].key \in Keys
         /\ runs'[uploads[u].key].stage = s /\ runs'[uploads[u].key].asset = u
         /\ runs'[uploads[u].key].content = uploads[u].content
         /\ runs[uploads[u].key].content = uploads[u].content
<1> DEFINE k == uploads[u].key
           run == [runs[k] EXCEPT !.stage = s, !.asset = u]
<1>1. /\ k \in Keys /\ runs[k].content = uploads[u].content
      /\ runs \in [Keys -> RunState]
  BY Types DEF IInv, Typed, Coherent
<1>2. runs' = [runs EXCEPT ![k] = run]
  BY DEF Mark, MarkedAsset
<1>3. run \in RunState /\ run.stage = s /\ run.content = uploads[u].content /\ run.asset = u
  <2>1. runs[k] \in RunState
    BY <1>1
  <2> HIDE DEF k
  <2>2. run \in RunState
    BY <2>1 DEF RunState
  <2>3. run.stage = s /\ run.content = runs[k].content /\ run.asset = u
    BY <2>1 DEF RunState
  <2>. QED
    BY <1>1, <2>2, <2>3 DEF k
<1> HIDE DEF k, run
<1>4. runs' \in [Keys -> RunState] /\ runs'[k] = run /\ \A i \in Keys \ {k} : runs'[i] = runs[i]
  BY <1>1, <1>2, <1>3
<1>. QED
  BY <1>1, <1>3, <1>4 DEF k

(* One step of the pipeline, before the answer.                              *)
LEMMA GotoStep ==
  ASSUME IInv, NEW u \in Uploads,
         NEW from \in Working \ {"replaying"}, NEW to \in Working \ {"replaying"}, Goto(u, from, to),
         \/ UNCHANGED runs
         \/ \E s \in Stages \ {"NONE", "COMPLETED"} : Mark(u, s),
         \/ files' = files
         \/ \E f \in {"absent", "clean"} : files' = [files EXCEPT ![u] = f],
         passports' \in {passports, passports \cup {u}}, evidence' \in {evidence, evidence \cup {u}},
         crashes' = crashes,
         to \in {"saved", "persisted", "deleted"} => u \in passports',
         to = "deleted" => files'[u] = "absent"
  PROVE  IInv'
<1> DEFINE r == [uploads[u] EXCEPT !.phase = to]
<1>1. uploads[u].phase = from /\ uploads' = [uploads EXCEPT ![u] = r]
  BY DEF Goto
<1>2. /\ uploads \in [Uploads -> UploadState] /\ uploads[u] \in UploadState
      /\ runs \in [Keys -> RunState] /\ files \in [Uploads -> {"absent", "quarantine", "clean"}]
      /\ Coherent(u) /\ uploads[u].owns
  BY <1>1, Types DEF IInv, Typed, Coherent
<1>3. r \in UploadState
  BY <1>2 DEF UploadState, Phases, Working
<1>4. /\ r.phase = to /\ r.key = uploads[u].key /\ r.content = uploads[u].content
      /\ r.owns = uploads[u].owns /\ r.answer = uploads[u].answer
  BY <1>2 DEF UploadState
<1> HIDE DEF r
<1>5. \/ runs' = runs
      \/ /\ runs' \in [Keys -> RunState]
         /\ \A k \in Keys \ {r.key} : runs'[k] = runs[k]
         /\ r.key \in Keys
         /\ runs'[r.key].stage \notin {"NONE", "COMPLETED"}
         /\ runs'[r.key].content = r.content /\ runs[r.key].content = r.content
  <2>1. CASE UNCHANGED runs
    BY <2>1
  <2>2. ASSUME NEW s \in Stages \ {"NONE", "COMPLETED"}, Mark(u, s)
        PROVE  /\ runs' \in [Keys -> RunState]
               /\ \A k \in Keys \ {r.key} : runs'[k] = runs[k]
               /\ r.key \in Keys
               /\ runs'[r.key].stage \notin {"NONE", "COMPLETED"}
               /\ runs'[r.key].content = r.content /\ runs[r.key].content = r.content
    <3>1. /\ runs' \in [Keys -> RunState]
          /\ \A k \in Keys \ {uploads[u].key} : runs'[k] = runs[k]
          /\ uploads[u].key \in Keys
          /\ runs'[uploads[u].key].stage = s /\ runs'[uploads[u].key].asset = u
         /\ runs'[uploads[u].key].content = uploads[u].content
          /\ runs[uploads[u].key].content = uploads[u].content
      BY <1>2, <2>2, MarkFacts
    <3>. QED
      BY <1>4, <3>1
  <2>. QED
    BY <2>1, <2>2
<1>6. TypeOK'
  <2>1. files' \in [Uploads -> {"absent", "quarantine", "clean"}]
    BY <1>2
  <2>2. uploads' \in [Uploads -> UploadState] /\ runs' \in [Keys -> RunState]
    BY <1>1, <1>2, <1>3, <1>5
  <2>. QED
    BY <2>1, <2>2, Types DEF IInv, Typed
<1>7. /\ r.answer \notin Told /\ r.phase \in Working \ {"replaying"}
      /\ uploads[u].phase \notin {"new", "answered"}
  BY <1>1, <1>2, <1>4 DEF Coherent, Working
<1>8. uploads'[u] = r
  BY <1>1, <1>2
<1>9. r.key \in Keys /\ runs'[r.key].stage # "NONE" /\ runs'[r.key].content = r.content
  BY <1>2, <1>4, <1>5 DEF Coherent
<1>10. Coherent(u)'
  BY <1>2, <1>4, <1>7, <1>8, <1>9 DEF Coherent, Working
<1>11. \A v \in Uploads \ {u} : files'[v] = files[v]
  BY <1>2
<1>12. r.answer # "CREATED" /\ r.phase # "new"
  BY <1>7 DEF Told, Working
<1>13. \A k \in Keys :
           \/ runs'[k] = runs[k]
           \/ /\ k = r.key /\ r.owns
              /\ runs'[k].stage # "NONE" /\ runs'[k].content = r.content
              /\ runs[k].stage # "NONE" => runs[k].content = r.content
              /\ runs'[k].stage = "COMPLETED" => runs'[k].asset = u /\ u \in passports'
  BY <1>2, <1>4, <1>5
<1>. QED
  BY <1>1, <1>3, <1>4, <1>6, <1>7, <1>10, <1>11, <1>12, <1>13, UploadStep

(* The steps between the scan and the answer.                                *)
LEMMA PipelineStep ==
  ASSUME IInv, NEW u \in Uploads,
         \/ Scan(u) \/ Promote(u) \/ Verify(u) \/ RecordEvidence(u)
         \/ Save(u) \/ MarkPersisted(u) \/ DeleteSource(u)
  PROVE  IInv'
<1>0. /\ {"begun", "scanned", "promoted", "verified", "evidenced", "saved", "persisted", "deleted"}
           \subseteq Working \ {"replaying"}
      /\ {"SCANNED_CLEAN", "VERIFIED", "PERSISTED"} \subseteq Stages \ {"NONE", "COMPLETED"}
      /\ files \in [Uploads -> {"absent", "quarantine", "clean"}]
      /\ uploads[u].phase \in {"saved", "persisted"} => u \in passports
  BY Types DEF Working, Stages, IInv, Typed, Coherent
<1>1. CASE Scan(u)
  BY <1>0, <1>1, GotoStep DEF Scan
<1>2. CASE Promote(u)
  BY <1>0, <1>2, GotoStep DEF Promote
<1>3. CASE Verify(u)
  BY <1>0, <1>3, GotoStep DEF Verify
<1>4. CASE RecordEvidence(u)
  BY <1>0, <1>4, GotoStep DEF RecordEvidence
<1>5. CASE Save(u)
  BY <1>0, <1>5, GotoStep DEF Save
<1>6. CASE MarkPersisted(u)
  <2>1. u \in passports
    BY <1>0, <1>6 DEF MarkPersisted, Goto
  <2>. QED
    BY <1>0, <1>6, <2>1, GotoStep DEF MarkPersisted
<1>7. CASE DeleteSource(u)
  <2>1. u \in passports /\ files'[u] = "absent"
    BY <1>0, <1>7 DEF DeleteSource, Goto
  <2>. QED
    BY <1>0, <1>7, <2>1, GotoStep DEF DeleteSource
<1>. QED
  BY <1>1, <1>2, <1>3, <1>4, <1>5, <1>6, <1>7

(* An accepted file.                                                         *)
LEMMA StoreStep ==
  ASSUME IInv, NEW u \in Uploads, NEW k \in Keys, NEW c \in Contents, Store(u, k, c)
  PROVE  IInv'
<1> DEFINE r == [uploads[u] EXCEPT !.phase = "stored", !.key = k, !.content = c]
<1>1. /\ uploads[u].phase = "new" /\ uploads' = [uploads EXCEPT ![u] = r]
      /\ files' = [files EXCEPT ![u] = "quarantine"]
      /\ UNCHANGED <<runs, passports, evidence, crashes>>
  BY DEF Store
<1>2. /\ uploads \in [Uploads -> UploadState] /\ files \in [Uploads -> {"absent", "quarantine", "clean"}]
      /\ Coherent(u)
  BY Types DEF IInv, Typed
<1>3. r \in UploadState
  BY ZenonT(60), <1>2 DEF UploadState, Phases
<1>4. r.phase = "stored" /\ r.key = k /\ r.owns = uploads[u].owns /\ r.answer = uploads[u].answer
  BY <1>2 DEF UploadState
<1> HIDE DEF r
<1>5. TypeOK'
  BY <1>1, <1>2, <1>3, Types DEF IInv, Typed
<1>6. ~r.owns /\ r.answer \notin Told /\ u \notin passports
  BY <1>1, <1>2, <1>4 DEF Coherent
<1>7. uploads'[u] = r
  BY <1>1, <1>2
<1>8. Coherent(u)'
  BY <1>4, <1>6, <1>7 DEF Coherent, Working
<1>9. \A v \in Uploads \ {u} : files'[v] = files[v]
  BY <1>1, <1>2
<1>10. r.answer # "CREATED" /\ ~uploads[u].owns
  BY <1>4, <1>6 DEF Told
<1>. QED
  BY <1>1, <1>3, <1>4, <1>5, <1>8, <1>9, <1>10, UploadStep

(* beginProcessing.                                                          *)
LEMMA BeginStep ==
  ASSUME IInv, NEW u \in Uploads, Begin(u)
  PROVE  IInv'
<1> DEFINE k == uploads[u].key
           replay == Replayable(runs[k])
           to == IF replay THEN "replaying" ELSE "begun"
           p == IF replay THEN runs[k].asset ELSE NoUpload
           r == [uploads[u] EXCEPT !.phase = to, !.owns = TRUE, !.passport = p]
           row == [stage |-> "QUARANTINED", asset |-> NoUpload, content |-> uploads[u].content]
<1>1. /\ uploads[u].phase = "stored" /\ ContentMatches(runs[k], uploads[u].content)
      /\ uploads' = [uploads EXCEPT ![u] = r]
      /\ runs' = IF runs[k].stage = "NONE" THEN [runs EXCEPT ![k] = row] ELSE runs
      /\ UNCHANGED <<files, passports, evidence, crashes>>
  BY DEF Begin
<1>2. /\ uploads \in [Uploads -> UploadState] /\ runs \in [Keys -> RunState] /\ Coherent(u)
      /\ uploads[u] \in UploadState
  BY Types DEF IInv, Typed
<1>3. k \in Keys /\ runs[k] \in RunState /\ p \in Uploads \cup {NoUpload} /\ to \in Phases
      /\ uploads[u].content \in Contents \cup {NoContent}
  BY <1>1, <1>2 DEF Coherent, RunState, UploadState, Phases
<1>4. to \in {"begun", "replaying"} /\ (to = "replaying" => replay /\ p = runs[k].asset)
  OBVIOUS
<1> HIDE DEF to, p
<1>5. r \in UploadState
  BY <1>2, <1>3 DEF UploadState
<1>6. /\ r.phase = to /\ r.owns = TRUE /\ r.passport = p /\ r.key = k
      /\ r.content = uploads[u].content /\ r.answer = uploads[u].answer
  BY <1>2 DEF UploadState
<1>7. row \in RunState /\ row.stage = "QUARANTINED" /\ row.content = uploads[u].content
  BY <1>3 DEF RunState, Stages
<1> HIDE DEF r, row, k, replay
<1>8. /\ runs' \in [Keys -> RunState]
      /\ \A i \in Keys \ {k} : runs'[i] = runs[i]
      /\ runs'[k].stage # "NONE" /\ runs'[k].content = uploads[u].content
      /\ runs[k].stage # "NONE" => runs'[k] = runs[k]
      /\ runs[k].stage = "NONE" => runs'[k].stage = "QUARANTINED"
      /\ runs[k].stage # "NONE" => runs[k].content = uploads[u].content
  BY <1>1, <1>2, <1>3, <1>7 DEF ContentMatches
<1>9. TypeOK'
  BY <1>1, <1>2, <1>5, <1>8, Types DEF IInv, Typed
<1>10. r.answer \notin Told
  BY <1>1, <1>2, <1>6 DEF Coherent
<1>11. uploads'[u] = r
  BY <1>1, <1>2
<1>12. to = "replaying" => Certified(u)'
  <2> SUFFICES ASSUME to = "replaying" PROVE Certified(u)'
    OBVIOUS
  <2>1. p = runs[k].asset /\ runs[k].stage = "COMPLETED"
    BY <1>4 DEF replay, Replayable
  <2>2. p \in passports /\ uploads[p].content = uploads[u].content
    BY <1>3, <1>8, <2>1 DEF IInv, CompletedRunHasPassport
  <2>3. uploads'[p].content = uploads[u].content /\ p \in passports'
    <3>1. p \in Uploads /\ passports' = passports
      BY <1>1, <2>2, Types DEF IInv, Typed
    <3>2. p = u \/ uploads'[p] = uploads[p]
      BY <1>1, <1>2, <3>1
    <3>. QED
      BY <1>6, <1>11, <2>2, <3>1, <3>2
  <2>. QED
    BY <1>6, <1>11, <2>3 DEF Certified
<1>13. Coherent(u)'
  BY <1>3, <1>4, <1>6, <1>8, <1>10, <1>11, <1>12 DEF Coherent
<1>14. r.phase # "new" /\ r.answer # "CREATED" /\ uploads[u].phase \notin {"new", "answered"}
  BY <1>1, <1>4, <1>6, <1>10 DEF Told
<1>15. \A i \in Keys :
           \/ runs'[i] = runs[i]
           \/ /\ i = r.key /\ r.owns
              /\ runs'[i].stage # "NONE" /\ runs'[i].content = r.content
              /\ runs[i].stage # "NONE" => runs[i].content = r.content
              /\ runs'[i].stage = "COMPLETED" => runs'[i].asset = u /\ u \in passports'
  <2> SUFFICES ASSUME NEW i \in Keys, runs'[i] # runs[i]
               PROVE  /\ i = r.key /\ r.owns
                      /\ runs'[i].stage # "NONE" /\ runs'[i].content = r.content
                      /\ runs[i].stage = "NONE" /\ runs'[i].stage # "COMPLETED"
    OBVIOUS
  <2>1. i = k
    BY <1>8
  <2>. QED
    BY <1>6, <1>8, <2>1
<1>16. r.key = uploads[u].key
  BY <1>6 DEF k
<1>. QED
  BY <1>1, <1>5, <1>6, <1>9, <1>13, <1>14, <1>15, <1>16, UploadStep

-----------------------------------------------------------------------------
(* An upload that leaves its passport and its run alone, answered or not.    *)
LEMMA LeaveStep ==
  ASSUME IInv, TypeOK', NEW u \in Uploads, NEW r \in UploadState,
         uploads' = [uploads EXCEPT ![u] = r],
         uploads[u].phase \notin {"new", "answered"},
         r.phase \in {"failing", "answered", "dead"}, r.answer # "CREATED",
         r.key = uploads[u].key, r.content = uploads[u].content, r.owns = uploads[u].owns,
         r.answer = "REPLAYED" => r.phase = "answered" /\ r.owns /\ Certified(u)',
         \A v \in Uploads \ {u} : files'[v] = files[v],
         r.phase = "failing" \/ (r.phase = "answered" /\ r.answer # "REPLAYED") => files'[u] = "absent",
         UNCHANGED passports,
         \/ UNCHANGED runs
         \/ uploads[u].owns /\ Mark(u, "FAILED")
  PROVE  IInv'
<1>1. uploads'[u] = r /\ Coherent(u)
  BY Types DEF IInv, Typed
<1>2. \/ runs' = runs
      \/ /\ r.owns /\ r.key \in Keys
         /\ \A k \in Keys \ {r.key} : runs'[k] = runs[k]
         /\ runs'[r.key].stage = "FAILED"
         /\ runs'[r.key].content = r.content /\ runs[r.key].content = r.content
  <2>1. CASE UNCHANGED runs
    BY <2>1
  <2>2. CASE uploads[u].owns /\ Mark(u, "FAILED")
    <3>1. "FAILED" \in Stages \ {"NONE"}
      BY DEF Stages
    <3>2. /\ \A k \in Keys \ {uploads[u].key} : runs'[k] = runs[k]
          /\ uploads[u].key \in Keys
          /\ runs'[uploads[u].key].stage = "FAILED"
          /\ runs'[uploads[u].key].content = uploads[u].content
          /\ runs[uploads[u].key].content = uploads[u].content
      BY <2>2, <3>1, MarkFacts
    <3>. QED
      BY <2>2, <3>2
  <2>. QED
    BY <2>1, <2>2
<1>3. r.owns => r.key \in Keys /\ runs'[r.key].stage # "NONE" /\ runs'[r.key].content = r.content
  BY <1>1, <1>2 DEF Coherent
<1>4. Coherent(u)'
  BY <1>1, <1>3 DEF Coherent, Working, Told
<1>5. \A k \in Keys :
           \/ runs'[k] = runs[k]
           \/ /\ k = r.key /\ r.owns
              /\ runs'[k].stage # "NONE" /\ runs'[k].content = r.content
              /\ runs[k].stage # "NONE" => runs[k].content = r.content
              /\ runs'[k].stage = "COMPLETED" => runs'[k].asset = u /\ u \in passports'
  BY <1>2
<1>. QED
  BY <1>4, <1>5, UploadStep

LEMMA ReplayStep ==
  ASSUME IInv, NEW u \in Uploads, Replay(u)
  PROVE  IInv'
<1> DEFINE r == [uploads[u] EXCEPT !.phase = "answered", !.answer = "REPLAYED", !.passport = uploads[u].passport]
<1>1. /\ uploads[u].phase = "replaying" /\ uploads' = [uploads EXCEPT ![u] = r]
      /\ UNCHANGED <<runs, files, passports, evidence, crashes>>
  BY DEF Replay, Reply
<1>2. uploads \in [Uploads -> UploadState] /\ uploads[u] \in UploadState /\ Coherent(u)
  BY Types DEF IInv, Typed
<1>3. r \in UploadState
  BY <1>2 DEF UploadState, Phases, Answers
<1>4. /\ r.phase = "answered" /\ r.answer = "REPLAYED" /\ r.passport = uploads[u].passport
      /\ r.key = uploads[u].key /\ r.content = uploads[u].content /\ r.owns = uploads[u].owns
  BY <1>2 DEF UploadState
<1> HIDE DEF r
<1>5. TypeOK'
  BY <1>1, <1>2, <1>3, Types DEF IInv, Typed
<1>6. r.owns /\ Certified(u)
  BY <1>1, <1>2, <1>4 DEF Coherent, Working
<1>7. Certified(u)'
  <2>1. /\ uploads'[u].passport = uploads[u].passport
        /\ \A v \in Uploads : uploads'[v].content = uploads[v].content
    BY <1>1, <1>2, <1>4
  <2>2. uploads[u].passport \in Uploads
    BY <1>6, Types DEF IInv, Typed, Certified
  <2>. QED
    BY <1>1, <1>6, <2>1, <2>2 DEF Certified
<1>. QED
  BY <1>1, <1>3, <1>4, <1>5, <1>6, <1>7, LeaveStep

LEMMA ThrowStep ==
  ASSUME IInv, NEW u \in Uploads, NEW answer \in {"MALWARE_DETECTED", "VERIFICATION_UNAVAILABLE"},
         Throw(u, answer)
  PROVE  IInv'
<1> DEFINE r == [uploads[u] EXCEPT !.phase = "failing", !.answer = answer]
<1>1. /\ uploads[u].phase \notin {"new", "answered"} /\ uploads' = [uploads EXCEPT ![u] = r]
      /\ files' = [files EXCEPT ![u] = "absent"]
      /\ UNCHANGED <<runs, passports, evidence, crashes>>
  BY DEF Throw, Cleanup
<1>2. /\ uploads \in [Uploads -> UploadState] /\ uploads[u] \in UploadState /\ Coherent(u)
      /\ files \in [Uploads -> {"absent", "quarantine", "clean"}]
  BY Types DEF IInv, Typed
<1>3. r \in UploadState
  BY <1>2 DEF UploadState, Phases, Answers
<1>4. /\ r.phase = "failing" /\ r.answer = answer
      /\ r.key = uploads[u].key /\ r.content = uploads[u].content /\ r.owns = uploads[u].owns
  BY <1>2 DEF UploadState
<1> HIDE DEF r
<1>5. TypeOK'
  BY <1>1, <1>2, <1>3, Types DEF IInv, Typed
<1>6. files'[u] = "absent" /\ \A v \in Uploads \ {u} : files'[v] = files[v]
  BY <1>1, <1>2
<1>. QED
  BY <1>1, <1>3, <1>4, <1>5, <1>6, LeaveStep

LEMMA SettleStep ==
  ASSUME IInv, NEW u \in Uploads, Settle(u)
  PROVE  IInv'
<1> DEFINE r == [uploads[u] EXCEPT !.phase = "answered", !.answer = uploads[u].answer, !.passport = NoUpload]
<1>1. /\ uploads[u].phase = "failing" /\ uploads' = [uploads EXCEPT ![u] = r]
      /\ UNCHANGED runs \/ (uploads[u].owns /\ Mark(u, "FAILED"))
      /\ UNCHANGED <<files, passports, evidence, crashes>>
  BY DEF Settle, Reply
<1>2. /\ uploads \in [Uploads -> UploadState] /\ uploads[u] \in UploadState /\ Coherent(u)
      /\ runs \in [Keys -> RunState]
  BY Types DEF IInv, Typed
<1>3. r \in UploadState
  BY <1>2 DEF UploadState, Phases
<1>4. /\ r.phase = "answered" /\ r.answer = uploads[u].answer
      /\ r.key = uploads[u].key /\ r.content = uploads[u].content /\ r.owns = uploads[u].owns
  BY <1>2 DEF UploadState
<1> HIDE DEF r
<1>5. runs' \in [Keys -> RunState]
  <2>1. "FAILED" \in Stages \ {"NONE"}
    BY DEF Stages
  <2>. QED
    BY <1>1, <1>2, <2>1, MarkFacts
<1>6. TypeOK'
  BY <1>1, <1>2, <1>3, <1>5, Types DEF IInv, Typed
<1>7. r.answer \notin Told /\ files'[u] = "absent"
  BY <1>1, <1>2, <1>4 DEF Coherent
<1>8. r.answer \notin {"CREATED", "REPLAYED"}
  BY <1>7 DEF Told
<1>. QED
  BY <1>1, <1>3, <1>4, <1>6, <1>7, <1>8, LeaveStep

LEMMA CrashStep ==
  ASSUME IInv, NEW u \in Uploads, Crash(u)
  PROVE  IInv'
<1> DEFINE r == [uploads[u] EXCEPT !.phase = "dead"]
<1>1. /\ uploads[u].phase \notin {"new", "answered"} /\ uploads' = [uploads EXCEPT ![u] = r]
      /\ crashes < MaxCrashes /\ crashes' = crashes + 1
      /\ UNCHANGED <<runs, files, passports, evidence>>
  BY DEF Crash
<1>2. /\ uploads \in [Uploads -> UploadState] /\ uploads[u] \in UploadState /\ Coherent(u)
      /\ crashes \in 0..MaxCrashes
  BY Types DEF IInv, Typed
<1>3. r \in UploadState
  BY <1>2 DEF UploadState, Phases
<1>4. /\ r.phase = "dead" /\ r.answer = uploads[u].answer
      /\ r.key = uploads[u].key /\ r.content = uploads[u].content /\ r.owns = uploads[u].owns
  BY <1>2 DEF UploadState
<1> HIDE DEF r
<1>5. TypeOK'
  <2>1. crashes' \in 0..MaxCrashes
    BY <1>1, <1>2, ConstantsOK
  <2>. QED
    BY <1>1, <1>2, <1>3, <2>1, Types DEF IInv, Typed
<1>6. r.answer \notin {"CREATED", "REPLAYED"}
  BY <1>1, <1>2, <1>4 DEF Coherent, Told
<1>. QED
  BY <1>1, <1>3, <1>4, <1>5, <1>6, LeaveStep

(* The last mark and the 201 answer.                                         *)
LEMMA MarkCompletedStep ==
  ASSUME IInv, NEW u \in Uploads, MarkCompleted(u)
  PROVE  IInv'
<1> DEFINE r == [uploads[u] EXCEPT !.phase = "answered", !.answer = "CREATED", !.passport = u]
           k == uploads[u].key
<1>1. /\ uploads[u].phase = "deleted" /\ uploads' = [uploads EXCEPT ![u] = r]
      /\ Mark(u, "COMPLETED")
      /\ UNCHANGED <<files, passports, evidence, crashes>>
  BY DEF MarkCompleted, Reply
<1>2. /\ uploads \in [Uploads -> UploadState] /\ uploads[u] \in UploadState /\ Coherent(u)
      /\ u \in passports /\ uploads[u].owns /\ files[u] = "absent"
  BY <1>1, Types DEF IInv, Typed, Coherent, Working
<1>3. r \in UploadState
  BY <1>2 DEF UploadState, Phases, Answers
<1>4. /\ r.phase = "answered" /\ r.answer = "CREATED" /\ r.passport = u
      /\ r.key = k /\ r.content = uploads[u].content /\ r.owns
  BY <1>2 DEF UploadState
<1>5. /\ runs' \in [Keys -> RunState]
      /\ \A i \in Keys \ {k} : runs'[i] = runs[i]
      /\ k \in Keys
      /\ runs'[k].stage = "COMPLETED" /\ runs'[k].asset = u
      /\ runs'[k].content = uploads[u].content /\ runs[k].content = uploads[u].content
  <2>1. "COMPLETED" \in Stages \ {"NONE"}
    BY DEF Stages
  <2>. QED
    BY <1>1, <1>2, <2>1, MarkFacts
<1> HIDE DEF r
<1>6. TypeOK'
  BY <1>1, <1>2, <1>3, <1>5, Types DEF IInv, Typed
<1>7. uploads'[u] = r
  BY <1>1, <1>2
<1>8. Certified(u)'
  BY <1>1, <1>2, <1>4, <1>7 DEF Certified
<1>9. Coherent(u)'
  BY <1>1, <1>2, <1>4, <1>5, <1>7, <1>8 DEF Coherent, Working
<1>10. Replayable(runs'[r.key])
  BY <1>4, <1>5, ConstantsOK DEF Replayable
<1>11. \A i \in Keys :
           \/ runs'[i] = runs[i]
           \/ /\ i = r.key /\ r.owns
              /\ runs'[i].stage # "NONE" /\ runs'[i].content = r.content
              /\ runs[i].stage # "NONE" => runs[i].content = r.content
              /\ runs'[i].stage = "COMPLETED" => runs'[i].asset = u /\ u \in passports'
  BY <1>1, <1>2, <1>4, <1>5
<1>. QED
  BY <1>1, <1>3, <1>4, <1>6, <1>9, <1>10, <1>11, UploadStep

-----------------------------------------------------------------------------
LEMMA Initially == Init => IInv
<1> SUFFICES ASSUME Init PROVE IInv
  OBVIOUS
<1>1. /\ \A k \in Keys : runs[k] = NoRun
      /\ \A u \in Uploads : uploads[u] = [phase |-> "new", key |-> NoKey, content |-> NoContent,
                                         owns |-> FALSE, answer |-> "NONE", passport |-> NoUpload]
      /\ passports = {}
  BY DEF Init
<1>2. TypeOK
  <2>1. NoRun \in RunState
    BY DEF NoRun, RunState, Stages
  <2>2. [phase |-> "new", key |-> NoKey, content |-> NoContent,
         owns |-> FALSE, answer |-> "NONE", passport |-> NoUpload] \in UploadState
    BY DEF UploadState, Phases, Answers
  <2>3. 0 \in 0..MaxCrashes
    BY ConstantsOK
  <2>. QED
    BY <2>1, <2>2, <2>3, Types DEF Init, Typed
<1>3. \A u \in Uploads : Coherent(u) /\ Remembered(u)
  BY <1>1 DEF Coherent, Remembered, Working, Told
<1>4. CompletedRunHasPassport
  BY <1>1 DEF CompletedRunHasPassport, NoRun
<1>. QED
  BY <1>2, <1>3, <1>4 DEF IInv

LEMMA Inductive == IInv /\ [Next]_vars => IInv'
<1> SUFFICES ASSUME IInv, [Next]_vars PROVE IInv'
  OBVIOUS
<1>1. CASE UNCHANGED vars
  <2>1. TypeOK'
    BY <1>1, Types DEF IInv, Typed, vars
  <2>2. \A u \in Uploads : Coherent(u)' /\ Remembered(u)'
    BY <1>1 DEF IInv, Coherent, Certified, Remembered, vars
  <2>. QED
    BY <1>1, <2>1, <2>2 DEF IInv, CompletedRunHasPassport, vars
<1>2. CASE \E u \in Uploads, k \in Keys, c \in Contents : Store(u, k, c)
  BY <1>2, StoreStep
<1>3. ASSUME NEW u \in Uploads, Begin(u) \/ Replay(u) \/ MarkCompleted(u) \/ Settle(u) \/ Crash(u)
      PROVE  IInv'
  BY <1>3, BeginStep, ReplayStep, MarkCompletedStep, SettleStep, CrashStep
<1>4. ASSUME NEW u \in Uploads,
             \/ Scan(u) \/ Promote(u) \/ Verify(u) \/ RecordEvidence(u)
             \/ Save(u) \/ MarkPersisted(u) \/ DeleteSource(u)
      PROVE  IInv'
  BY <1>4, PipelineStep
<1>5. CASE \E u \in Uploads, answer \in {"MALWARE_DETECTED", "VERIFICATION_UNAVAILABLE"} : Throw(u, answer)
  BY <1>5, ThrowStep
<1>. QED
  BY <1>1, <1>2, <1>3, <1>4, <1>5 DEF Next

-----------------------------------------------------------------------------
(* Every reachable state satisfies the inductive invariant.                  *)
THEOREM Invariance == Spec => []IInv
  BY Initially, Inductive, PTL DEF Spec

(* Rows, requests and files keep their types.                                *)
THEOREM TypeCorrect == Spec => []TypeOK
<1>1. IInv => TypeOK
  BY DEF IInv
<1>. QED
  BY <1>1, Invariance, PTL

(* A completed run names a passport of the content its key was first used    *)
(* for, however rivals interleave (server.ts:259-268).                       *)
THEOREM CompletedRuns == Spec => []CompletedRunHasPassport
<1>1. IInv => CompletedRunHasPassport
  BY DEF IInv
<1>. QED
  BY <1>1, Invariance, PTL

(* A passport in an answer is persisted and certifies what was sent.         *)
THEOREM AnsweredPassports == Spec => []AnsweredPassportIsReal
<1>1. IInv => AnsweredPassportIsReal
  BY DEF IInv, Coherent, Certified, Told, AnsweredPassportIsReal
<1>. QED
  BY <1>1, Invariance, PTL

(* No failed or finished upload leaves media on disk.                        *)
THEOREM NothingLeftBehind == Spec => []NoMediaAfterProcessing
<1>1. IInv => NoMediaAfterProcessing
  BY DEF IInv, Coherent, NoMediaAfterProcessing
<1>. QED
  BY <1>1, Invariance, PTL

(* A second passport under a key takes a rival request.                      *)
THEOREM Repetition == Spec => RepeatedOnlyAfterRival
<1>1. IInv /\ [Next]_vars =>
        [\A u, v \in Uploads :
           /\ uploads[u].phase = "stored" /\ uploads'[u].phase = "begun"
           /\ uploads[v].answer = "CREATED" /\ uploads[v].key = uploads[u].key
           => \E w \in Uploads \ {u, v} : uploads[w].key = uploads[u].key /\ uploads[w].owns]_vars
  <2> SUFFICES ASSUME IInv, [Next]_vars, NEW u \in Uploads, NEW v \in Uploads,
                      uploads[u].phase = "stored", uploads'[u].phase = "begun",
                      uploads[v].answer = "CREATED", uploads[v].key = uploads[u].key
               PROVE  \E w \in Uploads \ {u, v} : uploads[w].key = uploads[u].key /\ uploads[w].owns
    OBVIOUS
  <2>1. ~uploads[u].owns
    BY DEF IInv, Coherent
  <2>2. CASE ~Replayable(runs[uploads[u].key])
    BY <2>1, <2>2 DEF IInv, Remembered
  <2>3. CASE Replayable(runs[uploads[u].key])
    <3>1. ~Begin(u)
      BY <2>3, Types DEF Begin, IInv, Typed, UploadState
    <3>2. uploads \in [Uploads -> UploadState]
      BY Types DEF IInv, Typed
    <3>3. ASSUME NEW w \in Uploads, Begin(w)
          PROVE  FALSE
      <4>1. w # u
        BY <3>1, <3>3
      <4>. QED
        BY <3>2, <3>3, <4>1 DEF Begin
    <3>4. ASSUME NEW w \in Uploads, NEW from, NEW to, from # "stored", Goto(w, from, to)
          PROVE  FALSE
      BY <3>2, <3>4 DEF Goto
    <3>5. ASSUME NEW w \in Uploads,
                 \/ Scan(w) \/ Promote(w) \/ Verify(w) \/ RecordEvidence(w)
                 \/ Save(w) \/ MarkPersisted(w) \/ DeleteSource(w)
          PROVE  FALSE
      BY <3>4, <3>5 DEF Scan, Promote, Verify, RecordEvidence, Save, MarkPersisted, DeleteSource
    <3>6. ASSUME NEW w \in Uploads, Replay(w) \/ MarkCompleted(w) \/ Settle(w)
          PROVE  FALSE
      BY <3>2, <3>6 DEF Replay, MarkCompleted, Settle, Reply
    <3>7. ASSUME NEW w \in Uploads,
                 \/ Crash(w) \/ \E k \in Keys, c \in Contents : Store(w, k, c)
                 \/ \E answer \in {"MALWARE_DETECTED", "VERIFICATION_UNAVAILABLE"} : Throw(w, answer)
          PROVE  FALSE
      <4>1. CASE Crash(w)
        BY <3>2, <4>1 DEF Crash
      <4>2. ASSUME NEW k \in Keys, NEW c \in Contents, Store(w, k, c)
            PROVE  FALSE
        BY <3>2, <4>2 DEF Store
      <4>3. ASSUME NEW answer, Throw(w, answer)
            PROVE  FALSE
        BY <3>2, <4>3 DEF Throw
      <4>. QED
        BY <3>7, <4>1, <4>2, <4>3
    <3>. QED
      BY <3>3, <3>5, <3>6, <3>7 DEF Next, vars
  <2>. QED
    BY <2>2, <2>3
<1>. QED
  BY <1>1, Invariance, PTL DEF Spec, RepeatedOnlyAfterRival
=============================================================================
