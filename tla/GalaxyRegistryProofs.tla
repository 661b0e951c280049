------------------------ MODULE GalaxyRegistryProofs ------------------------
(***************************************************************************)
(* For any messages, requests, writers, rows and skew: a signed message is   *)
(* admitted again only after its replay record has expired, a snapshot of    *)
(* the past is settled once the transactions of its time are over,           *)
(* provenance closes no cycle but through edges in flight together, and the  *)
(* graph is whole.                                                           *)
(***************************************************************************)
EXTENDS GalaxyRegistry, TLAPS

IngestState == [at : {"new", "done"}] \cup [at : {"checked", "accepted"}, message : Messages]

(* A message once admitted is on record until its record expires.            *)
AdmittedOnRecord ==
  \A a \in accepted : a.message \in Messages /\ (a.message \in replay \/ Expires(a.message) < now)

ReplayInv ==
  /\ now \in Nat
  /\ ingest \in [Requests -> IngestState]
  /\ AdmittedOnRecord
  /\ ReplayRefusedUntilExpiry

LEMMA ExpiresType == \A m \in Messages : Expires(m) \in Int
  BY SkewOK, MessagesOK DEF Expires

LEMMA AcceptStep ==
  ASSUME ReplayInv, NEW q \in Requests, AcceptIngress(q), UNCHANGED graphVars
  PROVE  ReplayInv'
<1> DEFINE m == ingest[q].message
           admission == [message |-> m, by |-> q, expired |-> Expires(m) < now]
<1>1. ingest[q].at = "checked" /\ ingest[q] \in IngestState /\ now' = now /\ now \in Nat
  BY DEF AcceptIngress, ReplayInv, graphVars
<1>2. m \in Messages
  BY <1>1 DEF IngestState
<1>3. CASE m \in OnRecord
  <2>1. replay' = OnRecord /\ accepted' = accepted /\ ingest' = [ingest EXCEPT ![q] = Done]
    BY <1>3 DEF AcceptIngress
  <2>2. ingest' \in [Requests -> IngestState]
    BY <2>1 DEF ReplayInv, Done, IngestState
  <2>3. AdmittedOnRecord'
    BY <1>1, <2>1 DEF ReplayInv, AdmittedOnRecord, OnRecord, Expires
  <2>. QED
    BY <1>1, <2>1, <2>2, <2>3 DEF ReplayInv, ReplayRefusedUntilExpiry
<1>4. CASE m \notin OnRecord
  <2>1. /\ replay' = OnRecord \cup {m}
        /\ accepted' = accepted \cup {admission}
        /\ ingest' = [ingest EXCEPT ![q] = [ingest[q] EXCEPT !.at = "accepted"]]
    BY <1>4 DEF AcceptIngress
  <2>2. ingest' \in [Requests -> IngestState]
    <3>1. [ingest[q] EXCEPT !.at = "accepted"] \in IngestState
      BY <1>1 DEF IngestState
    <3>. QED
      BY <2>1, <3>1 DEF ReplayInv
  <2>3. admission.message = m /\ (admission.expired <=> Expires(m) < now)
    OBVIOUS
  <2> HIDE DEF admission, m
  <2>4. AdmittedOnRecord'
    BY <1>1, <1>2, <2>1, <2>3 DEF ReplayInv, AdmittedOnRecord, OnRecord, Expires
  <2>5. \A a \in accepted : a.message = m => admission.expired
    BY <1>4, <2>3 DEF ReplayInv, AdmittedOnRecord, OnRecord
  <2>6. ReplayRefusedUntilExpiry'
    BY <2>1, <2>3, <2>5 DEF ReplayInv, ReplayRefusedUntilExpiry
  <2>. QED
    BY <1>1, <2>2, <2>4, <2>6 DEF ReplayInv
<1>. QED
  BY <1>3, <1>4

LEMMA ReplayStep == ReplayInv /\ [GalaxyNext]_galaxyVars => ReplayInv'
<1> SUFFICES ASSUME ReplayInv, [GalaxyNext]_galaxyVars PROVE ReplayInv'
  OBVIOUS
<1>1. CASE UNCHANGED registryVars /\ now' \in {now, now + 1}
  <2>1. now' \in Nat /\ now <= now'
    BY <1>1 DEF ReplayInv
  <2>2. AdmittedOnRecord'
    <3> SUFFICES ASSUME NEW a \in accepted, a.message \notin replay
                 PROVE  a.message \in Messages /\ Expires(a.message) < now'
      BY <1>1 DEF ReplayInv, AdmittedOnRecord, registryVars, Expires
    <3>1. a.message \in Messages /\ Expires(a.message) < now /\ Expires(a.message) \in Int
      BY ExpiresType DEF ReplayInv, AdmittedOnRecord
    <3>. QED
      BY <2>1, <3>1 DEF ReplayInv
  <2>. QED
    BY <1>1, <2>1, <2>2 DEF ReplayInv, ReplayRefusedUntilExpiry, registryVars
<1>2. CASE GraphNext /\ UNCHANGED registryVars
  BY <1>1, <1>2 DEF GraphNext, Request, Begin, Insert, Commit, Lost, Tick
<1>3. ASSUME NEW w \in Writers, NEW i \in catalog, ImportStar(w, i), UNCHANGED registryVars
      PROVE  ReplayInv'
  BY <1>1, <1>3 DEF ImportStar
<1>4. ASSUME NEW q \in Requests, NEW m \in Messages, Check(q, m), UNCHANGED graphVars
      PROVE  ReplayInv'
  <2>1. [at |-> "checked", message |-> m] \in IngestState
    BY DEF IngestState
  <2>2. ingest' \in [Requests -> IngestState]
    BY <1>4, <2>1 DEF Check, ReplayInv
  <2>. QED
    BY <1>4, <2>2 DEF Check, ReplayInv, graphVars, AdmittedOnRecord, ReplayRefusedUntilExpiry, Expires
<1>5. ASSUME NEW q \in Requests, Ingest(q) \/ RequestDies(q), UNCHANGED graphVars
      PROVE  ReplayInv'
  <2>1. ingest' = [ingest EXCEPT ![q] = Done] /\ replay' = replay /\ accepted' = accepted
    BY <1>5 DEF Ingest, RequestDies
  <2>2. ingest' \in [Requests -> IngestState]
    BY <2>1 DEF Done, IngestState, ReplayInv
  <2>. QED
    BY <1>5, <2>1, <2>2 DEF ReplayInv, graphVars, AdmittedOnRecord, ReplayRefusedUntilExpiry, Expires
<1>6. CASE UNCHANGED galaxyVars
  BY <1>1, <1>6 DEF galaxyVars, registryVars
<1>7. CASE IngressNext /\ UNCHANGED graphVars
  BY <1>4, <1>5, <1>7, AcceptStep DEF IngressNext
<1>. QED
  BY <1>2, <1>3, <1>6, <1>7 DEF GalaxyNext

(* Whatever requests wait or die, no message is admitted twice before its    *)
(* replay record expires (galaxy-registry.ts:39-47).                         *)
THEOREM ReplayRefused == GalaxySpec => []ReplayRefusedUntilExpiry
<1>1. GalaxyInit => ReplayInv
  BY DEF GalaxyInit, GraphInit, ReplayInv, New, IngestState, AdmittedOnRecord, ReplayRefusedUntilExpiry
<1>2. ReplayInv => ReplayRefusedUntilExpiry
  BY DEF ReplayInv
<1>. QED
  BY <1>1, <1>2, ReplayStep, PTL DEF GalaxySpec

-----------------------------------------------------------------------------
(* Past snapshots.  The invariant: a row about to be committed is known as   *)
(* of the moment its transaction began, and entities have their columns.     *)
StoredRow(g) ==
  /\ g = [row |-> g.row, known |-> g.known, saw |-> g.saw]
  /\ g.known \in Nat
  /\ g.row.table = "entity" => g.row \in Entity

TxOK(w) ==
  /\ tx[w].at \in {"looked", "open"} => tx[w].row \in Rows
  /\ Open(w) => tx[w].began \in Nat
  /\ tx[w].at = "inserted" => StoredRow(tx[w].new) /\ tx[w].new.known = tx[w].began

Items == {m.item : m \in Messages}

GraphInv ==
  /\ now \in Nat
  /\ \A g \in graph : StoredRow(g)
  /\ tx = [w \in Writers |-> tx[w]] /\ \A w \in Writers : TxOK(w)
  /\ ingest \in [Requests -> IngestState]
  /\ catalog \subseteq Items

LEMMA StampedFacts ==
  ASSUME NEW r, NEW t \in Nat, r.table = "entity" => r \in Entity
  PROVE  StoredRow(Stamped(r, t)) /\ Stamped(r, t).known = t /\ Stamped(r, t).row = r
  BY DEF StoredRow, Stamped

LEMMA ObservedAgainFacts ==
  ASSUME NEW h, StoredRow(h), h.row \in Entity, NEW r, r.last \in Nat
  PROVE  /\ StoredRow(ObservedAgain(h, r))
         /\ ObservedAgain(h, r).known = h.known
         /\ ObservedAgain(h, r).row \in Entity
         /\ ObservedAgain(h, r).row.source = h.row.source
         /\ ObservedAgain(h, r).row.key = h.row.key
         /\ ObservedAgain(h, r).row.first = h.row.first
<1> DEFINE row == [h.row EXCEPT !.last = r.last]
           g == [row |-> row, known |-> h.known, saw |-> h.saw]
<1>1. /\ row \in Entity /\ row.source = h.row.source /\ row.key = h.row.key /\ row.first = h.row.first
  BY DEF Entity
<1>2. CASE r.last > h.row.last
  <2>1. ObservedAgain(h, r) = g
    BY <1>2 DEF ObservedAgain, StoredRow
  <2> HIDE DEF row
  <2>. QED
    BY <1>1, <2>1 DEF StoredRow
<1>3. CASE ~(r.last > h.row.last)
  BY <1>3 DEF ObservedAgain
<1>. QED
  BY <1>2, <1>3

(* A row known later than t does not show at t.                              *)
LEMMA AddedLater ==
  ASSUME GraphInv, NEW t \in Nat, NEW g, g.known \in Nat, g.known > t, graph' = graph \cup {g}
  PROVE  Snapshot(t)' = Snapshot(t)
<1>1. EntitiesAt(t)' = EntitiesAt(t)
  BY DEF EntitiesAt, Stored
<1>2. Shown(t)' = Shown(t)
  BY <1>1 DEF Shown
<1>3. RelationshipsAt(t)' = RelationshipsAt(t)
  BY <1>1 DEF RelationshipsAt, Stored
<1>4. EventsAt(t)' = EventsAt(t)
  BY <1>1, <1>3 DEF EventsAt, Stored
<1>. QED
  BY <1>2, <1>3, <1>4 DEF Snapshot

(* An entity observed again shows as before.                                 *)
LEMMA Reobserved ==
  ASSUME GraphInv, NEW t \in Nat, NEW r, r.last \in Nat, NEW old \in SUBSET Stored("entity"),
         graph' = (graph \ old) \cup {ObservedAgain(h, r) : h \in old}
  PROVE  Snapshot(t)' = Snapshot(t)
<1> DEFINE again(h) == IF h \in old THEN ObservedAgain(h, r) ELSE h
<1>1. /\ \A h \in Stored("entity") :
           /\ again(h).row \in Entity /\ again(h).known = h.known
           /\ again(h).row.source = h.row.source /\ again(h).row.key = h.row.key
           /\ again(h).row.first = h.row.first
      /\ \A h \in graph : h.row.table # "entity" => again(h) = h
  <2>1. \A h \in Stored("entity") : StoredRow(h) /\ h.row \in Entity
    BY DEF GraphInv, Stored, StoredRow
  <2>2. \A h \in graph : h.row.table # "entity" => h \notin old
    BY DEF Stored
  <2>. QED
    BY <2>1, <2>2, ObservedAgainFacts
<1>2. graph' = {again(h) : h \in graph}
  BY DEF Stored
<1> HIDE DEF again
<1>3. Stored("entity")' = {again(h) : h \in Stored("entity")}
  BY <1>1, <1>2 DEF Stored, Entity
<1>4. EntitiesAt(t)' = {again(h) : h \in EntitiesAt(t)}
  BY <1>1, <1>3 DEF EntitiesAt
<1>5. EntitiesAt(t) \subseteq Stored("entity")
  BY DEF EntitiesAt
<1>6. Shown(t)' = Shown(t)
  <2>1. Shown(t)' = {<<again(h).row.source, again(h).row.key, again(h).row.first, again(h).known>> : h \in EntitiesAt(t)}
    BY <1>4 DEF Shown
  <2>. QED
    BY <1>1, <1>5, <2>1 DEF Shown
<1>7. {e.row.key : e \in EntitiesAt(t)}' = {e.row.key : e \in EntitiesAt(t)}
  <2>1. {e.row.key : e \in EntitiesAt(t)}' = {again(h).row.key : h \in EntitiesAt(t)}
    BY <1>4
  <2>. QED
    BY <1>1, <1>5, <2>1
<1>8. \A table \in {"relationship", "event"} : Stored(table)' = Stored(table)
  BY <1>1, <1>2 DEF Stored, Entity
<1>9. RelationshipsAt(t)' = RelationshipsAt(t)
  BY <1>7, <1>8 DEF RelationshipsAt
<1>10. EventsAt(t)' = EventsAt(t)
  BY <1>7, <1>8, <1>9 DEF EventsAt
<1>. QED
  BY <1>6, <1>9, <1>10 DEF Snapshot

(* What a commit does to the graph.                                          *)
LEMMA CommitFacts ==
  ASSUME GraphInv, NEW w \in Writers, Commit(w)
  PROVE  /\ StoredRow(tx[w].new) /\ tx[w].new.known = tx[w].began
         /\ \/ graph' = graph
            \/ graph' = graph \cup {tx[w].new}
            \/ \E old \in SUBSET Stored("entity") :
                 /\ tx[w].new.row \in Entity
                 /\ graph' = (graph \ old) \cup {ObservedAgain(h, tx[w].new.row) : h \in old}
<1> DEFINE g == tx[w].new
           old == {h \in Stored("entity") : SameIdentity(h.row, g.row)}
           again == {ObservedAgain(h, g.row) : h \in old}
<1>1. StoredRow(g) /\ g.known = tx[w].began
  BY DEF GraphInv, TxOK, Commit
<1>2. CASE IsStar(g.row)
  <2>1. g.row \in Entity
    BY <1>1, <1>2 DEF IsStar, StoredRow
  <2>2. graph' = UpsertStar(g)
    BY <1>2 DEF Commit
  <2>3. old \subseteq Stored("entity")
    OBVIOUS
  <2> HIDE DEF g
  <2>4. CASE old = {}
    BY <1>1, <2>2, <2>4 DEF UpsertStar, g
  <2>5. CASE old # {}
    <3>1. graph' \in {graph, (graph \ old) \cup again}
      BY <2>2, <2>5 DEF UpsertStar
    <3>. QED
      BY <1>1, <2>1, <2>3, <3>1 DEF g
  <2>. QED
    BY <2>4, <2>5
<1>3. CASE ~IsStar(g.row)
  BY <1>1, <1>3 DEF Commit, WithRow
<1>. QED
  BY <1>2, <1>3

LEMMA Settled ==
  ASSUME GraphInv, [GalaxyNext]_galaxyVars, NEW t \in Nat,
         \A w \in Writers : Open(w) => tx[w].began > t
  PROVE  Snapshot(t)' = Snapshot(t)
<1>1. CASE graph' = graph
  BY <1>1 DEF Snapshot, Shown, EntitiesAt, RelationshipsAt, EventsAt, Stored
<1>2. ASSUME NEW w \in Writers, Commit(w)
      PROVE  Snapshot(t)' = Snapshot(t)
  <2>1. tx[w].began > t /\ tx[w].began \in Nat
    BY <1>2 DEF Open, Commit, GraphInv, TxOK
  <2>2. \A old \in SUBSET Stored("entity") :
          tx[w].new.row \in Entity /\ graph' = (graph \ old) \cup {ObservedAgain(h, tx[w].new.row) : h \in old}
            => Snapshot(t)' = Snapshot(t)
    <3> SUFFICES ASSUME NEW old \in SUBSET Stored("entity"), tx[w].new.row \in Entity,
                        graph' = (graph \ old) \cup {ObservedAgain(h, tx[w].new.row) : h \in old}
                 PROVE  Snapshot(t)' = Snapshot(t)
      OBVIOUS
    <3>1. tx[w].new.row.last \in Nat
      BY DEF Entity
    <3>. QED
      BY <3>1, Reobserved
  <2>3. graph' = graph \cup {tx[w].new} => Snapshot(t)' = Snapshot(t)
    BY <1>2, <2>1, CommitFacts, AddedLater
  <2>. QED
    BY <1>1, <1>2, <2>2, <2>3, CommitFacts
<1>3. CASE IngressNext /\ UNCHANGED graphVars
  BY <1>1, <1>3 DEF graphVars
<1>4. CASE \/ GraphNext
           \/ \E w \in Writers, i \in catalog : ImportStar(w, i)
  BY <1>1, <1>2, <1>4 DEF GraphNext, ImportStar, Request, Begin, Insert, Lost, Tick
<1>5. CASE UNCHANGED galaxyVars
  BY <1>1, <1>5 DEF galaxyVars
<1>. QED
  BY <1>3, <1>4, <1>5 DEF GalaxyNext

(* A step of one writer that leaves the graph alone.                         *)
LEMMA WriterStep ==
  ASSUME GraphInv, NEW w \in Writers, NEW x, tx' = [tx EXCEPT ![w] = x],
         UNCHANGED <<now, graph, ingest, catalog>>,
         x.at \in {"looked", "open"} => x.row \in Rows,
         x.at \in {"open", "inserted"} => x.began \in Nat,
         x.at = "inserted" => StoredRow(x.new) /\ x.new.known = x.began
  PROVE  GraphInv'
<1>1. tx' = [v \in Writers |-> tx'[v]] /\ tx'[w] = x /\ \A v \in Writers \ {w} : tx'[v] = tx[v]
  BY DEF GraphInv
<1>2. \A v \in Writers : TxOK(v)'
  BY <1>1 DEF GraphInv, TxOK, Open, StoredRow
<1>. QED
  BY <1>1, <1>2 DEF GraphInv, StoredRow

LEMMA GraphStep == GraphInv /\ [GalaxyNext]_galaxyVars => GraphInv'
<1> SUFFICES ASSUME GraphInv, [GalaxyNext]_galaxyVars PROVE GraphInv'
  OBVIOUS
<1>0. NoTx.at = "idle"
  BY DEF NoTx
<1>1. CASE UNCHANGED galaxyVars
  BY <1>1 DEF galaxyVars, GraphInv, StoredRow, TxOK, Open
<1>2. CASE Tick /\ UNCHANGED registryVars
  BY <1>2 DEF Tick, registryVars, GraphInv, StoredRow, TxOK, Open
<1>3. ASSUME NEW w \in Writers, NEW r \in Rows, Request(w, r), UNCHANGED registryVars
      PROVE  GraphInv'
  <2> DEFINE x == IF LookedUp(r) THEN [at |-> "looked", row |-> r] ELSE Opened(r)
  <2>1. tx' = [tx EXCEPT ![w] = x] /\ UNCHANGED <<now, graph, ingest, catalog>>
    BY <1>3 DEF Request, registryVars
  <2>2. x.at \in {"looked", "open"} /\ x.row = r /\ (x.at = "open" => x.began = now)
    BY DEF Opened
  <2> HIDE DEF x
  <2>. QED
    BY <2>1, <2>2, WriterStep DEF GraphInv
<1>4. ASSUME NEW w \in Writers, Begin(w), UNCHANGED registryVars
      PROVE  GraphInv'
  <2>1. /\ tx' = [tx EXCEPT ![w] = Opened(tx[w].row)] /\ UNCHANGED <<now, graph, ingest, catalog>>
        /\ tx[w].row \in Rows
    BY <1>4 DEF Begin, registryVars, GraphInv, TxOK
  <2>2. /\ Opened(tx[w].row).at = "open" /\ Opened(tx[w].row).row = tx[w].row
        /\ Opened(tx[w].row).began = now
    BY DEF Opened
  <2>. QED
    BY <2>1, <2>2, WriterStep DEF GraphInv
<1>5. ASSUME NEW w \in Writers, Insert(w), UNCHANGED registryVars
      PROVE  GraphInv'
  <2>1. /\ UNCHANGED <<now, graph, ingest, catalog>>
        /\ tx[w].row \in Rows /\ tx[w].began \in Nat
    BY <1>5 DEF Insert, registryVars, GraphInv, TxOK, Open
  <2> DEFINE x == [at |-> "inserted", new |-> Stamped(tx[w].row, tx[w].began), began |-> tx[w].began]
  <2>2. tx' = [tx EXCEPT ![w] = x] \/ tx' = [tx EXCEPT ![w] = NoTx]
    BY <1>5 DEF Insert
  <2>3. x.at = "inserted" /\ x.began = tx[w].began /\ x.new = Stamped(tx[w].row, tx[w].began)
    OBVIOUS
  <2> HIDE DEF x
  <2>4. StoredRow(x.new) /\ x.new.known = x.began
    BY <2>1, <2>3, RowsOK, StampedFacts
  <2>5. CASE tx' = [tx EXCEPT ![w] = x]
    BY <2>1, <2>3, <2>4, <2>5, WriterStep
  <2>6. CASE tx' = [tx EXCEPT ![w] = NoTx]
    BY <1>0, <2>1, <2>6, WriterStep
  <2>. QED
    BY <2>2, <2>5, <2>6
<1>6. ASSUME NEW w \in Writers, Lost(w), UNCHANGED registryVars
      PROVE  GraphInv'
  BY <1>0, <1>6, WriterStep DEF Lost, registryVars
<1>7. ASSUME NEW w \in Writers, Commit(w), UNCHANGED registryVars
      PROVE  GraphInv'
  <2>1. /\ tx' = [tx EXCEPT ![w] = NoTx] /\ now' = now /\ ingest' = ingest /\ catalog' = catalog
    BY <1>7 DEF Commit, registryVars
  <2>2. tx' = [v \in Writers |-> tx'[v]] /\ tx'[w] = NoTx /\ \A v \in Writers \ {w} : tx'[v] = tx[v]
    BY <2>1 DEF GraphInv
  <2>3. \A v \in Writers : TxOK(v)'
    BY <1>0, <2>2 DEF GraphInv, TxOK, Open, StoredRow
  <2>4. \A g \in graph' : StoredRow(g)
    <3>1. StoredRow(tx[w].new) /\ \A h \in graph : StoredRow(h)
      BY <1>7, CommitFacts DEF GraphInv
    <3>2. \A old \in SUBSET Stored("entity") :
            /\ tx[w].new.row \in Entity
            /\ graph' = (graph \ old) \cup {ObservedAgain(h, tx[w].new.row) : h \in old}
            => \A g \in graph' : StoredRow(g)
      <4> SUFFICES ASSUME NEW old \in SUBSET Stored("entity"), tx[w].new.row \in Entity, NEW h \in old
                   PROVE  StoredRow(ObservedAgain(h, tx[w].new.row))
        BY <3>1
      <4>1. StoredRow(h) /\ h.row \in Entity /\ tx[w].new.row.last \in Nat
        BY <3>1 DEF Stored, StoredRow, Entity
      <4>. QED
        BY <4>1, ObservedAgainFacts
    <3>. QED
      BY <1>7, <3>1, <3>2, CommitFacts
  <2>. QED
    BY <2>1, <2>2, <2>3, <2>4 DEF GraphInv, StoredRow
<1>8. ASSUME NEW w \in Writers, NEW i \in catalog, ImportStar(w, i), UNCHANGED registryVars
      PROVE  GraphInv'
  <2> DEFINE x == [at |-> "inserted", new |-> Stamped(Star(i), now), began |-> now]
  <2>1. tx' = [tx EXCEPT ![w] = x] /\ UNCHANGED <<now, graph, ingest, catalog>>
    BY <1>8 DEF ImportStar, registryVars
  <2>2. x.at = "inserted" /\ x.began = now /\ x.new = Stamped(Star(i), now) /\ now \in Nat
    BY DEF GraphInv
  <2> HIDE DEF x
  <2>3. Star(i) \in Entity
    <3>1. i.id \in STRING /\ i.observed \in Nat
      BY MessagesOK DEF GraphInv, Items
    <3>. QED
      BY <3>1, SourcesOK DEF Star, Entity
  <2>4. StoredRow(x.new) /\ x.new.known = x.began
    BY <2>2, <2>3, StampedFacts
  <2>. QED
    BY <2>1, <2>2, <2>4, WriterStep
<1>9. ASSUME NEW q \in Requests, UNCHANGED graphVars,
             (\E m \in Messages : Check(q, m)) \/ AcceptIngress(q) \/ Ingest(q) \/ RequestDies(q)
      PROVE  GraphInv'
  <2>1. ingest' \in [Requests -> IngestState] /\ catalog' \subseteq Items
    <3>1. /\ Done \in IngestState
          /\ \A m \in Messages : [at |-> "checked", message |-> m] \in IngestState
      BY DEF Done, IngestState
    <3>2. ingest[q].at \in {"checked", "accepted"} =>
            /\ ingest[q].message \in Messages
            /\ [ingest[q] EXCEPT !.at = "accepted"] \in IngestState
      BY DEF GraphInv, IngestState
    <3>3. CASE \E m \in Messages : Check(q, m)
      BY <3>1, <3>3 DEF Check, GraphInv
    <3>4. CASE AcceptIngress(q)
      <4>1. \/ ingest' = [ingest EXCEPT ![q] = Done]
            \/ ingest' = [ingest EXCEPT ![q] = [ingest[q] EXCEPT !.at = "accepted"]]
        BY <3>4 DEF AcceptIngress
      <4>2. ingest[q].at = "checked" /\ catalog' = catalog
        BY <3>4 DEF AcceptIngress
      <4>. QED
        BY <3>1, <3>2, <4>1, <4>2 DEF GraphInv
    <3>5. CASE Ingest(q)
      <4>1. ingest' = [ingest EXCEPT ![q] = Done] /\ ingest[q].at = "accepted"
        BY <3>5 DEF Ingest
      <4>2. catalog' \subseteq catalog \cup {ingest[q].message.item}
        BY <3>5 DEF Ingest
      <4>. QED
        BY <3>1, <3>2, <4>1, <4>2 DEF GraphInv, Items
    <3>6. CASE RequestDies(q)
      BY <3>1, <3>6 DEF RequestDies, GraphInv
    <3>. QED
      BY <1>9, <3>3, <3>4, <3>5, <3>6
  <2>. QED
    BY <1>9, <2>1 DEF graphVars, GraphInv, StoredRow, TxOK, Open
<1>. QED
  BY <1>1, <1>2, <1>3, <1>4, <1>5, <1>6, <1>7, <1>8, <1>9 DEF GalaxyNext, GraphNext, IngressNext

(* A past snapshot changes no more once every transaction begun by then is   *)
(* over, whatever is written, imported or observed anew (constellation.ts:39).*)
THEOREM PastIsSettled == GalaxySpec => SnapshotSettled
<1>1. GalaxyInit => GraphInv
  BY DEF GalaxyInit, GraphInit, GraphInv, New, IngestState, TxOK, Open, NoTx
<1>2. GraphInv /\ [GalaxyNext]_galaxyVars =>
        [\A t \in 0..MaxTime :
           (t < now /\ \A w \in Writers : Open(w) => tx[w].began > t) => Snapshot(t)' = Snapshot(t)]_graphVars
  <2> SUFFICES ASSUME GraphInv, [GalaxyNext]_galaxyVars, NEW t \in 0..MaxTime,
                      \A w \in Writers : Open(w) => tx[w].began > t
               PROVE  Snapshot(t)' = Snapshot(t)
    OBVIOUS
  <2>1. t \in Nat
    OBVIOUS
  <2>. QED
    BY <2>1, Settled
<1>. QED
  BY <1>1, <1>2, GraphStep, PTL DEF GalaxySpec, SnapshotSettled

-----------------------------------------------------------------------------
(* Provenance.  What follows from reaching: the set of all that x reaches is  *)
(* the least one that holds x and is closed under the edges.                  *)
ClosedUnder(R, S) == \A e \in R : e[1] \in S => e[2] \in S

LEMMA ReachesIsLeast ==
  ASSUME NEW R, NEW a, NEW b
  PROVE  Reaches(R, a, b) <=> \A S : a \in S /\ ClosedUnder(R, S) => b \in S
<1> DEFINE nodes == {a, b} \cup {e[1] : e \in R} \cup {e[2] : e \in R}
<1>1. ASSUME Reaches(R, a, b), NEW S, a \in S, ClosedUnder(R, S)
      PROVE  b \in S
  <2>1. a \in S \cap nodes /\ S \cap nodes \in SUBSET nodes
    BY <1>1
  <2>2. \A e \in R : e[1] \in S \cap nodes => e[2] \in S \cap nodes
    BY <1>1 DEF ClosedUnder
  <2>. QED
    BY <1>1, <2>1, <2>2 DEF Reaches
<1>2. ASSUME \A S : a \in S /\ ClosedUnder(R, S) => b \in S
      PROVE  Reaches(R, a, b)
  BY <1>2 DEF Reaches, ClosedUnder
<1>. QED
  BY <1>1, <1>2

LEMMA ReachesSelf ==
  ASSUME NEW R, NEW a
  PROVE  Reaches(R, a, a)
BY ReachesIsLeast

LEMMA ReachesOnward ==
  ASSUME NEW R, NEW a, NEW e \in R, Reaches(R, a, e[1])
  PROVE  Reaches(R, a, e[2])
BY ReachesIsLeast DEF ClosedUnder

LEMMA ReachesMore ==
  ASSUME NEW R, NEW T, R \subseteq T, NEW a, NEW b, Reaches(R, a, b)
  PROVE  Reaches(T, a, b)
<1>1. \A S : ClosedUnder(T, S) => ClosedUnder(R, S)
  BY DEF ClosedUnder
<1>. QED
  BY <1>1, ReachesIsLeast

LEMMA ReachesThrough ==
  ASSUME NEW R, NEW a, NEW b, NEW c, Reaches(R, a, b), Reaches(R, b, c)
  PROVE  Reaches(R, a, c)
<1> SUFFICES ASSUME NEW S, a \in S, ClosedUnder(R, S) PROVE c \in S
  BY ReachesIsLeast
<1>1. b \in S
  BY ReachesIsLeast
<1>. QED
  BY <1>1, ReachesIsLeast

(* With one edge more, a way either avoids it or runs to it and on from it.   *)
LEMMA ReachesAnew ==
  ASSUME NEW R, NEW p, NEW c, NEW x, NEW y, Reaches(R \cup {<<p, c>>}, x, y)
  PROVE  Reaches(R, x, y) \/ (Reaches(R, x, p) /\ Reaches(R, c, y))
<1> DEFINE T == R \cup {<<p, c>>}
           nodes == {x, y, p, c} \cup {e[1] : e \in R} \cup {e[2] : e \in R}
           S == {n \in nodes : Reaches(R, x, n) \/ (Reaches(R, x, p) /\ Reaches(R, c, n))}
<1>1. x \in S
  BY ReachesSelf
<1>2. ASSUME NEW e \in R, e[1] \in S
      PROVE  e[2] \in S
  BY <1>2, ReachesOnward
<1>3. ASSUME p \in S
      PROVE  c \in S
  BY <1>3, ReachesSelf
<1>4. ClosedUnder(T, S)
  <2> HIDE DEF S
  <2>. QED
    BY <1>2, <1>3 DEF ClosedUnder
<1>5. y \in S
  <2> HIDE DEF S
  <2>. QED
    BY <1>1, <1>4, ReachesIsLeast
<1>. QED
  BY <1>5

LEMMA FewerAcyclic ==
  ASSUME NEW R, NEW T, R \subseteq T, Acyclic(T)
  PROVE  Acyclic(R)
BY ReachesMore DEF Acyclic

LEMMA AcyclicAnew ==
  ASSUME NEW R, NEW p, NEW c, Acyclic(R), ~Reaches(R, c, p)
  PROVE  Acyclic(R \cup {<<p, c>>})
<1> SUFFICES ASSUME NEW e \in R \cup {<<p, c>>}, Reaches(R \cup {<<p, c>>}, e[2], e[1]) PROVE FALSE
  BY DEF Acyclic
<1>1. Reaches(R, e[2], e[1]) \/ (Reaches(R, e[2], p) /\ Reaches(R, c, e[1]))
  BY ReachesAnew
<1>2. CASE e = <<p, c>>
  BY <1>1, <1>2
<1>3. CASE e \in R
  <2>1. Reaches(R, e[2], p) /\ Reaches(R, c, e[1])
    BY <1>1, <1>3 DEF Acyclic
  <2>2. Reaches(R, c, e[2])
    BY <1>3, <2>1, ReachesOnward
  <2>. QED
    BY <2>1, <2>2, ReachesThrough
<1>. QED
  BY <1>2, <1>3

(* The edges written, those still in flight included.  The invariant: a row  *)
(* saw only edges that are committed, and closed no cycle with them; rows in *)
(* sight of each other close none.                                           *)
InFlight == {tx[w].new : w \in {v \in Writers : tx[v].at = "inserted"}}

LiveEdges == {g \in graph \cup InFlight : g.row.table = "edge"}

SawNoCycle(g) ==
  g.saw \subseteq Edges(graph) /\ ~Reaches(g.saw, g.row.child, g.row.parent)

EdgeInv ==
  /\ \A g \in LiveEdges : SawNoCycle(g)
  /\ \A C \in SUBSET LiveEdges : InSight(C) => Acyclic(Edges(C))

(* A new row that saw all edges committed joins rows in sight of it.         *)
LEMMA JoinsInSight ==
  ASSUME EdgeInv, NEW g, g.row.table = "edge", g.saw = Edges(graph),
         ~Reaches(g.saw, g.row.child, g.row.parent),
         NEW C \in SUBSET LiveEdges, InSight(C \cup {g})
  PROVE  Acyclic(Edges(C \cup {g}))
<1>1. InSight(C) /\ Acyclic(Edges(C))
  BY DEF InSight, EdgeInv
<1>2. \A h \in C : h.row.table = "edge" /\ h.saw \subseteq Edges(graph) /\ SawNoCycle(h)
  BY DEF LiveEdges, EdgeInv, SawNoCycle
<1>3. /\ Edges(C) = {Pair(h) : h \in C}
      /\ Edges(C \cup {g}) = Edges(C) \cup {Pair(g)}
  BY <1>2 DEF Edges
<1>4. CASE Edges(C) \subseteq Edges(graph)
  <2>1. ~Reaches(Edges(C), g.row.child, g.row.parent)
    BY <1>4, ReachesMore
  <2>2. Acyclic(Edges(C) \cup {<<g.row.parent, g.row.child>>})
    BY <1>1, <2>1, AcyclicAnew
  <2>. QED
    BY <1>3, <2>2 DEF Pair
<1>5. CASE Pair(g) \in Edges(C)
  <2>1. Edges(C \cup {g}) = Edges(C)
    BY <1>3, <1>5
  <2>. QED
    BY <1>1, <2>1
<1>6. CASE Pair(g) \notin Edges(C) /\ ~(Edges(C) \subseteq Edges(graph))
  <2>1. PICK h \in C : Pair(h) \notin Edges(graph)
    BY <1>3, <1>6
  <2>2. Pair(g) \in Edges(graph)
    <3>1. Pair(h) # Pair(g)
      BY <1>3, <1>6
    <3>2. Pair(g) \in h.saw \/ Pair(h) \in g.saw
      BY <3>1 DEF InSight
    <3>. QED
      BY <1>2, <2>1, <3>2
  <2> DEFINE C1 == {k \in C : Pair(k) # Pair(h)}
  <2>3. \A k \in C1 : Pair(k) \in h.saw
    <3> SUFFICES ASSUME NEW k \in C1 PROVE Pair(k) \in h.saw
      OBVIOUS
    <3>1. Pair(h) \notin k.saw
      BY <1>2, <2>1
    <3>. QED
      BY <1>1, <3>1 DEF InSight
  <2>4. Pair(g) \in h.saw
    <3>1. Pair(h) # Pair(g)
      BY <1>3, <1>6
    <3>. QED
      BY <2>1, <3>1 DEF InSight
  <2>5. Edges(C1) = {Pair(k) : k \in C1} /\ Edges(C1) \subseteq h.saw /\ h.saw \subseteq Edges(graph)
    BY <1>2, <2>3 DEF Edges
  <2>6. Edges(C \cup {g}) = (Edges(C1) \cup {Pair(g)}) \cup {Pair(h)}
    BY <1>3, <2>5
  <2>7. Acyclic(Edges(C1) \cup {Pair(g)})
    <3>1. Acyclic(Edges(C1))
      BY <1>1, <1>3, <2>5, FewerAcyclic
    <3>2. ~Reaches(Edges(C1), g.row.child, g.row.parent)
      BY <2>5, ReachesMore
    <3>3. Acyclic(Edges(C1) \cup {<<g.row.parent, g.row.child>>})
      <4> HIDE DEF C1
      <4>. QED
        BY <3>1, <3>2, AcyclicAnew
    <3>. QED
      BY <3>3 DEF Pair
  <2>8. ~Reaches(Edges(C1) \cup {Pair(g)}, h.row.child, h.row.parent)
    <3>1. Edges(C1) \cup {Pair(g)} \subseteq h.saw
      BY <2>4, <2>5
    <3>2. ~Reaches(h.saw, h.row.child, h.row.parent)
      BY <1>2 DEF SawNoCycle
    <3> HIDE DEF C1
    <3>. QED
      BY <3>1, <3>2, ReachesMore
  <2>9. Acyclic((Edges(C1) \cup {Pair(g)}) \cup {<<h.row.parent, h.row.child>>})
    <3> HIDE DEF C1
    <3>. QED
      BY <2>7, <2>8, AcyclicAnew
  <2> HIDE DEF C1
  <2>. QED
    BY <2>6, <2>9 DEF Pair
<1>. QED
  BY <1>4, <1>5, <1>6

(* Steps that write no new edge.                                             *)
LEMMA NoNewEdge ==
  ASSUME EdgeInv, LiveEdges' \subseteq LiveEdges, Edges(graph) \subseteq Edges(graph)'
  PROVE  EdgeInv'
<1>1. \A g \in LiveEdges' : SawNoCycle(g)'
  BY DEF EdgeInv, SawNoCycle
<1>. QED
  BY <1>1 DEF EdgeInv, InSight, Edges, Pair, Acyclic, Reaches

LEMMA NoNewEdgeBy ==
  ASSUME GraphInv, EdgeInv, NEW w \in Writers, NEW x, tx' = [tx EXCEPT ![w] = x], graph' = graph,
         x.at = "inserted" => x.new.row.table # "edge"
  PROVE  EdgeInv'
<1>1. tx' = [v \in Writers |-> tx'[v]] /\ tx'[w] = x /\ \A v \in Writers \ {w} : tx'[v] = tx[v]
  BY DEF GraphInv
<1>2. LiveEdges' \subseteq LiveEdges
  BY <1>1 DEF LiveEdges, InFlight
<1>. QED
  BY <1>2, NoNewEdge DEF Edges, Pair

LEMMA InsertEdge ==
  ASSUME GraphInv, EdgeInv, NEW w \in Writers, NEW x, tx' = [tx EXCEPT ![w] = x], graph' = graph,
         x.at = "inserted", x.new.row.table = "edge", x.new.saw = Edges(graph),
         ~Reaches(x.new.saw, x.new.row.child, x.new.row.parent)
  PROVE  EdgeInv'
<1>1. tx' = [v \in Writers |-> tx'[v]] /\ tx'[w] = x /\ \A v \in Writers \ {w} : tx'[v] = tx[v]
  BY DEF GraphInv
<1>2. LiveEdges' \subseteq LiveEdges \cup {x.new}
  BY <1>1 DEF LiveEdges, InFlight
<1>3. Edges(graph)' = Edges(graph)
  BY DEF Edges, Pair
<1>4. \A g \in LiveEdges' : SawNoCycle(g)'
  BY <1>2, <1>3 DEF EdgeInv, SawNoCycle
<1>5. ASSUME NEW C \in SUBSET (LiveEdges \cup {x.new}), InSight(C)
      PROVE  Acyclic(Edges(C))
  <2>1. CASE C \subseteq LiveEdges
    BY <1>5, <2>1 DEF EdgeInv
  <2>2. CASE x.new \in C
    <3> DEFINE D == C \ {x.new}
    <3>1. D \in SUBSET LiveEdges /\ C = D \cup {x.new}
      BY <2>2
    <3> HIDE DEF D
    <3>. QED
      BY <1>5, <3>1, JoinsInSight
  <2>. QED
    BY <2>1, <2>2
<1>6. \A C \in SUBSET LiveEdges' : InSight(C)' => Acyclic(Edges(C))'
  <2> SUFFICES ASSUME NEW C \in SUBSET LiveEdges', InSight(C) PROVE Acyclic(Edges(C))
    BY DEF InSight, Acyclic, Edges, Pair, Reaches
  <2>. QED
    BY <1>2, <1>5
<1>. QED
  BY <1>4, <1>6 DEF EdgeInv

LEMMA CommitEdges ==
  ASSUME GraphInv, EdgeInv, NEW w \in Writers, Commit(w)
  PROVE  EdgeInv'
<1>1. tx' = [tx EXCEPT ![w] = NoTx] /\ tx[w].at = "inserted"
  BY DEF Commit
<1>2. tx' = [v \in Writers |-> tx'[v]] /\ tx'[w] = NoTx /\ \A v \in Writers \ {w} : tx'[v] = tx[v]
  BY <1>1 DEF GraphInv
<1>3. InFlight' \subseteq InFlight /\ tx[w].new \in InFlight
  BY <1>1, <1>2 DEF InFlight, NoTx
<1>4. ASSUME NEW old \in SUBSET Stored("entity"), tx[w].new.row \in Entity,
             graph' = (graph \ old) \cup {ObservedAgain(h, tx[w].new.row) : h \in old}
      PROVE  {g \in graph' : g.row.table = "edge"} = {g \in graph : g.row.table = "edge"}
  <2>1. \A h \in old : StoredRow(h) /\ h.row \in Entity /\ tx[w].new.row.last \in Nat
    BY <1>4 DEF GraphInv, Stored, StoredRow, Entity
  <2>2. \A h \in old : ObservedAgain(h, tx[w].new.row).row \in Entity /\ h.row \in Entity
    BY <2>1, ObservedAgainFacts
  <2>3. \A r \in Entity : r.table # "edge"
    BY DEF Entity
  <2>. QED
    BY <1>4, <2>2, <2>3
<1>5. /\ {g \in graph : g.row.table = "edge"} \subseteq {g \in graph' : g.row.table = "edge"}
      /\ {g \in graph' : g.row.table = "edge"} \subseteq LiveEdges
  BY <1>3, <1>4, CommitFacts DEF LiveEdges
<1>6. LiveEdges' \subseteq LiveEdges
  BY <1>3, <1>5 DEF LiveEdges
<1>7. Edges(graph) \subseteq Edges(graph)'
  BY <1>5 DEF Edges, Pair
<1>. QED
  BY <1>6, <1>7, NoNewEdge

LEMMA EdgeStep == GraphInv /\ EdgeInv /\ [GalaxyNext]_galaxyVars => EdgeInv'
<1> SUFFICES ASSUME GraphInv, EdgeInv, [GalaxyNext]_galaxyVars PROVE EdgeInv'
  OBVIOUS
<1>0. NoTx.at = "idle"
  BY DEF NoTx
<1>1. CASE UNCHANGED <<graph, tx>>
  BY <1>1, NoNewEdge DEF LiveEdges, InFlight, Edges, Pair
<1>2. ASSUME NEW w \in Writers, NEW r \in Rows, Request(w, r)
      PROVE  EdgeInv'
  <2> DEFINE x == IF LookedUp(r) THEN [at |-> "looked", row |-> r] ELSE Opened(r)
  <2>1. tx' = [tx EXCEPT ![w] = x] /\ graph' = graph /\ x.at # "inserted"
    BY <1>2 DEF Request, Opened
  <2> HIDE DEF x
  <2>. QED
    BY <2>1, NoNewEdgeBy
<1>3. ASSUME NEW w \in Writers, Begin(w)
      PROVE  EdgeInv'
  <2>1. Opened(tx[w].row).at = "open"
    BY DEF Opened
  <2>. QED
    BY <1>3, <2>1, NoNewEdgeBy DEF Begin
<1>4. ASSUME NEW w \in Writers, Insert(w)
      PROVE  EdgeInv'
  <2> DEFINE x == [at |-> "inserted", new |-> Stamped(tx[w].row, tx[w].began), began |-> tx[w].began]
  <2>1. CASE ~Insertable(tx[w].row, tx[w].began)
    BY <1>0, <1>4, <2>1, NoNewEdgeBy DEF Insert
  <2>2. CASE Insertable(tx[w].row, tx[w].began)
    <3>1. tx' = [tx EXCEPT ![w] = x] /\ graph' = graph
      BY <1>4, <2>2 DEF Insert
    <3>2. x.at = "inserted" /\ x.new.row = tx[w].row
      BY DEF Stamped
    <3>3. CASE tx[w].row.table # "edge"
      <4> HIDE DEF x
      <4>. QED
        BY <3>1, <3>2, <3>3, NoNewEdgeBy
    <3>4. CASE tx[w].row.table = "edge"
      <4>1. x.new.saw = Edges(graph)
        BY <3>4 DEF Stamped
      <4>2. ~Reaches(Edges(graph), tx[w].row.child, tx[w].row.parent)
        BY <2>2, <3>4 DEF Insertable, ClosesCycle
      <4> HIDE DEF x
      <4>. QED
        BY <3>1, <3>2, <3>4, <4>1, <4>2, InsertEdge
    <3>. QED
      BY <3>3, <3>4
  <2>. QED
    BY <2>1, <2>2
<1>5. ASSUME NEW w \in Writers, Commit(w)
      PROVE  EdgeInv'
  BY <1>5, CommitEdges
<1>6. ASSUME NEW w \in Writers, Lost(w)
      PROVE  EdgeInv'
  BY <1>0, <1>6, NoNewEdgeBy DEF Lost
<1>7. ASSUME NEW w \in Writers, NEW i \in catalog, ImportStar(w, i)
      PROVE  EdgeInv'
  <2> DEFINE x == [at |-> "inserted", new |-> Stamped(Star(i), now), began |-> now]
  <2>1. tx' = [tx EXCEPT ![w] = x] /\ graph' = graph /\ x.new.row.table = "entity"
    BY <1>7 DEF ImportStar, Stamped, Star
  <2> HIDE DEF x
  <2>. QED
    BY <2>1, NoNewEdgeBy
<1>8. \/ UNCHANGED <<graph, tx>>
      \/ \E w \in Writers : \/ \E r \in Rows : Request(w, r)
                            \/ Begin(w) \/ Insert(w) \/ Commit(w) \/ Lost(w)
                            \/ \E i \in catalog : ImportStar(w, i)
  BY DEF GalaxyNext, GraphNext, Tick, graphVars, galaxyVars
<1>. QED
  BY <1>1, <1>2, <1>3, <1>4, <1>5, <1>6, <1>7, <1>8

(* Provenance has no cycle but through edges that were in flight together,   *)
(* of whatever length it is and however many writers there are               *)
(* (031_wormholes_star_dna.sql:30-42).                                       *)
THEOREM CyclesOnlyByOverlap == GalaxySpec => []CycleOnlyByOverlap
<1>1. GalaxyInit => GraphInv /\ EdgeInv
  <2> SUFFICES ASSUME GalaxyInit PROVE GraphInv /\ EdgeInv
    OBVIOUS
  <2>1. GraphInv
    BY DEF GalaxyInit, GraphInit, GraphInv, New, IngestState, TxOK, Open, NoTx
  <2>2. LiveEdges = {}
    BY DEF GalaxyInit, GraphInit, LiveEdges, InFlight, NoTx
  <2>3. Edges({}) = {}
    BY DEF Edges
  <2>. QED
    BY <2>1, <2>2, <2>3 DEF EdgeInv, Acyclic
<1>2. EdgeInv => CycleOnlyByOverlap
  BY DEF EdgeInv, CycleOnlyByOverlap, Stored, LiveEdges
<1>. QED
  BY <1>1, <1>2, GraphStep, EdgeStep, PTL DEF GalaxySpec

-----------------------------------------------------------------------------
(* The graph is whole.  The invariant: so is what is about to be committed,  *)
(* but for the time order of a star, which its commit checks.                *)
Tables == {"entity", "relationship", "event", "edge"}

(* An entity has one row, whatever it is named by has its ends, and nothing  *)
(* was observed later than it is known (db/006, db/047:23-25, db/049:6).     *)
GraphWhole ==
  /\ \A g, h \in Stored("entity") : SameIdentity(g.row, h.row) => g = h
  /\ \A g \in graph : g.row.table \in Tables => EndsPresent(g.row) /\ TimeOrdered(g.row, g.known)

WholeInv ==
  /\ GraphWhole
  /\ \A g \in InFlight : g.row.table \in Tables =>
       EndsPresent(g.row) /\ (IsStar(g.row) \/ TimeOrdered(g.row, g.known))

Namesakes(r) == {h \in Stored("entity") : SameIdentity(h.row, r)}

LEMMA CommitCases ==
  ASSUME GraphInv, NEW w \in Writers, Commit(w), NEW g, g = tx[w].new
  PROVE  \/ graph' = graph
         \/ /\ graph' = graph \cup {g}
            /\ g.row.table = "entity" => Namesakes(g.row) = {}
            /\ IsStar(g.row) => TimeOrdered(g.row, g.known)
         \/ /\ IsStar(g.row) /\ g.row \in Entity
            /\ graph' = (graph \ Namesakes(g.row)) \cup {ObservedAgain(h, g.row) : h \in Namesakes(g.row)}
            /\ \A h \in Namesakes(g.row) :
                 TimeOrdered(ObservedAgain(h, g.row).row, ObservedAgain(h, g.row).known)
<1>1. StoredRow(g)
  BY DEF GraphInv, TxOK, Commit
<1>2. CASE IsStar(g.row)
  <2>1. g.row \in Entity
    BY <1>1, <1>2 DEF IsStar, StoredRow
  <2>2. graph' = UpsertStar(g)
    BY <1>2 DEF Commit
  <2>3. CASE Namesakes(g.row) = {}
    <3>1. UpsertStar(g) = IF \A h \in {g} : TimeOrdered(h.row, h.known) THEN (graph \ {}) \cup {g} ELSE graph
      BY <2>3 DEF UpsertStar, Namesakes
    <3>. QED
      BY <2>2, <2>3, <3>1
  <2>4. CASE Namesakes(g.row) # {}
    <3> DEFINE again == {ObservedAgain(h, g.row) : h \in Namesakes(g.row)}
    <3>1. UpsertStar(g) = IF \A h \in again : TimeOrdered(h.row, h.known)
                          THEN (graph \ Namesakes(g.row)) \cup again ELSE graph
      BY <2>4 DEF UpsertStar, Namesakes
    <3>. QED
      BY <1>2, <2>1, <2>2, <3>1
  <2>. QED
    BY <2>3, <2>4
<1>3. CASE ~IsStar(g.row)
  BY <1>3 DEF Commit, WithRow, EntityExists, Namesakes
<1>. QED
  BY <1>2, <1>3

(* Ends stay where they are as long as no entity or relationship goes.       *)
LEMMA EndsStay ==
  ASSUME NEW r, r.table \in Tables, EndsPresent(r),
         \A k : Present(k) => Present(k)', \A h : Linked(h) => Linked(h)'
  PROVE  EndsPresent(r)'
BY DEF EndsPresent, Tables

LEMMA WholeByWriter ==
  ASSUME GraphInv, WholeInv, NEW w \in Writers, NEW x, tx' = [tx EXCEPT ![w] = x], graph' = graph,
         x.at = "inserted" /\ x.new.row.table \in Tables =>
           EndsPresent(x.new.row) /\ (IsStar(x.new.row) \/ TimeOrdered(x.new.row, x.new.known))
  PROVE  WholeInv'
<1>1. tx' = [v \in Writers |-> tx'[v]] /\ tx'[w] = x /\ \A v \in Writers \ {w} : tx'[v] = tx[v]
  BY DEF GraphInv
<1>2. \A g \in InFlight' : g \in InFlight \/ (x.at = "inserted" /\ g = x.new)
  BY <1>1 DEF InFlight
<1>3. (\A k : Present(k) => Present(k)') /\ (\A h : Linked(h) => Linked(h)')
  BY DEF Present, Linked, Stored
<1>4. \A r : r.table \in Tables /\ EndsPresent(r) => EndsPresent(r)'
  BY <1>3, EndsStay
<1>5. \A r, known : TimeOrdered(r, known)' = TimeOrdered(r, known)
  BY DEF TimeOrdered
<1>6. GraphWhole'
  BY <1>4, <1>5 DEF WholeInv, GraphWhole, Stored
<1>. QED
  BY <1>2, <1>4, <1>6 DEF WholeInv

LEMMA WholeByCommit ==
  ASSUME GraphInv, WholeInv, NEW w \in Writers, Commit(w)
  PROVE  WholeInv'
<1> DEFINE g == tx[w].new
<1>1. tx' = [tx EXCEPT ![w] = NoTx] /\ tx[w].at = "inserted" /\ NoTx.at = "idle"
  BY DEF Commit, NoTx
<1>2. tx' = [v \in Writers |-> tx'[v]] /\ tx'[w] = NoTx /\ \A v \in Writers \ {w} : tx'[v] = tx[v]
  BY <1>1 DEF GraphInv
<1>3. InFlight' \subseteq InFlight /\ g \in InFlight
  BY <1>1, <1>2 DEF InFlight
<1>4. StoredRow(g) /\ \A h \in graph : StoredRow(h)
  BY <1>1 DEF GraphInv, TxOK
<1>c. \/ graph' = graph
      \/ /\ graph' = graph \cup {g}
         /\ g.row.table = "entity" => Namesakes(g.row) = {}
         /\ IsStar(g.row) => TimeOrdered(g.row, g.known)
      \/ /\ IsStar(g.row) /\ g.row \in Entity
         /\ graph' = (graph \ Namesakes(g.row)) \cup {ObservedAgain(h, g.row) : h \in Namesakes(g.row)}
         /\ \A h \in Namesakes(g.row) :
              TimeOrdered(ObservedAgain(h, g.row).row, ObservedAgain(h, g.row).known)
  BY CommitCases
<1> HIDE DEF g
<1>5. CASE graph' = graph
  BY <1>1, <1>5, WholeByWriter
<1>6. ASSUME graph' = graph \cup {g}, g.row.table = "entity" => Namesakes(g.row) = {},
             IsStar(g.row) => TimeOrdered(g.row, g.known)
      PROVE  WholeInv'
  <2>1. (\A k : Present(k) => Present(k)') /\ (\A h : Linked(h) => Linked(h)')
    BY <1>6 DEF Present, Linked, Stored
  <2>2. \A r : r.table \in Tables /\ EndsPresent(r) => EndsPresent(r)'
    BY <2>1, EndsStay
  <2>3. \A h, i \in Stored("entity")' : SameIdentity(h.row, i.row) => h = i
    BY <1>6 DEF WholeInv, GraphWhole, Stored, Namesakes, SameIdentity
  <2>4. \A h \in graph' : h.row.table \in Tables => EndsPresent(h.row)' /\ TimeOrdered(h.row, h.known)
    BY <1>3, <1>6, <2>2 DEF WholeInv, GraphWhole
  <2>. QED
    BY <1>3, <2>2, <2>3, <2>4 DEF WholeInv, GraphWhole, SameIdentity, TimeOrdered
<1>7. ASSUME IsStar(g.row), g.row \in Entity,
             graph' = (graph \ Namesakes(g.row)) \cup {ObservedAgain(h, g.row) : h \in Namesakes(g.row)},
             \A h \in Namesakes(g.row) :
               TimeOrdered(ObservedAgain(h, g.row).row, ObservedAgain(h, g.row).known)
      PROVE  WholeInv'
  <2> DEFINE again(h) == ObservedAgain(h, g.row)
  <2>1. \A h \in Namesakes(g.row) :
          /\ h \in graph /\ h.row.table = "entity" /\ SameIdentity(h.row, g.row)
          /\ again(h).row.table = "entity"
          /\ again(h).row.source = h.row.source /\ again(h).row.key = h.row.key
    <3>1. g.row.last \in Nat
      BY <1>7 DEF Entity
    <3>2. \A h \in Namesakes(g.row) :
            h \in graph /\ StoredRow(h) /\ h.row \in Entity /\ h.row.table = "entity" /\ SameIdentity(h.row, g.row)
      BY <1>4 DEF Namesakes, Stored, StoredRow
    <3>3. \A r \in Entity : r.table = "entity"
      BY DEF Entity
    <3>. QED
      BY <3>1, <3>2, <3>3, ObservedAgainFacts
  <2> HIDE DEF again
  <2>2. graph' = (graph \ Namesakes(g.row)) \cup {again(h) : h \in Namesakes(g.row)}
    BY <1>7 DEF again
  <2>3. \A k : Present(k) => Present(k)'
    <3> SUFFICES ASSUME NEW h \in graph, h.row.table = "entity"
                 PROVE  \E i \in graph' : i.row.table = "entity" /\ i.row.key = h.row.key
      BY DEF Present, Stored
    <3>1. CASE h \in Namesakes(g.row)
      BY <2>1, <2>2, <3>1
    <3>2. CASE h \notin Namesakes(g.row)
      BY <2>2, <3>2
    <3>. QED
      BY <3>1, <3>2
  <2>l. \A h : Linked(h) => Linked(h)'
    BY <2>1, <2>2 DEF Linked, Stored
  <2>4. \A r : r.table \in Tables /\ EndsPresent(r) => EndsPresent(r)'
    BY <2>3, <2>l, EndsStay
  <2>5. \A h, i \in Stored("entity")' : SameIdentity(h.row, i.row) => h = i
    <3> SUFFICES ASSUME NEW h \in graph', NEW i \in graph', h.row.table = "entity", i.row.table = "entity",
                        SameIdentity(h.row, i.row)
                 PROVE  h = i
      BY DEF Stored
    <3>1. \A a, b \in Namesakes(g.row) : a = b
      BY <2>1 DEF WholeInv, GraphWhole, Stored, SameIdentity
    <3>2. \A a \in graph' : a.row.table = "entity" =>
            \/ a \in graph /\ ~SameIdentity(a.row, g.row)
            \/ SameIdentity(a.row, g.row) /\ \E b \in Namesakes(g.row) : a = again(b)
      BY <2>1, <2>2 DEF Namesakes, Stored, SameIdentity
    <3>3. CASE SameIdentity(h.row, g.row)
      <4>1. SameIdentity(i.row, g.row)
        BY <3>3 DEF SameIdentity
      <4>. QED
        BY <3>1, <3>2, <3>3, <4>1
    <3>4. CASE ~SameIdentity(h.row, g.row)
      <4>1. ~SameIdentity(i.row, g.row)
        BY <3>4 DEF SameIdentity
      <4>. QED
        BY <3>2, <3>4, <4>1 DEF WholeInv, GraphWhole, Stored
    <3>. QED
      BY <3>3, <3>4
  <2>6. \A r : r.table = "entity" => EndsPresent(r)'
    BY DEF EndsPresent
  <2>7. \A h \in graph' : h.row.table \in Tables => EndsPresent(h.row)' /\ TimeOrdered(h.row, h.known)
    <3> SUFFICES ASSUME NEW h \in graph', h.row.table \in Tables
                 PROVE  EndsPresent(h.row)' /\ TimeOrdered(h.row, h.known)
      OBVIOUS
    <3>1. CASE h \in graph
      BY <2>4, <3>1 DEF WholeInv, GraphWhole
    <3>2. ASSUME NEW i \in Namesakes(g.row), h = again(i)
          PROVE  EndsPresent(h.row)' /\ TimeOrdered(h.row, h.known)
      <4>1. TimeOrdered(again(i).row, again(i).known)
        BY <1>7 DEF again
      <4>2. h.row.table = "entity"
        BY <2>1, <3>2
      <4>3. EndsPresent(h.row)'
        BY <2>6, <4>2
      <4>. QED
        BY <3>2, <4>1, <4>3
    <3>. QED
      BY <2>2, <3>1, <3>2
  <2>. QED
    BY <1>3, <2>4, <2>5, <2>7 DEF WholeInv, GraphWhole, SameIdentity, TimeOrdered
<1>. QED
  BY <1>5, <1>6, <1>7, <1>c

LEMMA WholeStep == GraphInv /\ WholeInv /\ [GalaxyNext]_galaxyVars => WholeInv'
<1> SUFFICES ASSUME GraphInv, WholeInv, [GalaxyNext]_galaxyVars PROVE WholeInv'
  OBVIOUS
<1>0. NoTx.at = "idle"
  BY DEF NoTx
<1>1. CASE UNCHANGED <<graph, tx>>
  <2>1. InFlight' = InFlight /\ \A table : Stored(table)' = Stored(table)
    BY <1>1 DEF InFlight, Stored
  <2>2. \A r : r.table \in Tables /\ EndsPresent(r) => EndsPresent(r)'
    BY <2>1, EndsStay DEF Present, Linked
  <2>3. \A r, known : TimeOrdered(r, known)' = TimeOrdered(r, known)
    BY DEF TimeOrdered
  <2>4. GraphWhole'
    BY <1>1, <2>1, <2>2, <2>3 DEF WholeInv, GraphWhole
  <2>. QED
    BY <2>1, <2>2, <2>3, <2>4 DEF WholeInv
<1>2. ASSUME NEW w \in Writers, NEW r \in Rows, Request(w, r)
      PROVE  WholeInv'
  <2> DEFINE x == IF LookedUp(r) THEN [at |-> "looked", row |-> r] ELSE Opened(r)
  <2>1. tx' = [tx EXCEPT ![w] = x] /\ graph' = graph /\ x.at # "inserted"
    BY <1>2 DEF Request, Opened
  <2> HIDE DEF x
  <2>. QED
    BY <2>1, WholeByWriter
<1>3. ASSUME NEW w \in Writers, Begin(w)
      PROVE  WholeInv'
  <2>1. Opened(tx[w].row).at = "open"
    BY DEF Opened
  <2>. QED
    BY <1>3, <2>1, WholeByWriter DEF Begin
<1>4. ASSUME NEW w \in Writers, Insert(w)
      PROVE  WholeInv'
  <2> DEFINE x == [at |-> "inserted", new |-> Stamped(tx[w].row, tx[w].began), began |-> tx[w].began]
  <2>1. CASE ~Insertable(tx[w].row, tx[w].began)
    BY <1>0, <1>4, <2>1, WholeByWriter DEF Insert
  <2>2. CASE Insertable(tx[w].row, tx[w].began)
    <3>1. tx' = [tx EXCEPT ![w] = x] /\ graph' = graph
      BY <1>4, <2>2 DEF Insert
    <3>2. x.new.row = tx[w].row /\ x.new.known = tx[w].began
      BY DEF Stamped
    <3>3. EndsPresent(x.new.row) /\ TimeOrdered(x.new.row, x.new.known)
      BY <2>2, <3>2 DEF Insertable
    <3> HIDE DEF x
    <3>. QED
      BY <3>1, <3>3, WholeByWriter
  <2>. QED
    BY <2>1, <2>2
<1>5. ASSUME NEW w \in Writers, Commit(w)
      PROVE  WholeInv'
  BY <1>5, WholeByCommit
<1>6. ASSUME NEW w \in Writers, Lost(w)
      PROVE  WholeInv'
  BY <1>0, <1>6, WholeByWriter DEF Lost
<1>7. ASSUME NEW w \in Writers, NEW i \in catalog, ImportStar(w, i)
      PROVE  WholeInv'
  <2> DEFINE x == [at |-> "inserted", new |-> Stamped(Star(i), now), began |-> now]
  <2>1. tx' = [tx EXCEPT ![w] = x] /\ graph' = graph /\ x.new.row = Star(i)
    BY <1>7 DEF ImportStar, Stamped
  <2>2. EndsPresent(Star(i)) /\ IsStar(Star(i))
    BY DEF EndsPresent, IsStar, Star
  <2> HIDE DEF x
  <2>. QED
    BY <2>1, <2>2, WholeByWriter
<1>8. \/ UNCHANGED <<graph, tx>>
      \/ \E w \in Writers : \/ \E r \in Rows : Request(w, r)
                            \/ Begin(w) \/ Insert(w) \/ Commit(w) \/ Lost(w)
                            \/ \E i \in catalog : ImportStar(w, i)
  BY DEF GalaxyNext, GraphNext, Tick, graphVars, galaxyVars
<1>. QED
  BY <1>1, <1>2, <1>3, <1>4, <1>5, <1>6, <1>7, <1>8

(* However requests and imports interleave, an entity is one row, nothing    *)
(* refers to what is not there, and nothing is observed later than it is     *)
(* known (constellation.ts:36-38, galaxy-registry.ts:72-76).                 *)
THEOREM GraphStaysWhole == GalaxySpec => []GraphWhole
<1>1. GalaxyInit => GraphInv /\ WholeInv
  <2> SUFFICES ASSUME GalaxyInit PROVE GraphInv /\ WholeInv
    OBVIOUS
  <2>1. GraphInv
    BY DEF GalaxyInit, GraphInit, GraphInv, New, IngestState, TxOK, Open, NoTx
  <2>2. InFlight = {} /\ graph = {}
    BY DEF GalaxyInit, GraphInit, InFlight, NoTx
  <2>. QED
    BY <2>1, <2>2 DEF WholeInv, GraphWhole, Stored
<1>2. WholeInv => GraphWhole
  BY DEF WholeInv
<1>. QED
  BY <1>1, <1>2, GraphStep, WholeStep, PTL DEF GalaxySpec
=============================================================================
