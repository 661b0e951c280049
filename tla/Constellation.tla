---------------------------- MODULE Constellation ----------------------------
(***************************************************************************)
(* The constellation graph (PgStore of src/src/constellation.ts, and         *)
(* src/src/star-dna.ts): entities, relationships, events and provenance      *)
(* edges, written by concurrent transactions and read as of a past moment.   *)
(*                                                                           *)
(* A row keeps what its lookups, constraints and filters read; names, digests*)
(* and metadata are left out.  In place of ids, a row names an entity by its *)
(* key and a relationship by its hash.  known_at is now() of the inserting   *)
(* transaction, which is the moment it began.                                *)
(* `saw` is history: the provenance edges committed when a statement ran.    *)
(***************************************************************************)
EXTENDS Integers, FiniteSets

CONSTANTS Writers,  (* concurrent requests                                   *)
          Sources,  (* who may name an entity: the registry and others       *)
          Rows,     (* what may be asked to be written                       *)
          Null,     (* no end yet, no entity, no relationship                *)
          MaxTime,  (* bound of the clock                                    *)
          MaxRows   (* bound of the rows written                             *)

Entity == [table : {"entity"}, source : Sources, key : STRING, first : Nat, last : Nat]

ASSUME SourcesOK == "SPR_REGISTRY" \in Sources
ASSUME RowsOK == \A r \in Rows : r.table = "entity" => r \in Entity

(* The CHECK of migration 006: an event names an entity or a relationship.   *)
ASSUME EventsOK == \A r \in Rows : r.table = "event" => r.about # Null \/ r.link # Null

VARIABLES now,   (* the database's clock                                     *)
          graph, (* rows committed, with their known_at                      *)
          tx     (* per writer: its request and transaction                  *)

graphVars == <<now, graph, tx>>

NoTx == [at |-> "idle"]

GraphInit ==
  /\ now = 0
  /\ graph = {}
  /\ tx = [w \in Writers |-> NoTx]

Stored(table) == {g \in graph : g.row.table = table}

-----------------------------------------------------------------------------
(* Lookups, constraints and triggers                                         *)

SameIdentity(r, s) == r.source = s.source /\ r.key = s.key

(* The unique index of migration 049, and the SELECT of addEntity.           *)
EntityExists(r) == \E g \in Stored("entity") : SameIdentity(g.row, r)

(* The SELECT of addRelationship, which no index backs.                      *)
RelationshipExists(r) ==
  \E g \in Stored("relationship") :
    g.row.from = r.from /\ g.row.to = r.to /\ g.row.hash = r.hash /\ g.row.ended = Null

AlreadyThere(r) ==
  CASE r.table = "entity"       -> EntityExists(r)
    [] r.table = "relationship" -> RelationshipExists(r)
    [] OTHER                    -> FALSE

Present(k) == \E g \in Stored("entity") : g.row.key = k

Linked(h) == \E g \in Stored("relationship") : g.row.hash = h

(* WHERE EXISTS of every end the row names                                   *)
EndsPresent(r) ==
  CASE r.table = "entity"       -> TRUE
    [] r.table = "relationship" -> Present(r.from) /\ Present(r.to)
    [] r.table = "event"        -> /\ r.about = Null \/ Present(r.about)
                                   /\ r.link = Null \/ Linked(r.link)
    [] r.table = "edge"         -> Present(r.parent) /\ Present(r.child)

(* The time-order CHECKs of migration 047: nothing is observed later than it *)
(* is known.  Provenance edges have none.                                    *)
TimeOrdered(r, known) ==
  CASE r.table = "entity"       -> r.last <= known
    [] r.table = "relationship" -> r.observed <= known
    [] r.table = "event"        -> r.occurred <= known
    [] r.table = "edge"         -> TRUE

Pair(g) == <<g.row.parent, g.row.child>>

Edges(G) == {Pair(g) : g \in {h \in G : h.row.table = "edge"}}

(* b is in every set that holds a and all that follows its members along R.  *)
Reaches(R, a, b) ==
  LET nodes == {a, b} \cup {e[1] : e \in R} \cup {e[2] : e \in R}
  IN \A S \in SUBSET nodes :
       (a \in S /\ \A e \in R : e[1] \in S => e[2] \in S) => b \in S

ClosesCycleWithItself(r) == r.table = "edge" /\ r.child = r.parent

(* reject_provenance_cycle looks among the committed edges.                  *)
ClosesCycle(r) == r.table = "edge" /\ Reaches(Edges(graph), r.child, r.parent)

Insertable(r, known) == EndsPresent(r) /\ TimeOrdered(r, known) /\ ~ClosesCycle(r)

-----------------------------------------------------------------------------
(* A write: entities and relationships are looked up in a transaction of     *)
(* their own; then the inserting transaction begins, inserts and commits.    *)

LookedUp(r) == r.table \in {"entity", "relationship"}

Opened(r) == [at |-> "open", row |-> r, began |-> now]

Request(w, r) ==
  /\ tx[w] = NoTx
  /\ Cardinality(graph) < MaxRows
  /\ ~AlreadyThere(r)
  /\ tx' = [tx EXCEPT ![w] = IF LookedUp(r) THEN [at |-> "looked", row |-> r] ELSE Opened(r)]
  /\ UNCHANGED <<now, graph>>

Begin(w) ==
  /\ tx[w].at = "looked"
  /\ tx' = [tx EXCEPT ![w] = Opened(tx[w].row)]
  /\ UNCHANGED <<now, graph>>

Stamped(r, known) ==
  [row |-> r, known |-> known, saw |-> IF r.table = "edge" THEN Edges(graph) ELSE {}]

(* The statement runs, or finds an end missing or a constraint broken and    *)
(* the transaction is over.                                                  *)
Insert(w) ==
  /\ tx[w].at = "open"
  /\ tx' = [tx EXCEPT ![w] =
              IF Insertable(tx[w].row, tx[w].began)
              THEN [at |-> "inserted", new |-> Stamped(tx[w].row, tx[w].began), began |-> tx[w].began]
              ELSE NoTx]
  /\ UNCHANGED <<now, graph>>

ObservedAnew(g, r) == [g EXCEPT !.row = r]

(* ON CONFLICT DO UPDATE of importStar: the same star, observed again, kept  *)
(* only while last_observed_at stays within its known_at.                    *)
ObservedAgain(g, r) ==
  IF r.last > g.row.last THEN [g EXCEPT !.row.last = r.last] ELSE g

UpsertStar(g) ==
  LET old == {h \in Stored("entity") : SameIdentity(h.row, g.row)}
      new == IF old = {} THEN {g} ELSE {ObservedAgain(h, g.row) : h \in old}
  IN IF \A h \in new : TimeOrdered(h.row, h.known) THEN (graph \ old) \cup new ELSE graph

(* A second row of one identity meets the unique index and is refused.       *)
WithRow(g) ==
  IF g.row.table = "entity" /\ EntityExists(g.row) THEN graph ELSE graph \cup {g}

IsStar(r) == r.table = "entity" /\ r.source = "SPR_REGISTRY"

Commit(w) ==
  /\ tx[w].at = "inserted"
  /\ graph' = IF IsStar(tx[w].new.row) THEN UpsertStar(tx[w].new) ELSE WithRow(tx[w].new)
  /\ tx' = [tx EXCEPT ![w] = NoTx]
  /\ UNCHANGED now

(* The connection or the process is lost: the transaction rolls back.        *)
Lost(w) ==
  /\ tx[w] # NoTx
  /\ tx' = [tx EXCEPT ![w] = NoTx]
  /\ UNCHANGED <<now, graph>>

Tick ==
  /\ now < MaxTime
  /\ now' = now + 1
  /\ UNCHANGED <<graph, tx>>

GraphNext ==
  \/ \E w \in Writers : (\E r \in Rows : Request(w, r)) \/ Begin(w) \/ Insert(w) \/ Commit(w) \/ Lost(w)
  \/ Tick

-----------------------------------------------------------------------------
(* snapshot as of t: what was observed and known by then, relationships not  *)
(* ended, and nothing whose ends are not shown.                              *)

EntitiesAt(t) == {g \in Stored("entity") : g.row.first <= t /\ g.known <= t}

Shown(t) == {<<g.row.source, g.row.key, g.row.first, g.known>> : g \in EntitiesAt(t)}

RelationshipsAt(t) ==
  {g \in Stored("relationship") :
     /\ g.row.observed <= t /\ g.known <= t
     /\ g.row.ended = Null \/ g.row.ended > t
     /\ {g.row.from, g.row.to} \subseteq {e.row.key : e \in EntitiesAt(t)}}

EventsAt(t) ==
  {g \in Stored("event") :
     /\ g.row.occurred <= t /\ g.known <= t
     /\ g.row.about = Null \/ g.row.about \in {e.row.key : e \in EntitiesAt(t)}
     /\ g.row.link = Null \/ g.row.link \in {r.row.hash : r \in RelationshipsAt(t)}}

Snapshot(t) == <<Shown(t), RelationshipsAt(t), EventsAt(t)>>

-----------------------------------------------------------------------------
(* A past snapshot is settled once every transaction begun by then is over:  *)
(* no later write, import or registry observation changes which entities,    *)
(* relationships and events it shows (constellation.ts:39).  Before that it  *)
(* may still change, as known_at is the moment a transaction began.          *)
Open(w) == tx[w].at \in {"open", "inserted"}

SnapshotSettled ==
  [][\A t \in 0..MaxTime :
       (t < now /\ \A w \in Writers : Open(w) => tx[w].began > t) => Snapshot(t)' = Snapshot(t)]_graphVars

Acyclic(R) == \A e \in R : ~Reaches(R, e[2], e[1])

(* Of any two of these rows, one's statement saw the other committed.        *)
InSight(C) ==
  \A g, h \in C : Pair(g) = Pair(h) \/ Pair(g) \in h.saw \/ Pair(h) \in g.saw

(* Provenance has no cycle but through edges that were in flight together:   *)
(* edges of which one always saw the other form none                         *)
(* (031_wormholes_star_dna.sql:30-42).                                       *)
CycleOnlyByOverlap ==
  \A C \in SUBSET Stored("edge") : InSight(C) => Acyclic(Edges(C))
=============================================================================
