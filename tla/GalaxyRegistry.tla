--------------------------- MODULE GalaxyRegistry ---------------------------
(***************************************************************************)
(* The registry ingress of src/src/server.ts and src/src/galaxy-registry.ts: *)
(* signed items are checked, admitted once by a replay record, written to    *)
(* the catalog and imported as stars of the constellation graph.             *)
(*                                                                           *)
(* The clock counts half seconds, since the check reads whole seconds and    *)
(* the database does not; it is one clock for both.  A message is known by   *)
(* its signature: its stamp in seconds and its item, of which registry id,   *)
(* evidence hash and observed_at are kept.                                   *)
(***************************************************************************)
EXTENDS Constellation

CONSTANTS Messages,  (* signed messages                                      *)
          Requests,  (* ingest requests, each carrying any message           *)
          Skew       (* SPR_REGISTRY_MAX_SKEW_SECONDS                        *)

ASSUME SkewOK == Skew \in Nat
ASSUME MessagesOK ==
  \A m \in Messages : m.stamp \in Nat /\ m.item.id \in STRING /\ m.item.observed \in Nat

VARIABLES ingest,    (* per request: where its handler is                    *)
          replay,    (* galaxy_registry_ingress_replay: messages on record   *)
          accepted,  (* history: each admission of a message                  *)
          catalog    (* galaxy_registry_catalog                              *)

galaxyVars == <<now, graph, tx, ingest, replay, accepted, catalog>>
registryVars == <<ingest, replay, accepted, catalog>>

New == [at |-> "new"]
Done == [at |-> "done"]

GalaxyInit ==
  /\ GraphInit
  /\ ingest = [q \in Requests |-> New]
  /\ replay = {}
  /\ accepted = {}
  /\ catalog = {}

Distance(a, b) == IF a < b THEN b - a ELSE a - b

Seconds(t) == t \div 2

(* expires_at of a message's replay record                                   *)
Expires(m) == 2 * (m.stamp + Skew)

(* The handler checks stamp and signature against its own clock.             *)
Check(q, m) ==
  /\ ingest[q] = New
  /\ Distance(Seconds(now), m.stamp) <= Skew
  /\ ingest' = [ingest EXCEPT ![q] = [at |-> "checked", message |-> m]]
  /\ UNCHANGED <<replay, accepted, catalog>>

OnRecordStrictly == {m \in replay : Expires(m) > now}

(* The DELETE of acceptIngress                                               *)
OnRecord == {m \in replay : ~(Expires(m) < now)}

(* acceptIngress: expired records go, and the message is admitted unless its *)
(* own is still there.                                                       *)
AcceptIngress(q) ==
  /\ ingest[q].at = "checked"
  /\ LET m == ingest[q].message
     IN IF m \in OnRecord
        THEN /\ replay' = OnRecord
             /\ ingest' = [ingest EXCEPT ![q] = Done]
             /\ UNCHANGED accepted
        ELSE /\ replay' = OnRecord \cup {m}
             /\ accepted' = accepted \cup {[message |-> m, by |-> q, expired |-> Expires(m) < now]}
             /\ ingest' = [ingest EXCEPT ![q].at = "accepted"]
  /\ UNCHANGED catalog

SameItem(i, j) == i.id = j.id /\ i.hash = j.hash

(* ingest: in a transaction of its own; the same evidence again only moves   *)
(* observed_at forward.                                                      *)
Ingest(q) ==
  /\ ingest[q].at = "accepted"
  /\ LET i   == ingest[q].message.item
         old == {j \in catalog : SameItem(i, j)}
     IN catalog' = IF \E j \in old : j.observed >= i.observed THEN catalog
                   ELSE (catalog \ old) \cup {i}
  /\ ingest' = [ingest EXCEPT ![q] = Done]
  /\ UNCHANGED <<replay, accepted>>

(* The process dies between two transactions: an admitted message is lost    *)
(* with its request.                                                         *)
RequestDies(q) ==
  /\ ingest[q].at \in {"checked", "accepted"}
  /\ ingest' = [ingest EXCEPT ![q] = Done]
  /\ UNCHANGED <<replay, accepted, catalog>>

Star(i) ==
  [table |-> "entity", source |-> "SPR_REGISTRY", key |-> i.id, first |-> i.observed, last |-> i.observed]

(* importStar: one transaction reads the latest item of a registry id and    *)
(* upserts its star, always UNKNOWN and UNAUTHORIZED.                        *)
ImportStar(w, i) ==
  /\ tx[w] = NoTx
  /\ Cardinality(graph) < MaxRows
  /\ i \in catalog
  /\ \A j \in catalog : j.id = i.id => j.observed <= i.observed
  /\ tx' = [tx EXCEPT ![w] = [at |-> "inserted", new |-> Stamped(Star(i), now), began |-> now]]
  /\ UNCHANGED <<now, graph>>

IngressNext ==
  \E q \in Requests :
    (\E m \in Messages : Check(q, m)) \/ AcceptIngress(q) \/ Ingest(q) \/ RequestDies(q)

GalaxyNext ==
  \/ IngressNext /\ UNCHANGED graphVars
  \/ (GraphNext \/ \E w \in Writers, i \in catalog : ImportStar(w, i)) /\ UNCHANGED registryVars

GalaxySpec == GalaxyInit /\ [][GalaxyNext]_galaxyVars

-----------------------------------------------------------------------------
(* A signed message is admitted a second time only once its replay record    *)
(* has expired: concurrent or repeated requests, and requests that waited    *)
(* between check and admission, never both pass before (galaxy-registry.ts:  *)
(* 39-47).  After the expiry one can: the check rounds the clock down to     *)
(* whole seconds, and is not repeated.                                       *)
ReplayRefusedUntilExpiry ==
  \A a, b \in accepted :
    a # b /\ a.message = b.message => a.expired \/ b.expired
=============================================================================
