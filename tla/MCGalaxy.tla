------------------------------ MODULE MCGalaxy ------------------------------
EXTENDS GalaxyRegistry, TLC

Api(k) == [table |-> "entity", source |-> "API", key |-> k, first |-> 0, last |-> 0]
Edge(a, b) == [table |-> "edge", parent |-> a, child |-> b, occurred |-> 0]

(* A star that only an import brings, an entity of the API, and what joins   *)
(* them: a relationship that ends, edges both ways, and events of the star,  *)
(* of the relationship, and of both.                                         *)
MCRows ==
  {Api("agent"), Edge("agent", "star"), Edge("star", "agent"),
   [table |-> "relationship", from |-> "star", to |-> "agent", hash |-> "h", observed |-> 0, ended |-> 2]}
  \cup {[table |-> "event", about |-> k, link |-> h, occurred |-> 1] :
          <<k, h>> \in {<<"star", Null>>, <<Null, "h">>, <<"star", "h">>}}

(* Two versions of one registry item, signed one second apart.               *)
MCMessages ==
  {[stamp |-> 0, item |-> [id |-> "star", hash |-> "v1", observed |-> 0]],
   [stamp |-> 1, item |-> [id |-> "star", hash |-> "v2", observed |-> 1]]}

MCSymmetry == Permutations(Writers) \cup Permutations(Requests)
=============================================================================
