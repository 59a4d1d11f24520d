---------------------------- MODULE FerryChains ----------------------------
(***************************************************************************)
(* Stages 2, 4 and 5 of the rebuild: which piers are sea piers, which      *)
(* anchors are joined as the crow flies, and the ferry crossings and       *)
(* landings that are appended to that graph.                               *)
(*                                                                         *)
(*   pgrouting/chain/classify_piers.py                                     *)
(*   pgrouting/chain/crow_flies_chain_graph.py                             *)
(*   pgrouting/chain/augment_way_city_graph_with_ferries.py                *)
(*                                                                         *)
(* Between stages 2 and 4 the sea piers and settlements become anchors;    *)
(* which of them give way there is AnchorSelect's.                         *)
(*                                                                         *)
(* A pier is the vertex it stands at.  Anchors lie on a grid, distances    *)
(* go along its axes; a degree east is STRETCH times a degree north.  The  *)
(* compass has the two-fold overlap of the code's, in half circles every   *)
(* quarter (CROW_SECTOR_WIDTH_DEG = 180, CROW_SECTOR_STRIDE_DEG = 90).     *)
(***************************************************************************)
EXTENDS Integers, Sequences, FiniteSets, ShortestWays

CONSTANTS
    FerryWays,      \* rows a table may have: [source, target, length, routable]
    Piers, Land,    \* ferry_piers.geojsonseq, and the settlements of stage 3
    At,             \* a point <<x, y>> for each of them
    MAX_SEA_WAY_M, SHORTEST_WAY_M, MAX_EDGE_M, PIER_LAND_MAX_M, PIER_LAND_K,
    STRETCH, MaxRuns

FerryChainsAssumption ==
    /\ FerryWays \subseteq [source : Nat, target : Nat, length : Nat, routable : BOOLEAN]
    /\ Piers \subseteq Nat /\ Land \subseteq Nat /\ Piers \cap Land = {}
    /\ IsFiniteSet(FerryWays)
    /\ At \in [Piers \cup Land -> Int \X Int]
    /\ MAX_SEA_WAY_M \in Nat \ {0} /\ SHORTEST_WAY_M \in Nat \ {0} /\ MAX_EDGE_M \in Nat
    /\ PIER_LAND_K \in Nat \ {0} /\ STRETCH \in Nat \ {0}

VARIABLES
    pc,
    rows,       \* the ferry ways of the database
    anchors,    \* way_city_anchors.geojson
    edges,      \* way_city_graph.json: [a, b, cost, mark]
    todo,       \* what the stage still has to look at: piers, or <<anchor, sector>>
    start,      \* the pier the search is for
    cost_to, q, \* lengths found, vertices whose neighbours are to be improved
    runs        \* of stage 5

vars == <<pc, rows, anchors, edges, todo, start, cost_to, q, runs>>

Abs(n) == IF n < 0 THEN -n ELSE n
East(a, b) == At[b][1] - At[a][1]
North(a, b) == At[b][2] - At[a][2]
Distance(a, b) == Abs(East(a, b)) + Abs(North(a, b))
Degrees(a, b) == STRETCH * Abs(East(a, b)) + Abs(North(a, b))

Least(S) == CHOOSE x \in S : \A y \in S : x <= y
Nearest(a, S) == {x \in S : \A y \in S : Distance(a, x) <= Distance(a, y)}

---------------------------------------------------------------------------
(* Stage 2 *)

\* Rows with a length, read in both directions.
Hops(table) ==
    {[from |-> r.source, to |-> r.target, cost |-> r.length] : r \in table} \cup
    {[from |-> r.target, to |-> r.source, cost |-> r.length] : r \in table}

Component(v) ==
    LET known == {r \in rows : r.length > 0} IN
    {r \in known : r.source \in ReachedFrom({v}, Hops(known))}

\* A component is a sea if one of its ways is long enough.
IsSea(v) == \E r \in Component(v) : r.length >= MAX_SEA_WAY_M

Init ==
    /\ pc = "classify"
    /\ rows \in SUBSET FerryWays
    /\ anchors = {} /\ edges = {} /\ todo = {} /\ start = 0
    /\ cost_to = [v \in {} |-> 0] /\ q = <<>> /\ runs = 0

Sectors == {"east", "south", "west", "north"}

\* Piers of rivers, and piers without a ferry, are no anchors.
ClassifyPiers ==
    /\ pc = "classify"
    /\ anchors' = Land \cup {p \in Piers : IsSea(p)}
    /\ todo' = (anchors') \X Sectors
    /\ pc' = "crow"
    /\ UNCHANGED <<rows, edges, start, cost_to, q, runs>>

---------------------------------------------------------------------------
(* Stage 4 *)

InSector(a, b, s) ==
    LET x == East(a, b)  y == North(a, b) IN
    CASE s = "east"  -> x > 0 \/ (x = 0 /\ y >= 0)
      [] s = "south" -> y < 0 \/ (y = 0 /\ x > 0)
      [] s = "west"  -> x < 0 \/ (x = 0 /\ y < 0)
      [] s = "north" -> y > 0 \/ (y = 0 /\ x <= 0)

Candidates(a, s) ==
    {b \in anchors \ {a} : Distance(a, b) <= MAX_EDGE_M /\ InSector(a, b, s)}

Edge(a, b, cost, mark) == [a |-> a, b |-> b, cost |-> cost, mark |-> mark]
Known(a, b) == \E e \in edges : {e.a, e.b} = {a, b}

\* The closest candidate of each sector, the first found of several equals.
JoinSector ==
    /\ pc = "crow" /\ todo # {}
    /\ LET p == CHOOSE x \in todo : TRUE
           a == p[1]
           candidates == Candidates(a, p[2]) IN
       /\ todo' = todo \ {p}
       /\ IF candidates = {} THEN UNCHANGED edges
          ELSE \E b \in Nearest(a, candidates) :
                 edges' = IF Known(a, b) THEN edges
                          ELSE edges \cup {Edge(a, b, Distance(a, b), "air")}
    /\ UNCHANGED <<pc, rows, anchors, start, cost_to, q, runs>>

---------------------------------------------------------------------------
(* Stage 5 *)

\* What stage 5 loads is less than stage 2 looked at.
Usable == {r \in rows : r.routable /\ r.length >= SHORTEST_WAY_M}
FerryVertices == UNION {{r.source, r.target} : r \in Usable}
SeaPiers == anchors \cap Piers

\* It appends to the graph it finds, its own of an earlier run included.
Augment ==
    /\ \/ pc = "crow" /\ todo = {}
       \/ pc = "written" /\ runs < MaxRuns
    /\ runs' = runs + 1
    /\ todo' = SeaPiers
    /\ pc' = "ferries"
    /\ UNCHANGED <<rows, anchors, edges, start, cost_to, q>>

\* A pier whose ways were not loaded is skipped.
StartSearch ==
    /\ pc = "ferries" /\ todo # {}
    /\ start' = Least(todo)
    /\ todo' = todo \ {start'}
    /\ IF start' \in FerryVertices
       THEN /\ cost_to' = [v \in {start'} |-> 0]
            /\ q' = <<start'>>
            /\ pc' = "search"
       ELSE UNCHANGED <<pc, cost_to, q>>
    /\ UNCHANGED <<rows, anchors, edges, runs>>

\* Slip: a vertex keeps the length it was first reached with.
NotReached(v, cost) == v \notin DOMAIN cost_to

Improves(v, cost) == v \notin DOMAIN cost_to \/ cost < cost_to[v]

\* A vertex whose length improves is queued, again if need be.
Expand ==
    /\ pc = "search" /\ q # <<>>
    /\ LET u == Head(q)
           hops == {h \in Hops(Usable) : h.from = u}
           length(v) == cost_to[u] + Least({h.cost : h \in {x \in hops : x.to = v}})
           better == {v \in {h.to : h \in hops} : Improves(v, length(v))}
       IN  /\ cost_to' = [v \in DOMAIN cost_to \cup better |->
                            IF v \in better THEN length(v) ELSE cost_to[v]]
           /\ \E order \in [1..Cardinality(better) -> better] :
                /\ \A v \in better : \E n \in DOMAIN order : order[n] = v
                /\ q' = Tail(q) \o order
    /\ UNCHANGED <<pc, rows, anchors, edges, todo, start, runs>>

\* The piers reached get their edge from the pier of the smaller number,
\* unless there is one.
EmitCrossings ==
    /\ pc = "search" /\ q = <<>>
    /\ edges' = edges \cup
         {Edge(start, v, cost_to[v], "ferry") :
            v \in {w \in DOMAIN cost_to \cap SeaPiers : w > start /\ ~Known(start, w)}}
    /\ pc' = "ferries"
    /\ UNCHANGED <<rows, anchors, todo, start, cost_to, q, runs>>

CrossingsDone ==
    /\ pc = "ferries" /\ todo = {}
    /\ todo' = IF Land = {} THEN {} ELSE SeaPiers
    /\ pc' = "landings"
    /\ UNCHANGED <<rows, anchors, edges, start, cost_to, q, runs>>

\* The K nearest in degrees, of those in reach.
Landings(p) ==
    LET near == {l \in Land : Degrees(p, l) < PIER_LAND_MAX_M}
        closer(l, m) == Degrees(p, l) < Degrees(p, m)
    IN  {S \in SUBSET near :
            /\ Cardinality(S) <= PIER_LAND_K
            /\ Cardinality(S) = PIER_LAND_K \/ S = near
            /\ \A l \in S, m \in near \ S : ~closer(m, l)}

JoinLand ==
    /\ pc = "landings" /\ todo # {}
    /\ LET p == Least(todo) IN
       /\ \E S \in Landings(p) :
            edges' = edges \cup
              {Edge(p, l, Distance(p, l), "landing") : l \in {m \in S : ~Known(p, m)}}
       /\ todo' = todo \ {p}
    /\ UNCHANGED <<pc, rows, anchors, start, cost_to, q, runs>>

WriteGraph ==
    /\ pc = "landings" /\ todo = {}
    /\ pc' = "written"
    /\ UNCHANGED <<rows, anchors, edges, todo, start, cost_to, q, runs>>

Next ==
    \/ ClassifyPiers \/ JoinSector \/ Augment \/ StartSearch \/ Expand
    \/ EmitCrossings \/ CrossingsDone \/ JoinLand \/ WriteGraph

Spec == Init /\ [][Next]_vars

---------------------------------------------------------------------------
(* What stage 6 may start from *)

\* An anchor is joined to something as near as any candidate, in each of the
\* directions that candidate lies in.
EveryDirection ==
    \A a \in anchors : \A s \in Sectors : \A b \in Candidates(a, s) :
        \E c \in Candidates(a, s) : Known(a, c) /\ Distance(a, c) <= Distance(a, b)

AllWater == MapThenSumSet(LAMBDA r : r.length, rows)

\* Two piers joined by ferries one can ride are joined; an edge that is marked
\* as a crossing is as long as the shortest way over the water.
EveryCrossing ==
    \A p \in SeaPiers :
        LET shortest == Costs({p}, Hops(Usable), AllWater) IN
        /\ \A r \in (DOMAIN shortest \cap SeaPiers) \ {p} : Known(p, r)
        /\ \A e \in edges : e.mark = "ferry" /\ e.a = p => e.cost = shortest[e.b]

\* No pier is left without one of the land anchors that are nearest to it.
EveryPierLands ==
    \A p \in SeaPiers :
        LET near == {l \in Land : Degrees(p, l) < PIER_LAND_MAX_M} IN
        near # {} =>
            \E l \in near : Known(p, l) /\ \A m \in near : Degrees(p, l) <= Degrees(p, m)

OneEdgePerPair ==
    \A e, f \in edges : {e.a, e.b} = {f.a, f.b} => e = f

\* A written graph joins every anchor in all its directions, every two piers
\* with a ferry between them, at its true length, and every pier with the land,
\* and holds no pair twice, also when stage 5 is run over its own output.
CrossingsJoinTheChain ==
    pc = "written" => EveryDirection /\ EveryCrossing /\ EveryPierLands /\ OneEdgePerPair
=============================================================================
