----------------------------- MODULE TrunkTrees -----------------------------
(***************************************************************************)
(* How the trunks come about: the ways of the database are cut into cells  *)
(* (spt/export_cells.py), every city gets a polygon                        *)
(* (chain/compute_anchor_spt_polygons.py) and a tree of cheapest ways in   *)
(* it (spt/compute_spts_polygon.py), the chain graph gets its weights      *)
(* (paired/adapt_polygon_to_paired.py), each of its pairs the slice of the *)
(* tree a router walks (paired/build_polygon_paired_db_v2.py), and what no *)
(* router reaches is pruned (paired/prune_paired_trunks.py).               *)
(*                                                                         *)
(* The land is a line: a vertex is the place where it lies, a polygon an   *)
(* open interval.                                                          *)
(***************************************************************************)
EXTENDS Integers, Sequences, FiniteSets, ShortestWays, SequencesExt, TLC

CONSTANTS
    WaySets,        \* sets of rows [src, dst, cost, reverse_cost, excluded]
    Vertices,       \* of the database
    Cities, Place,  \* numbers, and where each lies
    Piers,
    Chains,         \* chain graphs: sets of [a, b, geom, cost]
    CELL, TILE, BUFFER, PAD, DISC, SEED_RADIUS,
    MAX_CLIMB,      \* rounds in which a pair's ancestors are looked for
    BORDER, MAX_PASSES,
    None

NULL == -1

TrunkTreesAssumption ==
    /\ {CELL, TILE} \subseteq Nat \ {0}
    /\ {BUFFER, PAD, DISC, SEED_RADIUS, MAX_CLIMB, BORDER, MAX_PASSES} \subseteq Nat
    /\ Vertices \subseteq Nat /\ Piers \subseteq Cities /\ Cities \subseteq Nat
    /\ None \notin Int
    /\ \A W \in WaySets : IsFiniteSet(W) /\ \A w \in W :
            w.src \in Int /\ w.dst \in Int /\ {w.cost, w.reverse_cost} \subseteq Int \cup {None}
    /\ \A g \in Chains : \A e \in g : {e.a, e.b} \subseteq Cities /\ Len(e.geom) > 1

VARIABLES
    pc,
    ways, chain,    \* the database and way_city_graph.json
    cells,          \* the exported edges
    todo,           \* cities without a tree
    npz,            \* the trees
    graph,          \* city_graph.json: [from, to, weight]
    source,         \* paired_trunks.db: for a pair its rows, vid -> succ
    trunks,         \* the same, pruned
    pass, turn, changed

vars == <<pc, ways, chain, cells, todo, npz, graph, source, trunks, pass, turn, changed>>

Distance(u, v) == IF u < v THEN v - u ELSE u - v
Least(S) == CHOOSE x \in S : \A y \in S : x <= y
Greatest(S) == CHOOSE x \in S : \A y \in S : x >= y

---------------------------------------------------------------------------
(* Cells *)

\* A way without a cost, or with an end that is no vertex, is left out.  A
\* missing cost backwards means that it is closed that way.
Exported(w) ==
    /\ ~w.excluded /\ w.cost # None
    /\ {w.src, w.dst} \subseteq Vertices
CellRow(w) == [src |-> w.src, dst |-> w.dst, cost |-> w.cost,
               reverse_cost |-> IF w.reverse_cost = None THEN -1 ELSE w.reverse_cost]

\* The rows of the cells that meet an interval.
Loaded(lo, hi) == {e \in cells : e.src \div CELL \in (lo \div CELL)..(hi \div CELL)}

Arcs(es) == Csr(
    {[from |-> e.src, to |-> e.dst, cost |-> e.cost, of |-> e] :
        e \in {x \in es : x.cost >= 0}} \cup
    {[from |-> e.dst, to |-> e.src, cost |-> e.reverse_cost, of |-> e] :
        e \in {x \in es : x.reverse_cost >= 0}})

---------------------------------------------------------------------------
(* Polygons *)

\* The chain edges at a city, told from its end.
EdgesAt(a) ==
    {[to |-> e.b, geom |-> e.geom] : e \in {x \in chain : x.a = a}} \cup
    {[to |-> e.a, geom |-> Reverse(e.geom)] : e \in {x \in chain : x.b = a}}

Along(geom, n) ==
    LET along[i \in 1..n] ==
            IF i = 1 THEN 0 ELSE along[i - 1] + Distance(geom[i - 1], geom[i])
    IN  along[n]

\* A line up to the first point at or past its middle.
FirstHalf(geom) ==
    LET past == {i \in 2..Len(geom) : 2 * Along(geom, i) >= Along(geom, Len(geom))}
    IN  {geom[i] : i \in 1..Least(past)}

Circle(at) == {at - DISC, at + DISC}

\* The points the polygon is the hull of: the city's disc; all of the way to
\* each neighbour, the neighbour's disc and half of each way beyond it.  Of a
\* pier only the place counts, and that only on land's side.
PolygonPoints(a) ==
    LET land == {e \in EdgesAt(a) : e.to \notin Piers}
        piers == IF a \in Piers THEN {} ELSE {e \in EdgesAt(a) : e.to \in Piers}
        beyond == UNION {{f \in EdgesAt(e.to) : f.to # a /\ f.to \notin Piers} : e \in land}
    IN  Circle(Place[a])
        \cup UNION {Range(e.geom) \cup Circle(Last(e.geom)) : e \in land}
        \cup {Last(e.geom) : e \in piers}
        \cup UNION {FirstHalf(f.geom) : f \in beyond}

West(a) == Least(PolygonPoints(a))
East(a) == Greatest(PolygonPoints(a))

---------------------------------------------------------------------------
(* Trees *)

\* What a city's tree is computed from: the cells around its tile, or around
\* the polygon if that is too big for them.
TileOf(a) == Place[a] \div TILE
GraphOf(a) ==
    LET lo == TileOf(a) * TILE - BUFFER
        hi == (TileOf(a) + 1) * TILE + BUFFER
    IN  Arcs(IF West(a) >= lo /\ East(a) <= hi THEN Loaded(lo, hi)
             ELSE Loaded(West(a) - PAD, East(a) + PAD))

Inside(a, arcs) == {v \in UNION {{x.from, x.to} : x \in arcs} : West(a) < v /\ v < East(a)}
Within(arcs, S) == {x \in arcs : x.from \in S /\ x.to \in S}

\* A frontier vertex has a road out of the polygon.
FrontierOf(S, arcs, inside) ==
    {v \in S : \E x \in arcs : x.from = v /\ x.to \notin inside}

TreesOf(a) ==
    LET all == GraphOf(a)
        inside == Inside(a, all)
        arcs == Within(all, inside)
        seeds == {v \in inside : Distance(v, Place[a]) <= SEED_RADIUS}
        dist == Costs(seeds, arcs, MapThenSumSet(LAMBDA x : x.cost, arcs))
    IN  IF seeds = {} THEN {None}
        ELSE {[cost |-> dist, parent |-> p,
               frontier |-> FrontierOf(DOMAIN dist, all, inside)] : p \in Parents(seeds, dist, arcs, None)}

NodesOf(a) == IF npz[a] = None THEN {} ELSE DOMAIN npz[a].cost
SeedsOf(a) == {v \in NodesOf(a) : npz[a].cost[v] = 0}

---------------------------------------------------------------------------
(* Weights and trunks *)

\* From a to b: what it costs, in the tree of b, to reach a; the chain's own
\* cost if that is less or the only one.
Weight(a, b, cost) ==
    LET known == {npz[b].cost[v] : v \in SeedsOf(a) \cap NodesOf(b)}
                 \cup (IF cost > 0 THEN {cost} ELSE {})
    IN  IF known = {} THEN cost ELSE Least(known)

\* One way further in each round, and no further when the rounds are over.
Ancestors(parent, leaves) ==
    LET up[n \in 0..MAX_CLIMB] ==
            IF n = 0 THEN leaves
            ELSE LET S == up[n - 1] IN S \cup ({parent[v] : v \in S} \ {None})
    IN  up[MAX_CLIMB]

SynthVid(a) == -2 - a
Degenerate(a, b) ==
    [v \in {SynthVid(a), SynthVid(b)} |-> IF v = SynthVid(a) THEN SynthVid(b) ELSE NULL]

\* Slip: without the vertices where it crosses.
KeptBackbone(a, b) ==
    LET parent == npz[a].parent
        fonly == NodesOf(a) \ NodesOf(b)
    IN  fonly \cap Ancestors(parent, npz[a].frontier \cap fonly)

\* The part of a's tree outside of b's that leads out of the polygon, and the
\* vertices where it crosses into b's.
KeptRows(a, b) ==
    LET parent == npz[a].parent
        fonly == NodesOf(a) \ NodesOf(b)
        bfrontier == {parent[v] : v \in fonly} \cap NodesOf(b)
    IN  IF fonly = {} THEN {}
        ELSE (fonly \cap Ancestors(parent, npz[a].frontier \cap fonly)) \cup bfrontier

BuildPair(a, b) ==
    LET kept == IF npz[b] = None THEN {} ELSE KeptRows(a, b) IN
    IF kept = {} THEN Degenerate(a, b)
    ELSE [v \in kept |-> IF npz[a].parent[v] \in kept THEN npz[a].parent[v] ELSE NULL]

---------------------------------------------------------------------------
(* Pruning *)

TerminiOf(rows) == {v \in DOMAIN rows : rows[v] = NULL}

IsBorder(a) ==
    LET places == {Place[c] : c \in Cities} IN
    Distance(Place[a], Least(places)) < BORDER \/ Distance(Place[a], Greatest(places)) < BORDER

\* Slip: the first neighbour's stand for the others'.
EntriesOfFirst(a, db) ==
    LET from == {x \in Cities : <<x, a>> \in DOMAIN db} IN
    IF from = {} THEN {} ELSE TerminiOf(db[<<Least(from), a>>])

\* Where the walks into a end, and those of a may so begin.
Entries(a, db) ==
    UNION {TerminiOf(db[<<x, a>>]) : x \in {y \in Cities : <<y, a>> \in DOMAIN db}}

WalkFrom(rows, starts) ==
    LET walk[n \in 0..Cardinality(DOMAIN rows)] ==
            IF n = 0 THEN starts \cap DOMAIN rows
            ELSE LET S == walk[n - 1] IN S \cup ({rows[v] : v \in S} \cap DOMAIN rows)
    IN  walk[Cardinality(DOMAIN rows)]

PruneTrunk(rows, entries) ==
    LET reached == WalkFrom(rows, entries) IN
    IF reached = {} THEN rows ELSE [v \in reached |-> rows[v]]

---------------------------------------------------------------------------
Init ==
    /\ pc = "export"
    /\ ways \in WaySets /\ chain \in Chains
    /\ cells = {} /\ todo = Cities
    /\ npz = [c \in Cities |-> None]
    /\ graph = {} /\ source = <<>> /\ trunks = <<>>
    /\ pass = 1 /\ turn = Cities /\ changed = FALSE

ExportCells ==
    /\ pc = "export"
    /\ cells' = {CellRow(w) : w \in {x \in ways : Exported(x)}}
    /\ pc' = "spt"
    /\ UNCHANGED <<ways, chain, todo, npz, graph, source, trunks, pass, turn, changed>>

\* The workers share nothing they write to: their order makes no difference.
ComputeSpt ==
    /\ pc = "spt" /\ todo # {}
    /\ \E t \in TreesOf(Least(todo)) : npz' = [npz EXCEPT ![Least(todo)] = t]
    /\ todo' = todo \ {Least(todo)}
    /\ UNCHANGED <<pc, ways, chain, cells, graph, source, trunks, pass, turn, changed>>

AdaptGraph ==
    /\ pc = "spt" /\ todo = {}
    /\ graph' = UNION {{[from |-> e.a, to |-> e.b, weight |-> Weight(e.a, e.b, e.cost)],
                        [from |-> e.b, to |-> e.a, weight |-> Weight(e.b, e.a, e.cost)]} :
                            e \in chain}
    /\ pc' = "paired"
    /\ UNCHANGED <<ways, chain, cells, todo, npz, source, trunks, pass, turn, changed>>

\* A city without a tree has no trunks.
BuildPaired ==
    /\ pc = "paired"
    /\ source' = [p \in {<<e.from, e.to>> : e \in {x \in graph : npz[x.from] # None}} |->
                    BuildPair(p[1], p[2])]
    /\ trunks' = source'
    /\ pc' = "prune"
    /\ UNCHANGED <<ways, chain, cells, todo, npz, graph, pass, turn, changed>>

\* One city of a pass.  Those at the border keep everything, and so does a
\* trunk that nothing leads to.
PruneCity ==
    /\ pc = "prune" /\ turn # {} /\ pass <= MAX_PASSES
    /\ LET a == Least(turn)
           pruned == [p \in DOMAIN trunks |->
                IF p[1] = a /\ ~IsBorder(a) THEN PruneTrunk(trunks[p], Entries(a, trunks))
                ELSE trunks[p]]
       IN  /\ trunks' = pruned
           /\ changed' = (changed \/ \E p \in DOMAIN trunks :
                            TerminiOf(pruned[p]) # TerminiOf(trunks[p]))
           /\ turn' = turn \ {a}
    /\ UNCHANGED <<pc, ways, chain, cells, todo, npz, graph, source, pass>>

NextPass ==
    /\ pc = "prune" /\ turn = {} /\ changed /\ pass <= MAX_PASSES
    /\ pass' = pass + 1 /\ turn' = Cities /\ changed' = FALSE
    /\ UNCHANGED <<pc, ways, chain, cells, todo, npz, graph, source, trunks>>

WritePruned ==
    /\ pc = "prune"
    /\ (turn = {} /\ ~changed) \/ pass > MAX_PASSES
    /\ pc' = "deployed"
    /\ UNCHANGED <<ways, chain, cells, todo, npz, graph, source, trunks, pass, turn, changed>>

Next ==
    \/ ExportCells \/ ComputeSpt \/ AdaptGraph \/ BuildPaired
    \/ PruneCity \/ NextPass \/ WritePruned

Spec == Init /\ [][Next]_vars

---------------------------------------------------------------------------
(* What a router may rely on *)

\* The walk from v to a's seed has more ways than a pair's ancestors are
\* followed over.
TooDeep(a, v) == Cardinality(WalkFrom(npz[a].parent, {v})) > MAX_CLIMB + 1

\* Every walk in the trunk from a to b ends, and it ends where b's tree can
\* take over or at a itself, unless a road leads out of a's polygon from so
\* deep in a's tree that the trunk was cut off before it came to the seed.
WalksArrive ==
    pc = "prune" =>
        \A p \in DOMAIN source : source[p] # Degenerate(p[1], p[2]) =>
            \A v \in DOMAIN source[p] :
                LET ends == TerminiOf(source[p]) \cap WalkFrom(source[p], {v}) IN
                /\ ends # {}
                /\ \/ ends \subseteq NodesOf(p[2]) \cup SeedsOf(p[1])
                   \/ \E u \in npz[p[1]].frontier \ NodesOf(p[2]) : TooDeep(p[1], u)

\* A router that came over the trunk from x to a and goes on from a to b finds
\* the same walk in the pruned trunks as it would have in those that were built.
PruningKeepsWalks ==
    pc = "deployed" =>
        \A p \in DOMAIN trunks, q \in DOMAIN trunks : p[2] = q[1] =>
            \A t \in TerminiOf(trunks[p]) :
                WalkFrom(trunks[q], {t}) = WalkFrom(source[q], {t})
=============================================================================
