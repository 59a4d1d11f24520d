---------------------------- MODULE VoronoiGraph ----------------------------
(***************************************************************************)
(* pgrouting/chain/build_way_graph.py: a chain graph from the main roads.  *)
(* Roads are followed along their name or number, gaps in them bridged,    *)
(* anchors snapped, and two anchors joined where the vertices nearest to   *)
(* the one meet those nearest to the other.  The land is worked off tile   *)
(* by tile, and the tiles' edges merged.                                   *)
(*                                                                         *)
(* The land is a line.  A vertex is numbered as it is met in the rows; two *)
(* may lie in one place.  Where the order of equals depends on a sort or a *)
(* tree, the lower vertex is first.                                        *)
(***************************************************************************)
EXTENDS Integers, Sequences, FiniteSets, ShortestWays, SequencesExt

CONSTANTS
    RowSets,        \* tables of ways: sets of [src, dst, length, way]
    Tags,           \* for each way of a main or promotable class [seed, name, ref]
    Place,          \* vertex -> where it lies
    Anchors, At,    \* by ref, in their order, and where each lies
    CORE, BUFFER,   \* of a tile
    GAP,            \* BRIDGE_GAP_M
    REACH,          \* ANCHOR_BUFFER_M
    MAX_SNAPS,      \* MAX_SNAPS_PER_ANCHOR
    None

Untagged == ""

VoronoiAssumption ==
    /\ \A t \in RowSets : IsFiniteSet(t) /\ \A r \in t :
            {r.src, r.dst} \subseteq DOMAIN Place /\ r.src # r.dst /\ r.length \in Nat /\ r.way \in DOMAIN Tags
    /\ DOMAIN Place \subseteq Int /\ \A v \in DOMAIN Place : Place[v] \in Int
    /\ Anchors \subseteq Int /\ IsFiniteSet(Anchors) /\ At \in [Anchors -> Int]
    /\ None \notin Int
    /\ CORE \in Nat \ {0} /\ {BUFFER, GAP, REACH, MAX_SNAPS} \subseteq Nat

VARIABLES
    pc,
    table,      \* the ways
    manifest,   \* whether /data/subgraph_cells has been exported
    tiles,      \* western ends of the cores left to do
    edges,      \* the subgraph at hand: [src, dst, length, way], None a bridge
    label,      \* vertex -> the anchor it belongs to, where it is not -1
    found,      \* chain edges of the tile: [a, b, cost, geom]
    merged,     \* those of all tiles
    snapped     \* anchors with a road

vars == <<pc, table, manifest, tiles, edges, label, found, merged, snapped>>

Distance(u, v) == IF u < v THEN v - u ELSE u - v
Least(S) == CHOOSE x \in S : \A y \in S : x <= y
Greatest(S) == CHOOSE x \in S : \A y \in S : x >= y
Ends(r) == {r.src, r.dst}

---------------------------------------------------------------------------
(* Tiles *)

\* From the whole core at or before the first anchor to the one at or after
\* the last, those with an anchor in them.
Cores ==
    LET first == Least({At[a] : a \in Anchors}) \div CORE
        end == -((-Greatest({At[a] : a \in Anchors})) \div CORE)
    IN  {x \in {CORE * i : i \in first..(end - 1)} :
            \E a \in Anchors : x <= At[a] /\ At[a] < x + CORE}

\* Half-open, so that an anchor is in one core only.
AnchorsIn(lo, hi) == {a \in Anchors : lo <= At[a] /\ At[a] < hi}

Candidates(lo, hi) ==
    {r \in table : /\ r.length > 0
                   /\ Tags[r.way].seed \/ {Tags[r.way].name, Tags[r.way].ref} # {Untagged}
                   /\ \E v \in Ends(r) : lo <= Place[v] /\ Place[v] <= hi}

---------------------------------------------------------------------------
(* The subgraph *)

SameTag(s, t) == s = t /\ s # Untagged
SameRoad(w, x) == SameTag(Tags[w].name, Tags[x].name) \/ SameTag(Tags[w].ref, Tags[x].ref)

\* From the main roads on to the ways of the same name or number they meet.
FloodFill(rows) ==
    LET verts(w) == UNION {Ends(r) : r \in {x \in rows : x.way = w}}
        ways == {r.way : r \in rows}
        pass[n \in 0..Cardinality(ways)] ==
            IF n = 0 THEN {w \in ways : Tags[w].seed}
            ELSE LET S == pass[n - 1] IN
                 S \cup {x \in ways : \E w \in S :
                            SameRoad(w, x) /\ verts(w) \cap verts(x) # {}}
        inSet == pass[Cardinality(ways)]
    IN  {r \in rows : r.way \in inSet}

\* Parallel edges add up.
Arcs(es) == Csr(
    {[from |-> e.src, to |-> e.dst, cost |-> e.length, of |-> e] : e \in es} \cup
    {[from |-> e.dst, to |-> e.src, cost |-> e.length, of |-> e] : e \in es})

VertsOf(es) == UNION {Ends(e) : e \in es}
Component(v, es) == ReachedFrom({v}, Arcs(es))

\* The root of v, and the forest with the way to it halved.
Find(parent, v) ==
    LET up[n \in 0..Cardinality(DOMAIN parent)] ==
            IF n = 0 THEN [root |-> v, parent |-> parent]
            ELSE LET s == up[n - 1]
                     halved == [s.parent EXCEPT ![s.root] = s.parent[s.parent[s.root]]]
                 IN  [root |-> halved[s.root], parent |-> halved]
    IN  up[Cardinality(DOMAIN parent)]

\* The edges in the order of their rows, each joining the trees of its ends.
Join(es) ==
    LET joined[n \in 0..Cardinality(es)] ==
            IF n = 0 THEN [parent |-> [v \in VertsOf(es) |-> v], left |-> es]
            ELSE LET s == joined[n - 1]
                     e == CHOOSE x \in s.left :
                            \A y \in s.left : Least(Ends(x)) <= Least(Ends(y))
                     f == Find(s.parent, e.src)
                     g == Find(f.parent, e.dst)
                 IN  [parent |-> [g.parent EXCEPT ![f.root] = g.root], left |-> s.left \ {e}]
    IN  joined[Cardinality(es)].parent

\* A vertex is labelled with its parent after one more search each, which is not
\* the root if that was far: one component can have several labels.
Components(es) ==
    LET searched[n \in 0..Cardinality(VertsOf(es))] ==
            IF n = 0 THEN [parent |-> Join(es), left |-> VertsOf(es)]
            ELSE LET s == searched[n - 1]
                     v == Least(s.left)
                 IN  [parent |-> Find(s.parent, v).parent, left |-> s.left \ {v}]
        forest == searched[Cardinality(VertsOf(es))].parent
    IN  [v \in VertsOf(es) |-> forest[v]]

\* Vertices of one road that are near but not joined.
WaysAt(v) == {e.way : e \in {x \in edges : v \in Ends(x) /\ x.way # None}}
Gap(p) == Distance(Place[p[1]], Place[p[2]])
Bridgeable ==
    {p \in VertsOf(edges) \X VertsOf(edges) :
        /\ p[1] < p[2] /\ Gap(p) <= GAP
        /\ p[2] \notin Component(p[1], edges)
        /\ \E w \in WaysAt(p[1]), x \in WaysAt(p[2]) : SameRoad(w, x)}

---------------------------------------------------------------------------
(* Territories *)

Off(v, a) == Distance(Place[v], At[a])
Before(a, u, v) ==
    \/ Off(u, a) < Off(v, a)
    \/ Off(u, a) = Off(v, a) /\ u < v

\* Of each label the nearest vertex within reach, for so many labels.
SnapsOf(a, of) ==
    LET near == {v \in DOMAIN of : Off(v, a) <= REACH}
        nearest == {v \in near : \A u \in near \ {v} : of[u] = of[v] => Before(a, v, u)}
    IN  {v \in nearest : Cardinality({u \in nearest : Before(a, u, v)}) < MAX_SNAPS}

\* The anchor that is the nearest of those that snapped to a vertex, the first
\* of them if several are.
OwnerOf(v, snaps) ==
    LET of == {a \in DOMAIN snaps : v \in snaps[a]} IN
    CHOOSE a \in of : \A b \in of \ {a} :
        \/ Off(v, a) < Off(v, b)
        \/ Off(v, a) = Off(v, b) /\ a < b

Searched(snaps) ==
    Costs(UNION Range(snaps), Arcs(edges),
          MapThenSumSet(LAMBDA x : x.cost, Arcs(edges)))

WalkToSnap(v, pred) ==
    LET walk[x \in DOMAIN pred] ==
            IF pred[x] = None THEN <<x>> ELSE <<x>> \o walk[pred[x]]
    IN  walk[v]

\* Labels are handed on in the order of distance, among equals of the vertices.
\* What comes before its predecessor, over a bridge between two vertices in one
\* place, is left with -1, and so is all that lies behind it.
InTurn(v, dist, pred) ==
    \/ pred[v] = None
    \/ dist[pred[v]] < dist[v]
    \/ dist[pred[v]] = dist[v] /\ pred[v] < v

Labels(dist, pred, snaps) ==
    [v \in {x \in DOMAIN pred : \A y \in Range(WalkToSnap(x, pred)) : InTurn(y, dist, pred)} |->
        OwnerOf(Last(WalkToSnap(v, pred)), snaps)]

\* Slip: only where an edge is written from the first anchor to the second.
OneWayBorder(labels) ==
    {e \in edges : Ends(e) \subseteq DOMAIN labels /\ labels[e.src] < labels[e.dst]}

Border(labels) ==
    {e \in edges : Ends(e) \subseteq DOMAIN labels /\ labels[e.src] # labels[e.dst]}

\* The places on the way, each once where vertices lie in one.
Coords(way) ==
    FoldLeft(LAMBDA c, v : IF c # <<>> /\ Last(c) = Place[v] THEN c ELSE Append(c, Place[v]),
             <<>>, way)

\* The cheapest crossing of each border that there is, and the way over it.
ChainEdges(dist, pred, labels) ==
    LET cost(e) == dist[e.src] + e.length + dist[e.dst]
        sides(e) == {labels[e.src], labels[e.dst]}
        best(s) == CHOOSE e \in Border(labels) :
            sides(e) = s /\ \A f \in Border(labels) : sides(f) = s => cost(e) <= cost(f)
        edge(s, e) ==
            LET u == IF labels[e.src] = Least(s) THEN e.src ELSE e.dst
                v == IF u = e.src THEN e.dst ELSE e.src
            IN  [a |-> Least(s), b |-> Greatest(s), cost |-> cost(e),
                 geom |-> Coords(Reverse(WalkToSnap(u, pred)) \o WalkToSnap(v, pred))]
    IN  {edge(s, best(s)) : s \in {sides(e) : e \in Border(labels)}}

---------------------------------------------------------------------------
Init ==
    /\ pc = "tiles"
    /\ table \in RowSets
    /\ manifest \in BOOLEAN
    /\ tiles = Cores
    /\ edges = {} /\ label = <<>> /\ found = {} /\ merged = {} /\ snapped = {}

\* The reader of the exported cells calls a module that it does not import.
LoadCells ==
    /\ pc = "tiles" /\ tiles # {} /\ manifest
    /\ pc' = "failed"
    /\ UNCHANGED <<table, manifest, tiles, edges, label, found, merged, snapped>>

LoadSubgraph ==
    /\ pc = "tiles" /\ tiles # {} /\ ~manifest
    /\ edges' = FloodFill(Candidates(Least(tiles) - BUFFER, Least(tiles) + CORE + BUFFER))
    /\ IF edges' = {} THEN tiles' = tiles \ {Least(tiles)} /\ UNCHANGED pc
                      ELSE pc' = "bridge" /\ UNCHANGED tiles
    /\ label' = <<>> /\ found' = {}
    /\ UNCHANGED <<table, manifest, merged, snapped>>

\* The shortest first, and none between what is joined by then.
BridgeGap ==
    /\ pc = "bridge"
    /\ \E p \in Bridgeable :
        /\ \A q \in Bridgeable : Gap(p) <= Gap(q)
        /\ edges' = edges \cup {[src |-> p[1], dst |-> p[2], length |-> Gap(p), way |-> None]}
    /\ UNCHANGED <<pc, table, manifest, tiles, label, found, merged, snapped>>

ComputeChain ==
    /\ pc = "bridge" /\ Bridgeable = {}
    /\ LET here == AnchorsIn(Least(tiles) - BUFFER, Least(tiles) + CORE + BUFFER)
           of == Components(edges)
           snaps == [a \in here |-> SnapsOf(a, of)]
           dist == Searched(snaps)
       IN  /\ \E pred \in Parents(UNION Range(snaps), dist, Arcs(edges), None) :
                LET labels == Labels(dist, pred, snaps) IN
                /\ label' = labels
                /\ found' = ChainEdges(dist, pred, labels)
           /\ snapped' = snapped \cup {a \in here : snaps[a] # {}}
    /\ pc' = "merge"
    /\ UNCHANGED <<table, manifest, tiles, edges, merged>>

SamePair(e, f) == e.a = f.a /\ e.b = f.b

\* Of two ways for a pair the cheaper, the earlier if they cost the same.
MergeTile ==
    /\ pc = "merge"
    /\ merged' =
        {e \in merged : ~\E f \in found : SamePair(e, f) /\ f.cost < e.cost} \cup
        {f \in found : ~\E e \in merged : SamePair(e, f) /\ e.cost <= f.cost}
    /\ tiles' = tiles \ {Least(tiles)}
    /\ pc' = "tiles"
    /\ UNCHANGED <<table, manifest, edges, label, found, snapped>>

WriteOutputs ==
    /\ pc = "tiles" /\ tiles = {}
    /\ pc' = "done"
    /\ UNCHANGED <<table, manifest, tiles, edges, label, found, merged, snapped>>

Next ==
    LoadCells \/ LoadSubgraph \/ BridgeGap \/ ComputeChain \/ MergeTile \/ WriteOutputs

Spec == Init /\ [][Next]_vars

---------------------------------------------------------------------------
(* What the next stages may rely on *)

\* No bridge in these is between two vertices in one place.
Apart(es) == \A e \in es : e.length > 0

\* Two anchors with vertices of their own that the roads of a tile join are
\* joined in the chain graph, if through others, whatever was merged before,
\* where every vertex between them has a label.  A vertex that the roads join to
\* a labelled one has none only if such a bridge is among those roads.
RoadsStayJoined ==
    pc = "tiles" =>
        LET chain == {[from |-> e.a, to |-> e.b, cost |-> 0] : e \in merged} \cup
                     {[from |-> e.b, to |-> e.a, cost |-> 0] : e \in merged}
            labelled == {e \in edges : Ends(e) \subseteq DOMAIN label}
            roads(u) == {e \in edges : e.src \in Component(u, edges)}
        IN  \A u \in DOMAIN label :
                /\ \A v \in DOMAIN label \cap Component(u, labelled) :
                        label[v] \in ReachedFrom({label[u]}, chain)
                /\ Apart(roads(u)) => Component(u, edges) \subseteq DOMAIN label
=============================================================================
