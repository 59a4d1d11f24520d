--------------------------- MODULE ShortestWays ---------------------------
(***************************************************************************)
(* What the programs take from SciPy: a sparse matrix built from edges,    *)
(* and Dijkstra's search over it from one or several sources within a      *)
(* limit.  An arc is a record [from, to, cost].                            *)
(***************************************************************************)
EXTENDS Integers, FiniteSets, FiniteSetsExt, TLC

\* csr_matrix: the costs given for one place of the matrix are added up.
\* "entries" may differ in more fields than an arc has.
Csr(entries) ==
    {[from |-> l[1], to |-> l[2],
      cost |-> MapThenSumSet(LAMBDA e : e.cost,
                             {e \in entries : e.from = l[1] /\ e.to = l[2]})] :
        l \in {<<e.from, e.to>> : e \in entries}}

\* Pairs <<vertex, cost>>: of several for one vertex the cheapest.
Cheapest(pairs) == {p \in pairs : \A q \in pairs : q[1] # p[1] \/ p[2] <= q[2]}

\* dijkstra(): the cost of every vertex reached, as a function of those.
Costs(sources, arcs, limit) ==
    LET steps(S) == {<<x[2].to, x[1][2] + x[2].cost>> :
                        x \in {y \in S \X arcs : /\ y[1][1] = y[2].from
                                                 /\ y[1][2] + y[2].cost <= limit}}
        verts == UNION {{a.from, a.to} : a \in arcs}
        hop[n \in 0..Cardinality(verts)] ==
            IF n = 0 THEN {<<s, 0>> : s \in sources}
            ELSE LET S == hop[n - 1] IN Cheapest(S \cup steps(S))
        found == hop[Cardinality(verts)]
    IN  [v \in {p[1] : p \in found} |-> (CHOOSE p \in found : p[1] = v)[2]]

\* Tracing predecessors back from v: the vertices of a cheapest way to it, for
\* each of the ways the search may have found.
WaysTo(v, dist, arcs) ==
    LET before(x) == {u \in DOMAIN dist : \E a \in arcs :
                        a.from = u /\ a.to = x /\ dist[u] + a.cost = dist[x]}
        back[x \in DOMAIN dist] ==
            IF dist[x] = 0 THEN {{x}}
            ELSE {W \cup {x} : W \in UNION {back[u] : u \in before(x)}}
    IN  back[v]

\* A choice of predecessors that leads back from every vertex.
Rooted(parent, none) ==
    LET known[n \in 0..Cardinality(DOMAIN parent)] ==
            IF n = 0 THEN {}
            ELSE LET K == known[n - 1] IN {v \in DOMAIN parent : parent[v] \in K \cup {none}}
    IN  known[Cardinality(DOMAIN parent)] = DOMAIN parent

\* The predecessors the search may return: of a source none, of another vertex
\* one of those before it on a cheapest way.
Parents(sources, dist, arcs, none) ==
    LET before(v) == IF v \in sources THEN {none}
                     ELSE {u \in DOMAIN dist : \E x \in arcs :
                            x.from = u /\ x.to = v /\ dist[u] + x.cost = dist[v]}
        with(t, v, u) == [x \in DOMAIN t \cup {v} |-> IF x = v THEN u ELSE t[x]]
        choices == FoldSet(LAMBDA v, T : {with(t[1], v, t[2]) : t \in T \X before(v)},
                           {<<>>}, DOMAIN dist)
    IN  {p \in choices : Rooted(p, none)}

\* The vertices the arcs lead to from a set of vertices.
ReachedFrom(S, arcs) ==
    LET reach[n \in 0..Cardinality(arcs)] ==
            IF n = 0 THEN S
            ELSE LET R == reach[n - 1] IN R \cup {a.to : a \in {x \in arcs : x.from \in R}}
    IN  reach[Cardinality(arcs)]
=============================================================================
