---------------------------- MODULE LocalSearch ----------------------------
(***************************************************************************)
(* local_dijkstra_to_targets of api/app/local_dijkstra.py: a way on the    *)
(* roads from a vertex to one of the vertices of a trunk.  Vertices are    *)
(* points of a line named by where they lie.  A cell file holds the edges  *)
(* that begin in its stretch of the line, each with a cost for either      *)
(* direction.                                                              *)
(***************************************************************************)
EXTENDS Integers, FiniteSets, ShortestWays

CONSTANTS
    Edges,      \* the edges a map may have: [src, dst, cost, reverse_cost]
    CellWidth,  \* CELL_DEG
    Buffer,     \* how near a border makes the next cell count
    Starts,     \* start_vid
    TargetSets, \* target_vids
    Limit,      \* max_cost
    Floor, Slack, \* of the crop's radius
    Preferences,  \* prefer_lonlat and prefer_radius_km, or None
    Intercepts,   \* intercept_lonlat, or None
    None

LocalSearchAssumption ==
    /\ CellWidth \in Nat \ {0} /\ Buffer \in Nat /\ Limit \in Nat
    /\ Edges \subseteq [src : Int, dst : Int, cost : Int, reverse_cost : Int]
    /\ \A e \in Edges : e.src # e.dst
    /\ IsFiniteSet(Edges)
    /\ \A T \in TargetSets : T \subseteq Int /\ IsFiniteSet(T)
    /\ Intercepts \subseteq Int \cup {None}
    /\ None \notin [vid : Int, cost : Nat]

VARIABLES
    pc,
    rows,       \* what the cell files hold
    start,
    targets,
    prefer, intercept,
    result      \* None or [vid, cost]

vars == <<pc, rows, start, targets, prefer, intercept, result>>

Distance(u, v) == IF u < v THEN v - u ELSE u - v
Least(S) == CHOOSE x \in S : \A y \in S : x <= y

---------------------------------------------------------------------------
(* The graph *)

CellOf(v) == v \div CellWidth
CellFile(c) == {e \in rows : CellOf(e.src) = c}

\* The cell of the start and those whose border it is near to.
Cells ==
    LET c == CellOf(start)  at == start % CellWidth IN
    {c} \cup (IF at < Buffer THEN {c - 1} ELSE {})
        \cup (IF at >= CellWidth - Buffer THEN {c + 1} ELSE {})

Graph == UNION {CellFile(c) : c \in Cells}
VertsOf(es) == UNION {{e.src, e.dst} : e \in es}

\* The targets near the preferred point, all of them if none is.
Preferred ==
    LET near == IF prefer = None THEN {}
                ELSE {t \in targets : Distance(t, prefer.at) <= prefer.radius} IN
    IF near = {} THEN targets ELSE near
Wanted == Preferred \cap VertsOf(Graph)

\* A negative cost closes a direction.  The matrix adds up the entries two
\* parallel edges leave in one place.
Arcs(es) == Csr(
    {[from |-> e.src, to |-> e.dst, cost |-> e.cost, of |-> e] :
        e \in {x \in es : x.cost >= 0}} \cup
    {[from |-> e.dst, to |-> e.src, cost |-> e.reverse_cost, of |-> e] :
        e \in {x \in es : x.reverse_cost >= 0}})

\* The reached target of the least cost, a pull to the intercept included.
Best(es, among) ==
    LET d == Costs({start}, Arcs(es), Limit)
        reached == among \cap DOMAIN d
        score == [t \in reached |->
                    d[t] + (IF intercept = None THEN 0 ELSE Distance(t, intercept))]
        best == {t \in reached : \A u \in reached : score[t] <= score[u]}
    IN  IF reached = {} THEN None
        ELSE [vid |-> Least(best), cost |-> d[Least(best)]]

---------------------------------------------------------------------------
(* The search *)

Init ==
    /\ pc = "load"
    /\ rows \in SUBSET Edges
    /\ start \in Starts /\ targets \in TargetSets
    /\ prefer \in Preferences /\ intercept \in Intercepts
    /\ result = None

Answer(r) == result' = r /\ pc' = "done"

\* No cell file, no such vertex, or no target among the vertices.
Loadable ==
    /\ CellFile(CellOf(start)) # {}
    /\ start \in VertsOf(Graph)
    /\ Wanted # {}

LoadFails ==
    /\ pc = "load" /\ ~Loadable
    /\ Answer(None)
    /\ UNCHANGED <<rows, start, targets, prefer, intercept>>

Load ==
    /\ pc = "load" /\ Loadable
    /\ pc' = "crop"
    /\ UNCHANGED <<rows, start, targets, prefer, intercept, result>>

\* Half as far again as the nearest target is away.
Radius ==
    LET nearest == Least({Distance(start, t) : t \in Wanted})
        r == (3 * nearest) \div 2 + Slack
    IN  IF r < Floor THEN Floor ELSE r

Kept == {v \in VertsOf(Graph) : Distance(start, v) <= Radius}
Cropped == {e \in Graph : e.src \in Kept /\ e.dst \in Kept}
WorthCropping == Cropped # {} /\ 2 * Cardinality(Kept) < Cardinality(VertsOf(Graph))

\* Slip: what the crop does not reach is taken to be out of reach.
SearchCropOnly ==
    /\ pc = "crop" /\ WorthCropping
    /\ Answer(Best(Cropped, Wanted))
    /\ UNCHANGED <<rows, start, targets, prefer, intercept>>

SearchCrop ==
    /\ pc = "crop" /\ WorthCropping
    /\ LET r == Best(Cropped, Wanted) IN
        IF r = None THEN pc' = "full" /\ UNCHANGED result ELSE Answer(r)
    /\ UNCHANGED <<rows, start, targets, prefer, intercept>>

SkipCrop ==
    /\ pc = "crop" /\ ~WorthCropping
    /\ pc' = "full"
    /\ UNCHANGED <<rows, start, targets, prefer, intercept, result>>

SearchWhole ==
    /\ pc = "full"
    /\ Answer(Best(Graph, Wanted))
    /\ UNCHANGED <<rows, start, targets, prefer, intercept>>

Next == LoadFails \/ Load \/ SearchCrop \/ SkipCrop \/ SearchWhole

Spec == Init /\ [][Next]_vars

---------------------------------------------------------------------------
(* What the caller may rely on *)

\* A search that comes back empty has not overlooked a way: none of the wanted
\* targets is in reach in the cells it loaded.  And what it comes back with is
\* a wanted target that is in reach, at no less than its cost there.
SearchAnswers ==
    pc = "done" /\ Loadable =>
        LET d == Costs({start}, Arcs(Graph), Limit)
            inReach == Wanted \cap DOMAIN d IN
        IF result = None THEN inReach = {}
        ELSE result.vid \in inReach /\ d[result.vid] <= result.cost
=============================================================================
