----------------------------- MODULE RailSpine -----------------------------
(***************************************************************************)
(* The rail-anchor graph of api/app/rail_router.py and its Dijkstra, next  *)
(* to direct_rail_service of api/app/tools.py, which answers from the same *)
(* timetables.  Anchors and stations are points of a line.  A route is     *)
(* known by its id in one country's feed and by the short name that feeds  *)
(* of neighbouring countries share.                                        *)
(***************************************************************************)
EXTENDS Integers, Sequences, FiniteSets

CONSTANTS
    Anchors,    \* cities by where they are
    Stations,   \* stations by where they are
    Routes,     \* raw route ids
    Timetables, \* which routes the stations may have
    Trips,      \* <<src, dst>>
    ShortName,  \* what _load_route_names() knows: a function of some routes
    Excludes,   \* the raw ids that are buses
    BallRadius, \* the KD-tree's radius, counted in degrees of latitude
    StationMax, \* STATION_MAX_KM
    None

RailSpineAssumption ==
    /\ Anchors \subseteq Int /\ IsFiniteSet(Anchors)
    /\ Stations \subseteq Int /\ IsFiniteSet(Routes)
    /\ BallRadius \in Nat /\ StationMax \in Nat
    /\ DOMAIN ShortName \subseteq Routes
    /\ Timetables \subseteq [Stations -> SUBSET Routes]
    /\ Trips \subseteq Anchors \X Anchors
    /\ \A n \in 1..Cardinality(Anchors) : None \notin [1..n -> Anchors]

VARIABLES
    pc,
    serves,     \* station_routes: the routes of each station
    src, dst,
    heap,       \* pairs <<d, u>>, stale ones too
    dist, parent,
    chain       \* what rail_shortest_path returns

vars == <<pc, serves, src, dst, heap, dist, parent, chain>>

Distance(u, v) == IF u < v THEN v - u ELSE u - v

---------------------------------------------------------------------------
(* The graph *)

\* The sidecar is loaded without the excluded routes.
StationRoutes(s) == serves[s] \ Excludes

AnchorRoutes(a) ==
    UNION {StationRoutes(s) : s \in {x \in Stations :
        Distance(a, x) <= BallRadius /\ Distance(a, x) <= StationMax}}

Canon(r) == IF r \in DOMAIN ShortName THEN ShortName[r] ELSE r
Calls(a) == {Canon(r) : r \in AnchorRoutes(a)}

\* Two anchors on a route of one name are joined.
Adjacent(a, b) == a # b /\ Calls(a) \cap Calls(b) # {}
OnGraph == {a \in Anchors : \E b \in Anchors : Adjacent(a, b)}

\* direct_rail_service with its default arguments: raw ids in common.
StationsForAnchor(a) ==
    {s \in Stations : Distance(a, s) <= StationMax /\ Cardinality(serves[s]) >= 1}
UnionRoutes(a) == UNION {StationRoutes(s) : s \in StationsForAnchor(a)}
DirectService(a, b) ==
    /\ StationsForAnchor(a) # {} /\ StationsForAnchor(b) # {}
    /\ UnionRoutes(a) \cap UnionRoutes(b) # {}

---------------------------------------------------------------------------
(* rail_shortest_path *)

Init ==
    /\ pc = "ask"
    /\ serves \in Timetables
    /\ \E t \in Trips : src = t[1] /\ dst = t[2]
    /\ heap = {} /\ dist = <<>> /\ parent = <<>> /\ chain = None

Return(path) == chain' = path /\ pc' = "done"

NotOnGraph ==
    /\ pc = "ask" /\ ~({src, dst} \subseteq OnGraph)
    /\ Return(None)
    /\ UNCHANGED <<serves, src, dst, heap, dist, parent>>

SameAnchor ==
    /\ pc = "ask" /\ src \in OnGraph /\ src = dst
    /\ Return(<<src>>)
    /\ UNCHANGED <<serves, src, dst, heap, dist, parent>>

Start ==
    /\ pc = "ask" /\ {src, dst} \subseteq OnGraph /\ src # dst
    /\ pc' = "search"
    /\ heap' = {<<0, src>>}
    /\ dist' = [v \in {src} |-> 0]
    /\ UNCHANGED <<serves, src, dst, parent, chain>>

\* The smallest entry, of two equal ones the smaller anchor.
Top == CHOOSE e \in heap : \A f \in heap :
            e[1] < f[1] \/ (e[1] = f[1] /\ e[2] <= f[2])

Back(v) ==
    LET path[u \in DOMAIN dist] ==
          IF u \in DOMAIN parent THEN Append(path[parent[u]], u) ELSE <<u>>
    IN  path[v]

Arrive ==
    /\ pc = "search" /\ heap # {} /\ Top[2] = dst
    /\ Return(Back(dst))
    /\ heap' = heap \ {Top}
    /\ UNCHANGED <<serves, src, dst, dist, parent>>

\* An entry that a shorter way has overtaken.
Stale == Top[1] > dist[Top[2]]
PopStale ==
    /\ pc = "search" /\ heap # {} /\ Top[2] # dst /\ Stale
    /\ heap' = heap \ {Top}
    /\ UNCHANGED <<pc, serves, src, dst, dist, parent, chain>>

\* Slip: an anchor already known is not improved any more.
FirstWayOnly(u) == {v \in Anchors : Adjacent(u, v) /\ v \notin DOMAIN dist}

\* The neighbours that are nearer through u.
Improved(u) ==
    {v \in Anchors : /\ Adjacent(u, v)
                     /\ v \in DOMAIN dist => dist[u] + Distance(u, v) < dist[v]}

Relax ==
    /\ pc = "search" /\ heap # {} /\ Top[2] # dst /\ ~Stale
    /\ LET u == Top[2]
           better == Improved(u)
           nd == [v \in better |-> Top[1] + Distance(u, v)] IN
        /\ dist' = [v \in DOMAIN dist \cup better |->
                        IF v \in better THEN nd[v] ELSE dist[v]]
        /\ parent' = [v \in DOMAIN parent \cup better |->
                        IF v \in better THEN u ELSE parent[v]]
        /\ heap' = (heap \ {Top}) \cup {<<nd[v], v>> : v \in better}
    /\ UNCHANGED <<pc, serves, src, dst, chain>>

Unreachable ==
    /\ pc = "search" /\ heap = {}
    /\ Return(None)
    /\ UNCHANGED <<serves, src, dst, heap, dist, parent>>

Next == NotOnGraph \/ SameAnchor \/ Start \/ Arrive \/ PopStale \/ Relax \/ Unreachable

Spec == Init /\ [][Next]_vars

---------------------------------------------------------------------------
Length(p) ==
    LET upTo[n \in 1..Len(p)] ==
          IF n = 1 THEN 0 ELSE upTo[n - 1] + Distance(p[n - 1], p[n])
    IN  upTo[Len(p)]

RailPaths ==
    {p \in UNION {[1..n -> Anchors] : n \in 1..Cardinality(Anchors)} :
        /\ p[1] = src /\ p[Len(p)] = dst
        /\ \A n \in 1..(Len(p) - 1) : Adjacent(p[n], p[n + 1])}

\* The spine is a shortest chain of anchors joined by trains, none only when
\* there is no chain; and where the two anchors of a hop share a train under
\* one feed's id, the question for a direct service confirms the hop.
SpineIsShortest ==
    pc = "done" =>
        IF chain = None THEN src = dst \/ RailPaths = {}
        ELSE /\ chain \in RailPaths
             /\ \A p \in RailPaths : Length(chain) <= Length(p)
             /\ \A n \in 1..(Len(chain) - 1) :
                    AnchorRoutes(chain[n]) \cap AnchorRoutes(chain[n + 1]) # {}
                        => DirectService(chain[n], chain[n + 1])
=============================================================================
