----------------------------- MODULE MCPipeline -----------------------------
(***************************************************************************)
(* The stages of the preprocessing pipeline, each on its small instances.  *)
(* One of them runs in a behaviour: TableSwap, whose constants the         *)
(* configuration gives, or another, whose variables are r1 .. r13.         *)
(***************************************************************************)
EXTENDS TableSwap, Sequences, TLC

VARIABLES which, r1, r2, r3, r4, r5, r6, r7, r8, r9, r10, r11, r12, r13

registers == <<r1, r2, r3, r4, r5, r6, r7, r8, r9, r10, r11, r12, r13>>
pipelineVars == <<which, vars, registers>>

Unused(r) == r = None

---------------------------------------------------------------------------
(* RoadIngest: ways in two files, with loops, unlocated nodes, one way     *)

OsmWay(i, k, n, o) == [id |-> i, kind |-> k, nodes |-> n, oneway |-> o]
Job(pbfs, supplement) == [pbfs |-> pbfs, supplement |-> supplement]
Stage == INSTANCE RoadIngest WITH
    Ways <- {OsmWay(1, "bike", <<1, 2, 3>>, 0), OsmWay(2, "drivable", <<3, 4, 4, 5>>, 1),
             OsmWay(3, "bike", <<5, 9, 6>>, -1), OsmWay(4, "other", <<6, 7>>, 0),
             OsmWay(5, "bike", <<9, 7>>, 0), OsmWay(6, "bike", <<7, 8, 7, 8>>, 0),
             OsmWay(7, "bike", <<1, 3, 2>>, 0)},
    Located <- 1..8, EDGE_BATCH <- 2, MaxKills <- 2,
    Files <- [at |-> {1, 2, 4}, cz |-> {2, 3, 7}, de |-> {3, 5}, dk |-> {6}, li |-> {4, 5}],
    JobLists <- {<<Job(<<"at">>, FALSE), Job(<<"cz">>, FALSE)>>,
                 <<Job(<<"at", "cz">>, FALSE)>>, <<Job(<<"at", "de">>, FALSE)>>,
                 <<Job(<<"at", "sk">>, FALSE), Job(<<"de">>, FALSE), Job(<<"at">>, TRUE)>>,
                 <<Job(<<"li">>, FALSE), Job(<<"dk">>, FALSE), Job(<<"at", "de">>, FALSE)>>,
                 <<Job(<<"at">>, TRUE), Job(<<"at", "cz">>, FALSE)>>},
    pc <- r1, jobs <- r2, todo <- r3, nodes <- r4, staged <- r5, unique <- r6,
    vertices <- r7, indexed <- r8, ways <- r9, lookup <- r10, lo <- r11, kills <- r12,
    owed <- r13

---------------------------------------------------------------------------
(* RoadCost: an edge for each branch of the price                          *)

Row(g, s, d, l, r, h, su, tt, bi) ==
    [gid |-> g, src |-> s, dst |-> d, length |-> l, reverse_cost |-> r, ferry |-> FALSE,
     highway |-> h, surface |-> su, tracktype |-> tt, bicycle |-> bi, cycleway |-> "",
     bicycle_road |-> FALSE, access |-> "", curv_fwd |-> 0, curv_rev |-> 0, canopy |-> 0,
     forest |-> 0, wide |-> 0, water |-> 0, relief |-> 0, view |-> 0]
RowsToPrice ==
    {Row(1, 1, 2, 100, 5, "track", "dirt", "grade3", ""),
     [Row(2, 2, 3, 50, -1, "path", "sand", "grade5", "yes")
        EXCEPT !.forest = 100, !.canopy = 100, !.water = 90, !.relief = 120],
     [Row(3, 3, 1, 100, 7, "residential", "asphalt", "", "designated")
        EXCEPT !.bicycle_road = TRUE, !.view = 150, !.wide = 100, !.curv_fwd = 90, !.forest = 60],
     [Row(4, 2, 4, 200, 9, "", "", "", "") EXCEPT !.ferry = TRUE],
     Row(5, 4, 1, 80, 8, "primary", "", "", "no"),
     [Row(6, 3, 4, 60, 3, "steps", "cobblestone", "", "") EXCEPT !.access = "private"],
     [Row(7, 3, 4, 60, 3, "cycleway", "mud", "grade2", "permissive")
        EXCEPT !.access = "no", !.canopy = 50, !.view = -20, !.wide = 50],
     Row(8, 1, 1, 0, 2, "service", "", "", "")}

\* The curve in six steps.
Steps(x) ==
    LET size == IF x < 0 THEN -x ELSE x
        t == CASE size < 25 -> size [] size < 60 -> 45 [] size < 110 -> 70
               [] size < 200 -> 90 [] OTHER -> 99
    IN  IF x < 0 THEN -t ELSE t

Price == INSTANCE RoadCost WITH
    Edges <- RowsToPrice, Place <- (1 :> 3) @@ (2 :> 5) @@ (3 :> 13) @@ (4 :> 14),
    Surveys <- {[v \in 1..4 |-> None],
                (1 :> 100) @@ (2 :> 106) @@ (3 :> 90) @@ (4 :> None),
                (1 :> 100) @@ (2 :> 106) @@ (3 :> 90) @@ (4 :> 112)},
    Tanh <- Steps, Asked <- {"direct", "scenic", "direct_thresh5", "direct_interactive",
                             "forest_lover"},
    TILE_SIZE <- 4, MaxKills <- 1, MaxRuns <- 3,
    pc <- r1, profile <- r2, tiles <- r3, column <- r4, elev <- r5, current <- r6,
    kills <- r7, runs <- r8

---------------------------------------------------------------------------
(* AnchorSelect: a town, two villages and two piers around one another     *)

Candidate(kind, lon, pop) == [kind |-> kind, lon |-> lon, pop |-> pop]
Select == INSTANCE AnchorSelect WITH
    Lists <- {<<Candidate("db", a, p1), Candidate("village", b, p2), Candidate("village", c, p3),
                Candidate("ferry_pier", d, 0), Candidate("ferry_pier", e, 0)>> :
                a \in {4, 6}, b \in {2, 3, 8}, c \in 0..9, d \in {0, 3, 20}, e \in {1, 9, 21},
                p1 \in {2, 5}, p2 \in {0, 3}, p3 \in {0, 3}},
    PIER_DEDUP_M <- 1, PIER_EATS_TOWN_M <- 2, MIN_SPACING_M <- 3,
    pc <- r1, places <- r2, keep <- r3, queue <- r4, absorbed <- r5

---------------------------------------------------------------------------
(* VoronoiGraph: roads by name and by number, gaps, one of no length, a    *)
(* tile border                                                             *)

Stretch(s, d, l, w) == [src |-> s, dst |-> d, length |-> l, way |-> w]
Tag(s, n, r) == [seed |-> s, name |-> n, ref |-> r]
Voronoi == INSTANCE VoronoiGraph WITH
    RowSets <- SUBSET {Stretch(0, 2, 2, "m"), Stretch(2, 5, 3, "n"), Stretch(5, 3, 2, "n"),
                       Stretch(9, 4, 3, "s"), Stretch(7, 10, 3, "t"), Stretch(10, 12, 2, "t"),
                       Stretch(2, 5, 4, "m"), Stretch(9, 10, 1, "u"), Stretch(11, 14, 0, "m"),
                       Stretch(12, 14, 2, "m")},
    Tags <- [m |-> Tag(TRUE, "", "B1"), n |-> Tag(FALSE, "Hauptstrasse", "B1"),
             s |-> Tag(TRUE, "Hauptstrasse", ""), t |-> Tag(TRUE, "Gasse", ""),
             u |-> Tag(FALSE, "", "")],
    Place <- [v \in 0..14 |-> IF v = 4 THEN 5 ELSE v],
    Anchors <- 1..4, At <- (1 :> 12) @@ (2 :> 1) @@ (3 :> 4) @@ (4 :> 8),
    CORE <- 6, BUFFER <- 3, GAP <- 1, REACH <- 2, MAX_SNAPS <- 1,
    pc <- r1, table <- r2, manifest <- r3, tiles <- r4, edges <- r5, label <- r6,
    found <- r7, merged <- r8, snapped <- r9

---------------------------------------------------------------------------
(* FerryChains: a strait with a way round, a harbour too short, a river    *)

Ferry(s, d, l, r) == [source |-> s, target |-> d, length |-> l, routable |-> r]
Ferries == INSTANCE FerryChains WITH
    FerryWays <- {Ferry(1, 6, 3, TRUE), Ferry(6, 2, 3, TRUE), Ferry(1, 2, 7, TRUE),
                  Ferry(2, 3, 5, TRUE), Ferry(3, 4, 2, TRUE), Ferry(4, 5, 1, TRUE),
                  Ferry(6, 3, 6, FALSE)},
    Piers <- 1..5, Land <- {11, 12, 13},
    At <- (1 :> <<0, 0>>) @@ (2 :> <<0, 4>>) @@ (3 :> <<4, 4>>) @@ (4 :> <<5, 4>>)
          @@ (5 :> <<6, 6>>) @@ (11 :> <<0, -1>>) @@ (12 :> <<-2, 4>>) @@ (13 :> <<1, 0>>),
    MAX_SEA_WAY_M <- 5, SHORTEST_WAY_M <- 2, MAX_EDGE_M <- 4, PIER_LAND_MAX_M <- 5,
    PIER_LAND_K <- 2, STRETCH <- 2, MaxRuns <- 2,
    pc <- r1, rows <- r2, anchors <- r3, edges <- r4, todo <- r5, start <- r6,
    cost_to <- r7, q <- r8, runs <- r9

---------------------------------------------------------------------------
(* ProximityGraph: triangles, even and uneven, a ferry, a pier             *)

Lane(s, d, c, f) == [src |-> s, dst |-> d, cost |-> c, reverse_cost |-> c, ferry |-> f]
Proximity == INSTANCE ProximityGraph WITH
    Vertices <- 1..6,
    Roads <- {Lane(1, 5, 1, FALSE), Lane(5, 2, 1, FALSE), Lane(5, 3, 1, FALSE),
              Lane(2, 3, 1, FALSE), Lane(3, 4, 1, FALSE), Lane(1, 4, 3, TRUE),
              Lane(2, 6, 1, FALSE), Lane(6, 4, 1, FALSE), Lane(1, 6, 2, FALSE),
              [Lane(1, 5, 2, FALSE) EXCEPT !.reverse_cost = -1]},
    Anchors <- 1..4, Piers <- {4},
    Disc <- (1 :> {1}) @@ (2 :> {2}) @@ (3 :> {3}) @@ (4 :> {3, 4}),
    Air <- [p \in (1..4) \X (1..4) |->
              IF p[1] = p[2] THEN 0 ELSE IF {p[1], p[2]} = {1, 4} THEN 2 ELSE 1],
    CandidateSets <- {{<<1, 4>>}, {<<1, 2>>, <<1, 3>>, <<1, 4>>, <<2, 4>>, <<3, 4>>},
                      {<<1, 3>>, <<2, 4>>, <<4, 1>>, <<4, 2>>, <<1, 9>>, <<9, 2>>}},
    COST_CAP_MULT <- 4, DETOUR_RATIO_CUTOFF <- 2, MAX_ROUNDS <- 3,
    pc <- r1, roads <- r2, todo <- r3, seen <- r4, round <- r5, batches <- r6, batch <- r7,
    kept <- r8, dropped <- r9

---------------------------------------------------------------------------
(* TrunkTrees: two parallel roads with some of the ways between them       *)

Track(s, d, c, r) == [src |-> s, dst |-> d, cost |-> c, reverse_cost |-> r, excluded |-> FALSE]
Parallel == {Track(2 * i, 2 * i + 2, 2, 2) : i \in 0..10}
            \cup {Track(2 * i + 1, 2 * i + 3, 2, 2) : i \in 0..10}
Between == {Track(14, 15, 1, 1), Track(2, 3, 1, 1), Track(7, 8, 1, 1), Track(18, 19, 1, None),
            Track(4, 12, 4, 4), Track(15, 20, 5, 5)}
Link(a, b, g, c) == [a |-> a, b |-> b, geom |-> g, cost |-> c]
Trees == INSTANCE TrunkTrees WITH
    WaySets <- {Parallel \cup S : S \in SUBSET Between}
               \cup {{}, {Track(2, 4, None, 1), [Track(8, 9, 1, 1) EXCEPT !.excluded = TRUE],
                          Track(4, 99, 1, 1)}},
    Vertices <- 0..23, Cities <- 0..4, Piers <- {4},
    Place <- (0 :> 2) @@ (1 :> 8) @@ (2 :> 9) @@ (3 :> 14) @@ (4 :> 20),
    Chains <- {{Link(0, 1, <<2, 4, 6, 8>>, 6), Link(2, 0, <<9, 7, 5, 3, 2>>, 7),
                Link(1, 3, <<8, 10, 12, 14>>, 6), Link(2, 3, <<9, 14>>, 0),
                Link(3, 4, <<14, 20>>, 4)},
               {Link(0, 1, <<2, 8>>, 3), Link(1, 3, <<8, 14>>, 0), Link(2, 3, <<9, 14>>, 2)}},
    CELL <- 4, TILE <- 4, BUFFER <- 10, PAD <- 1, DISC <- 1, SEED_RADIUS <- 0,
    MAX_CLIMB <- 5, BORDER <- 1, MAX_PASSES <- 3,
    pc <- r1, ways <- r2, chain <- r3, cells <- r4, todo <- r5, npz <- r6, graph <- r7,
    source <- r8, trunks <- r9, pass <- r10, turn <- r11, changed <- r12

ASSUME PipelineAssumption ==
    /\ Stage!RoadIngestAssumption /\ Price!RoadCostAssumption /\ Price!NoneOnTheRim
    /\ Select!AnchorSelectAssumption /\ Voronoi!VoronoiAssumption
    /\ Ferries!FerryChainsAssumption /\ Proximity!ProximityAssumption /\ Trees!TrunkTreesAssumption
    /\ TableSwapAssumption

---------------------------------------------------------------------------
NoSwap ==
    /\ Unused(name) /\ Unused(pc) /\ Unused(script) /\ Unused(table) /\ Unused(logged)
    /\ Unused(copy) /\ Unused(staging) /\ Unused(todo) /\ Unused(sampled) /\ Unused(kills)
    /\ alone = FALSE

UnusedFrom9 == Unused(r9) /\ Unused(r10) /\ Unused(r11) /\ Unused(r12) /\ Unused(r13)
from9 == <<r9, r10, r11, r12, r13>>

PipelineInit ==
    \/ which = "ingest" /\ Stage!Init /\ NoSwap
    \/ which = "price" /\ Price!Init /\ UnusedFrom9 /\ NoSwap
    \/ /\ which = "select" /\ Select!Init
       /\ Unused(r6) /\ Unused(r7) /\ Unused(r8) /\ UnusedFrom9 /\ NoSwap
    \/ /\ which = "voronoi" /\ Voronoi!Init
       /\ Unused(r10) /\ Unused(r11) /\ Unused(r12) /\ Unused(r13) /\ NoSwap
    \/ /\ which = "ferries" /\ Ferries!Init
       /\ Unused(r10) /\ Unused(r11) /\ Unused(r12) /\ Unused(r13) /\ NoSwap
    \/ /\ which = "proximity" /\ Proximity!Init
       /\ Unused(r10) /\ Unused(r11) /\ Unused(r12) /\ Unused(r13) /\ NoSwap
    \/ which = "trees" /\ Trees!Init /\ Unused(r13) /\ NoSwap
    \/ /\ which = "swap" /\ Init
       /\ Unused(r1) /\ Unused(r2) /\ Unused(r3) /\ Unused(r4) /\ Unused(r5) /\ Unused(r6)
       /\ Unused(r7) /\ Unused(r8) /\ UnusedFrom9

Is(stage) == which = stage /\ UNCHANGED which
IngestStep == Is("ingest") /\ Stage!Next /\ UNCHANGED vars
PriceStep == Is("price") /\ Price!Next /\ UNCHANGED <<from9, vars>>
SelectStep == Is("select") /\ Select!Next /\ UNCHANGED <<r6, r7, r8, from9, vars>>
VoronoiStep == Is("voronoi") /\ Voronoi!Next /\ UNCHANGED <<r10, r11, r12, r13, vars>>
FerriesStep == Is("ferries") /\ Ferries!Next /\ UNCHANGED <<r10, r11, r12, r13, vars>>
ProximityStep == Is("proximity") /\ Proximity!Next /\ UNCHANGED <<r10, r11, r12, r13, vars>>
TreesStep == Is("trees") /\ Trees!Next /\ UNCHANGED <<r13, vars>>
SwapStep == Is("swap") /\ Next /\ UNCHANGED registers

PipelineNext ==
    \/ IngestStep \/ PriceStep \/ SelectStep \/ VoronoiStep \/ FerriesStep
    \/ ProximityStep \/ TreesStep \/ SwapStep

PipelineSpec == PipelineInit /\ [][PipelineNext]_pipelineVars

---------------------------------------------------------------------------
\* What was staged between two vertices is in ways: RoadIngest.
StagedEdgesArrive == which = "ingest" => Stage!StagedEdgesArrive

\* A full recompute leaves right prices, whatever was killed before: RoadCost.
CostsKeepDirections == which = "price" => Price!CostsKeepDirections

\* A town gives way only to a larger one that is near: AnchorSelect.
AnchorsAreLocalMaxima == which = "select" => Select!AnchorsAreLocalMaxima

\* Anchors on one road are joined, across tiles as well: VoronoiGraph.
RoadsStayJoined == which = "voronoi" => Voronoi!RoadsStayJoined

\* Piers are joined over the water and to the land, at true lengths: FerryChains.
CrossingsJoinTheChain == which = "ferries" => Ferries!CrossingsJoinTheChain

\* A pair is dropped only if another way round is left: ProximityGraph.
TrianglesLeaveAWay == which = "proximity" => Proximity!TrianglesLeaveAWay

\* Following a trunk's rows ends, at the city or its neighbour: TrunkTrees.
WalksArrive == which = "trees" => Trees!WalksArrive

\* Pruning takes nothing a router walks: TrunkTrees.
PruningKeepsWalks == which = "trees" => Trees!PruningKeepsWalks
=============================================================================
