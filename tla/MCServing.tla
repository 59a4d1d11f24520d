----------------------------- MODULE MCServing -----------------------------
(***************************************************************************)
(* The algorithms behind the API, each on its small instances.  One of     *)
(* them runs in a behaviour: TrunkRoute, whose constants the configuration *)
(* gives, or another, whose variables are the registers r1 .. r8.          *)
(***************************************************************************)
EXTENDS TrunkRoute, TLC

VARIABLES which, r1, r2, r3, r4, r5, r6, r7, r8

registers == <<r1, r2, r3, r4, r5, r6, r7, r8>>
servingVars == <<which, vars, registers>>

Unused(r) == r = None

\* Start, forced stop and end of the requests to route().
RouteStopLists == {<<"a", "d">>, <<"a", "c", "d">>}

---------------------------------------------------------------------------
Split == INSTANCE StageSplit WITH
    Places <- 0..4, Anchors <- {0, 2, 3}, MaxLen <- 4, MaxStops <- 4,
    Targets <- 1..3,
    pc <- r1, poly <- r2, stops <- r3, target <- r4, seg <- r5, cut <- r6, overnights <- r7

Road(s, d, c, r) == [src |-> s, dst |-> d, cost |-> c, reverse_cost |-> r]
Search == INSTANCE LocalSearch WITH
    Edges <- {Road(0, 1, 1, 1), Road(0, 1, 4, -1), Road(1, 0, 2, 2), Road(0, 3, 1, -1),
              Road(3, 1, 1, 3), Road(4, 5, 1, 1), Road(2, 6, 1, 1), Road(6, 5, 1, 1),
              Road(5, 6, 1, -1)},
    CellWidth <- 4, Buffer <- 1, Starts <- {0, 5}, TargetSets <- {{1}, {1, 6}, {3, 2}, {7, 1}},
    Limit <- 4, Floor <- 1, Slack <- 0, Preferences <- {None, [at |-> 5, radius |-> 1]},
    Intercepts <- {None, 6},
    pc <- r1, rows <- r2, start <- r3, targets <- r4, prefer <- r5, intercept <- r6, result <- r7

Between(a, b, via) == [from_ref |-> a, to_ref |-> b, via_refs |-> via]
Tools == INSTANCE RouteTools WITH
    Clients <- {"c1", "c2"},
    Requests <- {Between("a", "b", <<>>), Between("a", "b", <<"v">>), Between("a", "a", <<>>)},
    Default <- "local", Regions <- <<>>, Placed <- {"a"}, MaxCalls <- 3,
    routes <- r1, kms <- r2, call <- r3, answered <- r4, calls <- r5

Stops == {0, 4, 6, 12}
Lines == {"at1", "cz1", "s", "t", "bus"}
Rail == INSTANCE RailSpine WITH
    Anchors <- {0, 3, 7, 12}, Stations <- Stops, Routes <- Lines,
    ShortName <- [r \in {"at1", "cz1"} |-> "R41"], Excludes <- {"bus"},
    BallRadius <- 1, StationMax <- 3,
    \* each line calls at none of the stations, or at two
    Timetables <- {[s \in Stops |-> {l \in Lines : s \in f[l]}] :
                    f \in {g \in [Lines -> {{}} \cup {{s, t} : s \in Stops, t \in Stops}] :
                            \A l \in Lines : g[l] = {} \/ Cardinality(g[l]) = 2}},
    Trips <- {<<3, 12>>, <<12, 0>>, <<7, 7>>},
    pc <- r1, serves <- r2, src <- r3, dst <- r4, heap <- r5, dist <- r6, parent <- r7,
    chain <- r8

Views == INSTANCE TrunkViews WITH
    Vertices <- 1..4,
    pc <- r1, succ <- r2, leaf <- r3, cur <- r4, coords <- r5, visited <- r6, chains <- r7

ASSUME ServingAssumption ==
    /\ TrunkRouteAssumption /\ Split!StageSplitAssumption
    /\ Search!LocalSearchAssumption /\ Tools!RouteToolsAssumption /\ Tools!OneBackend
    /\ Rail!RailSpineAssumption /\ Views!TrunkViewsAssumption

---------------------------------------------------------------------------
NoRoute ==
    /\ Unused(pc) /\ Unused(stops) /\ Unused(chain) /\ Unused(trunk) /\ Unused(terminus)
    /\ Unused(leg) /\ Unused(found) /\ walked = <<>> /\ bridges = <<>>

ServingInit ==
    \/ /\ which = "route" /\ Init
       /\ Unused(r1) /\ Unused(r2) /\ Unused(r3) /\ Unused(r4)
       /\ Unused(r5) /\ Unused(r6) /\ Unused(r7) /\ Unused(r8)
    \/ which = "split" /\ Split!Init /\ Unused(r8) /\ NoRoute
    \/ which = "search" /\ Search!Init /\ Unused(r8) /\ NoRoute
    \/ which = "tools" /\ Tools!Init /\ Unused(r6) /\ Unused(r7) /\ Unused(r8) /\ NoRoute
    \/ which = "rail" /\ Rail!Init /\ NoRoute
    \/ which = "views" /\ Views!Init /\ Unused(r8) /\ NoRoute

Is(name) == which = name /\ UNCHANGED which
RouteStep == Is("route") /\ Next /\ UNCHANGED registers
SplitStep == Is("split") /\ Split!Next /\ UNCHANGED <<r8, vars>>
SearchStep == Is("search") /\ Search!Next /\ UNCHANGED <<r8, vars>>
ToolsStep == Is("tools") /\ Tools!Next /\ UNCHANGED <<r6, r7, r8, vars>>
RailStep == Is("rail") /\ Rail!Next /\ UNCHANGED vars
ViewsStep == Is("views") /\ Views!Next /\ UNCHANGED <<r8, vars>>

ServingNext == RouteStep \/ SplitStep \/ SearchStep \/ ToolsStep \/ RailStep \/ ViewsStep

ServingSpec == ServingInit /\ [][ServingNext]_servingVars

---------------------------------------------------------------------------
\* The days keep the stops and add up to the route: StageSplit.
DaysTellTheRoute == which = "split" => Split!DaysTellTheRoute

\* A road search misses no target in its reach: LocalSearch.
SearchAnswers == which = "search" => Search!SearchAnswers

\* A tool that builds on an answered route gets that route: RouteTools.
ReadYourRoutes == which = "tools" => Tools!ReadYourRoutes

\* The rail spine is a shortest one, confirmed hop by hop: RailSpine.
SpineIsShortest == which = "rail" => Rail!SpineIsShortest

\* Both views of a trunk draw the same edges: TrunkViews.
ChainsDrawTheTrunk == which = "views" => Views!ChainsDrawTheTrunk
=============================================================================
